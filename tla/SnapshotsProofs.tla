------------------------ MODULE SnapshotsProofs ------------------------
(***************************************************************************)
(* Proofs about Snapshots: the base of a snapshot is one the client has    *)
(* and the ring still holds, and a client decodes the snapshots of the     *)
(* level it has loaded as they were built, for every number of clients,    *)
(* length of backup and size of the ring.                                  *)
(***************************************************************************)
EXTENDS Snapshots, FiniteSetTheorems, TLAPS

-----------------------------------------------------------------------------
(* The inductive invariant: the counter of the ring *)

\* Snapshots sent since sent was reset: each client counts once for its first
\* and once for its second.
Total == Cardinality({c \in Clients : sent[c] >= 1})
            + Cardinality({c \in Clients : sent[c] >= 2})

\* What the counter may have come to when the frame began.
CounterBound ==
    LET before == MaxInt - NumSnapshotEntities - 1
    IN  IF phase = "running" THEN before ELSE before + N * MAX_SNAPSHOT_ENTITIES

CounterOK ==
    /\ nextSnapshotEntities <= CounterBound + Total * MAX_SNAPSHOT_ENTITIES
    /\ phase = "running" => \A c \in Clients : sent[c] <= 1

-----------------------------------------------------------------------------
(* The inductive invariant: the numbers of messages *)

NumbersOK(c) ==
    /\ client[c].gamestate <= client[c].sequence
    /\ client[c].snap <= client[c].sequence
    /\ client[c].sequence < Out(c)
    /\ message[c].body # Nothing =>
          client[c].sequence < message[c].number /\ message[c].number < Out(c)
    /\ deltaMessage[c] <= client[c].sequence
    /\ \A i \in 0..(PACKET_BACKUP - 1) :
          LET s == client[c].snapshots[i]
          IN  s.number # 0 => /\ Slot(s.number) = i
                              /\ client[c].gamestate < s.number
                              /\ s.number <= client[c].sequence
    /\ client[c].snap # 0 =>
          client[c].snapshots[Slot(client[c].snap)].number = client[c].snap

-----------------------------------------------------------------------------
(* The inductive invariant: the order of messages *)

\* The gamestate a client has loaded, as the message it came in.
Loaded(c) ==
    [kind |-> "gamestate", level |-> client[c].level, baseline |-> client[c].baseline]

Known(body) ==
    body.kind \in {"gamestate", "snapshot"} =>
        /\ body.level <= level /\ body.baseline <= baseline
        /\ body.level = level <=> body.baseline = baseline

\* Made in this level.
Fresh(body) ==
    /\ body.kind = "gamestate" => body.level = level
    /\ body.kind = "snapshot" => body.baseline = baseline

\* What y may be if it is sent after x: nothing of an earlier level comes after
\* this level's gamestate, and a gamestate and a snapshot of one level are of
\* the same baselines.
Follows(x, y) ==
    x.kind = "gamestate" =>
        /\ x.level = level => Fresh(y)
        /\ y.kind = "snapshot" /\ x.level = y.level => x.baseline = y.baseline

\* The gamestate loaded, the message in flight, the one being sent in
\* fragments, and those that wait.
InOrder(loaded, flight, cut, waiting) ==
    /\ Known(loaded) /\ Known(flight)
    /\ Follows(loaded, flight)
    /\ \A i \in DOMAIN cut :
          Known(cut[i]) /\ Follows(loaded, cut[i]) /\ Follows(flight, cut[i])
    /\ \A i \in DOMAIN waiting :
          /\ Known(waiting[i])
          /\ Follows(loaded, waiting[i])
          /\ Follows(flight, waiting[i])
          /\ \A j \in DOMAIN cut : Follows(cut[j], waiting[i])
    /\ \A i, j \in DOMAIN waiting : i < j => Follows(waiting[i], waiting[j])

OrderOK(c) ==
    /\ InOrder(Loaded(c), message[c].body, sending[c], queue[c])
    /\ phase = "running" => \A i \in DOMAIN queue[c] : queue[c][i].kind # "snapshot"
    /\ state[c] = "active" /\ deltaMessage[c] > 0 => client[c].level = level

-----------------------------------------------------------------------------
(* The inductive invariant: frames and bases *)

SortedList(list) == \A i, j \in DOMAIN list : i < j => list[i].number < list[j].number

Members(list) == {list[i] : i \in DOMAIN list}

\* Frame f is that of this snapshot, and the ring holds its entities until
\* they are overwritten.
Holds(f, to, ps) ==
    /\ f.ps = ps
    /\ f.num = Len(to)
    /\ f.first + f.num <= nextSnapshotEntities
    /\ f.first > nextSnapshotEntities - NumSnapshotEntities =>
          Read(f, snapshotEntities) = to

\* Unless a later message has taken its place, so is that of c's message n,
\* as long as c is in use.
FrameHolds(c, n, to, ps) ==
    InUse(c) /\ n > Out(c) - PACKET_BACKUP => Holds(frames[c][Slot(n)], to, ps)

\* The client has read the snapshot as it was meant.
Right(s) == s.entities = Members(s.to) /\ s.ps = s.psTo

\* Snapshot s is one that c may keep.
Keeps(c, s) ==
    /\ SortedList(s.to)
    /\ s.ready => Right(s)
    /\ s.number # 0 /\ client[c].level = level =>
          Right(s) /\ FrameHolds(c, s.number, s.to, s.psTo)

HeldOK(c) == \A i \in 0..(PACKET_BACKUP - 1) : Keeps(c, client[c].snapshots[i])

FramesOK(c) ==
    /\ message[c].body.kind = "snapshot" /\ Fresh(message[c].body) =>
          FrameHolds(c, message[c].number, message[c].body.to, message[c].body.ps)
    /\ \A i \in DOMAIN sending[c] :
          phase = "running" /\ sending[c][i].kind = "snapshot" /\ Fresh(sending[c][i]) =>
             FrameHolds(c, Out(c), sending[c][i].to, sending[c][i].ps)

\* The message a snapshot is the difference to is one the client has.
AcknowledgedOK(c) ==
    LET d == deltaMessage[c]
    IN  state[c] = "active" /\ d > 0 =>
            \/ client[c].gamestate > d
            \/ d <= Out(c) - PACKET_BACKUP
            \/ client[c].snapshots[Slot(d)].number = d

BaseOK(c, m) ==
    LET d == m.number - m.body.delta
        s == client[c].snapshots[Slot(d)]
    IN  /\ SortedList(m.body.to)
        /\ IF m.body.delta = 0 THEN m.body.from = <<>> /\ m.body.psFrom = 0
           ELSE /\ 0 < d /\ d <= client[c].sequence
                /\ m.body.delta < PACKET_BACKUP
                /\ \/ client[c].gamestate > d
                   \/ /\ s.number = d
                      /\ s.to = m.body.from /\ s.psTo = m.body.psFrom
                      /\ Right(s)

BasesOK(c) == \A m \in Coming(c) : BaseOK(c, m)

ClientOK(c) ==
    /\ NumbersOK(c)
    /\ OrderOK(c)
    /\ HeldOK(c)
    /\ FramesOK(c)
    /\ AcknowledgedOK(c)
    /\ BasesOK(c)

IInv ==
    /\ TypeOK
    /\ baseline <= tick
    /\ CounterOK
    /\ \A c \in Clients : ClientOK(c)

-----------------------------------------------------------------------------
(* Naturals, recursion and remainders *)

\* A set of naturals that is not empty has a least element: the intervals up
\* to its elements have one that no other is strictly included in.
LEMMA LeastNatural ==
    ASSUME NEW T, T \subseteq Nat, T # {}
    PROVE  \E x \in T : \A y \in T : x <= y
  <1>. DEFINE I == {0..x : x \in T}
  <1>1. I \subseteq FiniteSubsetsOf(Nat)
    <2>1. \A x \in T : IsFiniteSet(0..x) /\ 0..x \subseteq Nat
      BY FS_Interval
    <2>. QED  BY <2>1 DEF FiniteSubsetsOf
  <1>2. I # {}
    OBVIOUS
  <1>3. PICK s \in I : \A t \in I : <<t, s>> \notin StrictSubsetOrdering(Nat)
    <2>. HIDE DEF I
    <2>. QED  BY <1>1, <1>2, FS_StrictSubsetOrderingWellFounded, WFMin
  <1>4. PICK x \in T : s = 0..x
    BY <1>3
  <1>5. ASSUME NEW y \in T
        PROVE  x <= y
    <2>1. <<0..y, 0..x>> \notin StrictSubsetOrdering(Nat)
      BY <1>3, <1>4
    <2>2. ~(0..y \subseteq 0..x /\ 0..y # 0..x)
      BY <2>1 DEF StrictSubsetOrdering
    <2>3. y < x => 0..y \subseteq 0..x /\ x \in 0..x /\ x \notin 0..y
      OBVIOUS
    <2>4. y < x => 0..y # 0..x
      BY <2>3, Zenon
    <2>. QED  BY <2>2, <2>3, <2>4
  <1>. QED  BY <1>5

\* Induction: a set with 0 and the successors of its naturals has them all.
LEMMA SetInduction ==
    ASSUME NEW T, 0 \in T, \A n \in Nat : n \in T => n + 1 \in T
    PROVE  Nat \subseteq T
  <1>1. SUFFICES ASSUME Nat \ T # {}
                 PROVE  FALSE
    OBVIOUS
  <1>2. PICK x \in Nat \ T : \A y \in Nat \ T : x <= y
    BY <1>1, LeastNatural
  <1>3. x - 1 \in Nat
    BY <1>2
  <1>4. x - 1 \in T
    BY <1>2, <1>3
  <1>. QED  BY <1>2, <1>3, <1>4

\* What n steps come to, one after the other, from base.
StepsFrom(n, D, base, step) ==
    {g \in [0..n -> D] :
        g[0] = base /\ \A i \in 1..n : g[i] = step[i][g[i - 1]]}

\* Recursion: a step from D to D can be taken n times.
LEMMA StepsDefine ==
    ASSUME NEW n \in Nat, NEW D, NEW base \in D,
           NEW step \in [1..n -> [D -> D]]
    PROVE  StepsFrom(n, D, base, step) # {}
  <1>. DEFINE P(k) == \E g \in [0..k -> D] :
                        g[0] = base /\ \A i \in 1..k : g[i] = step[i][g[i - 1]]
              T == {k \in Nat : k <= n => P(k)}
  <1>1. 0 \in T
    <2>. DEFINE g == [i \in 0..0 |-> base]
    <2>1. g \in [0..0 -> D] /\ g[0] = base /\ 1..0 = {}
      OBVIOUS
    <2>2. P(0)
      <3>. HIDE DEF g
      <3>. QED  BY <2>1
    <2>. QED  BY <2>2
  <1>2. ASSUME NEW k \in Nat, k \in T
        PROVE  k + 1 \in T
    <2>1. SUFFICES ASSUME k + 1 <= n
                   PROVE  P(k + 1)
      OBVIOUS
    <2>2. PICK g \in [0..k -> D] :
              g[0] = base /\ \A i \in 1..k : g[i] = step[i][g[i - 1]]
      BY <1>2, <2>1
    <2>. DEFINE h == [i \in 0..(k + 1) |-> IF i = k + 1 THEN step[i][g[k]] ELSE g[i]]
    <2>3. k + 1 \in 1..n /\ k \in 0..k /\ g[k] \in D
      BY <2>1
    <2>4. h \in [0..(k + 1) -> D] /\ h[0] = base
      BY <2>2, <2>3
    <2>5. ASSUME NEW i \in 1..(k + 1)
          PROVE  h[i] = step[i][h[i - 1]]
      <3>1. CASE i = k + 1
        <4>1. h[i] = step[i][g[k]] /\ h[k] = g[k]
          BY <3>1
        <4>. QED  BY <3>1, <4>1
      <3>2. CASE i \in 1..k
        <4>1. h[i] = g[i] /\ h[i - 1] = g[i - 1]
          BY <3>2
        <4>2. g[i] = step[i][g[i - 1]]
          BY <2>2, <3>2
        <4>. QED  BY <4>1, <4>2
      <3>. QED  BY <3>1, <3>2
    <2>. HIDE DEF h
    <2>. QED  BY <2>4, <2>5
  <1>3. Nat \subseteq T
    <2>. HIDE DEF T
    <2>. QED  BY <1>1, <1>2, SetInduction
  <1>. QED  BY <1>3 DEF StepsFrom

\* A multiple of a greater number is greater by at least the factor.
LEMMA MultiplesApart ==
    ASSUME NEW n \in Nat \ {0}, NEW k \in Int, NEW l \in Int, k < l
    PROVE  n * k + n <= n * l
  <1>1. PICK d \in Nat : l = k + 1 + d
    <2>1. l - k - 1 \in Nat
      OBVIOUS
    <2>2. l = k + 1 + (l - k - 1)
      OBVIOUS
    <2>. QED  BY <2>1, <2>2
  <1>2. n * l = n * k + n + n * d
    BY <1>1
  <1>3. n * d >= 0
    OBVIOUS
  <1>. QED  BY <1>2, <1>3

\* A remainder is below the modulus.
LEMMA RemainderRange ==
    ASSUME NEW n \in Nat \ {0}, NEW a \in Int
    PROVE  a % n \in 0..(n - 1)
  OBVIOUS

\* The remainders of two numbers closer than the divisor differ.
LEMMA RemaindersDiffer ==
    ASSUME NEW n \in Nat \ {0}, NEW a \in Int, NEW b \in Int, a < b, b < a + n
    PROVE  a % n # b % n
  <1>. DEFINE q == a \div n
              r == b \div n
  <1>1. /\ a % n \in 0..(n - 1) /\ a = n * q + (a % n) /\ q \in Int
        /\ b % n \in 0..(n - 1) /\ b = n * r + (b % n) /\ r \in Int
    OBVIOUS
  <1>. HIDE DEF q, r
  <1>2. SUFFICES ASSUME a % n = b % n
                 PROVE  FALSE
    OBVIOUS
  <1>3. n * q \in Int /\ n * r \in Int
    BY <1>1
  <1>4. n * q < n * r /\ n * r < n * q + n
    BY <1>1, <1>2, <1>3
  <1>5. q < r
    <2>1. ~(r < q)
      BY <1>1, <1>3, <1>4, MultiplesApart
    <2>2. r # q
      BY <1>1, <1>3, <1>4
    <2>. QED  BY <1>1, <2>1, <2>2
  <1>. QED  BY <1>1, <1>3, <1>4, <1>5, MultiplesApart

-----------------------------------------------------------------------------
(* The ring *)

\* The sizes the assumption gives: the ring of entities holds three rounds of
\* full frames.
LEMMA RingSize ==
    ASSUME SnapshotsAssumption
    PROVE  /\ NumSnapshotEntities \in Nat \ {0}
           /\ MAX_SNAPSHOT_ENTITIES \in Nat \ {0}
           /\ MAX_SNAPSHOT_ENTITIES <= NumSnapshotEntities
           /\ 3 * (N * MAX_SNAPSHOT_ENTITIES) <= NumSnapshotEntities
           /\ PACKET_BACKUP \in Nat \ {0}
           /\ N \in Nat \ {0}
  <1>. DEFINE P == N * MAX_SNAPSHOT_ENTITIES
  <1>1. P \in Nat /\ P >= MAX_SNAPSHOT_ENTITIES
    <2>1. /\ N \in Nat \ {0} /\ MAX_SNAPSHOT_ENTITIES \in Nat \ {0}
      BY DEF SnapshotsAssumption
    <2>2. P = (N - 1) * MAX_SNAPSHOT_ENTITIES + MAX_SNAPSHOT_ENTITIES
      BY <2>1
    <2>3. (N - 1) * MAX_SNAPSHOT_ENTITIES \in Nat
      BY <2>1
    <2>. QED  BY <2>1, <2>2, <2>3
  <1>2. 3 * N * MAX_SNAPSHOT_ENTITIES = 3 * P
    BY DEF SnapshotsAssumption
  <1>. HIDE DEF P
  <1>3. NumSnapshotEntities >= 3 * P
    BY <1>2 DEF SnapshotsAssumption
  <1>4. 3 * P <= NumSnapshotEntities
    BY <1>1, <1>3 DEF SnapshotsAssumption
  <1>. QED  BY <1>1, <1>3, <1>4 DEF SnapshotsAssumption, P

\* A frame's slot is one of the backup's.
LEMMA SlotRange ==
    ASSUME SnapshotsAssumption, NEW n \in Int
    PROVE  Slot(n) \in 0..(PACKET_BACKUP - 1)
  BY RingSize, RemainderRange DEF Slot

\* Messages within one backup of each other have slots of their own.
LEMMA SlotsDiffer ==
    ASSUME SnapshotsAssumption, NEW m \in Int, NEW n \in Int, m < n, n < m + PACKET_BACKUP
    PROVE  Slot(m) # Slot(n)
  BY RingSize, RemaindersDiffer DEF Slot

\* A list that is copied into the ring is found there.
LEMMA CopiedNew ==
    ASSUME SnapshotsAssumption, nextSnapshotEntities \in Nat,
           NEW list, Len(list) \in 0..MAX_SNAPSHOT_ENTITIES, DOMAIN list = 1..Len(list),
           NEW i \in 1..Len(list)
    PROVE  Copied(list)[(nextSnapshotEntities + i - 1) % NumSnapshotEntities]
              = BuiltEntities(list)[i]
  <1>. DEFINE at(j) == (nextSnapshotEntities + j - 1) % NumSnapshotEntities
  <1>1. /\ NumSnapshotEntities \in Nat \ {0}
        /\ MAX_SNAPSHOT_ENTITIES \in Nat
        /\ MAX_SNAPSHOT_ENTITIES <= NumSnapshotEntities
    BY RingSize
  <1>2. at(i) \in 0..(NumSnapshotEntities - 1)
    <2>. DEFINE a == nextSnapshotEntities + i - 1
    <2>1. a \in Int
      OBVIOUS
    <2>. HIDE DEF a
    <2>2. a % NumSnapshotEntities \in 0..(NumSnapshotEntities - 1)
      BY <1>1, <2>1, RemainderRange
    <2>. QED  BY <2>2 DEF a
  <1>3. ASSUME NEW j \in 1..Len(list), at(j) = at(i)
        PROVE  j = i
    <2>. DEFINE a == nextSnapshotEntities + i - 1
                b == nextSnapshotEntities + j - 1
    <2>1. a \in Int /\ b \in Int /\ a < b + NumSnapshotEntities /\ b < a + NumSnapshotEntities
      BY <1>1
    <2>2. ~(a < b) /\ ~(b < a)
      BY <1>1, <1>3, <2>1, RemaindersDiffer
    <2>. QED  BY <2>1, <2>2
  <1>4. (CHOOSE j \in DOMAIN list : at(i) = at(j)) = i
    BY <1>3
  <1>. QED  BY <1>2, <1>4 DEF Copied

\* And what was there before stays, up to a ring's length before its end.
LEMMA CopiedOld ==
    ASSUME SnapshotsAssumption, nextSnapshotEntities \in Nat,
           NEW list, Len(list) \in Nat, DOMAIN list = 1..Len(list),
           NEW p \in Nat, p < nextSnapshotEntities,
           p >= nextSnapshotEntities + Len(list) - NumSnapshotEntities
    PROVE  Copied(list)[p % NumSnapshotEntities]
              = snapshotEntities[p % NumSnapshotEntities]
  <1>1. NumSnapshotEntities \in Nat \ {0}
    BY RingSize
  <1>2. p \in Int /\ p % NumSnapshotEntities \in 0..(NumSnapshotEntities - 1)
    <2>1. p \in Int
      OBVIOUS
    <2>. QED  BY <1>1, <2>1, RemainderRange
  <1>3. ASSUME NEW j \in 1..Len(list)
        PROVE  p % NumSnapshotEntities # (nextSnapshotEntities + j - 1) % NumSnapshotEntities
    <2>. DEFINE b == nextSnapshotEntities + j - 1
    <2>1. b \in Int /\ p < b /\ b < p + NumSnapshotEntities
      BY <1>1
    <2>. HIDE DEF b
    <2>2. p % NumSnapshotEntities # b % NumSnapshotEntities
      BY <1>1, <1>2, <2>1, RemaindersDiffer
    <2>. QED  BY <2>2 DEF b
  <1>. DEFINE q == p % NumSnapshotEntities
  <1>4. ~\E j \in DOMAIN list : q = (nextSnapshotEntities + j - 1) % NumSnapshotEntities
    BY <1>3
  <1>. HIDE DEF q
  <1>5. Copied(list)[q] = snapshotEntities[q]
    BY <1>2, <1>4 DEF Copied, q
  <1>. QED  BY <1>5 DEF q

\* A frame reads back, from the ring, the entities just copied into it.
LEMMA ReadBuilt ==
    ASSUME SnapshotsAssumption, nextSnapshotEntities \in Nat,
           NEW list, Len(list) \in 0..MAX_SNAPSHOT_ENTITIES, DOMAIN list = 1..Len(list),
           NEW f, f.first = nextSnapshotEntities, f.num = Len(list)
    PROVE  Read(f, Copied(list)) = BuiltEntities(list)
  <1>1. \A i \in 1..Len(list) :
           Copied(list)[(f.first + i - 1) % NumSnapshotEntities] = BuiltEntities(list)[i]
    BY CopiedNew
  <1>2. BuiltEntities(list) = [i \in 1..Len(list) |-> BuiltEntities(list)[i]]
    BY DEF BuiltEntities
  <1>. QED  BY <1>1, <1>2 DEF Read

\* Copying a frame's entities leaves the entities of every frame as they were
\* that is not older than the ring less the new ones.
LEMMA ReadStays ==
    ASSUME SnapshotsAssumption, nextSnapshotEntities \in Nat,
           NEW list, Len(list) \in Nat, DOMAIN list = 1..Len(list),
           NEW f, f.first \in Nat, f.num \in Nat,
           f.first + f.num <= nextSnapshotEntities,
           f.first > nextSnapshotEntities + Len(list) - NumSnapshotEntities
    PROVE  Read(f, Copied(list)) = Read(f, snapshotEntities)
  <1>1. ASSUME NEW i \in 1..f.num
        PROVE  Copied(list)[(f.first + i - 1) % NumSnapshotEntities]
                  = snapshotEntities[(f.first + i - 1) % NumSnapshotEntities]
    <2>. DEFINE p == f.first + i - 1
    <2>1. /\ p \in Nat /\ p < nextSnapshotEntities
          /\ p >= nextSnapshotEntities + Len(list) - NumSnapshotEntities
      BY RingSize
    <2>. HIDE DEF p
    <2>2. Copied(list)[p % NumSnapshotEntities] = snapshotEntities[p % NumSnapshotEntities]
      BY <2>1, CopiedOld
    <2>. QED  BY <2>2 DEF p
  <1>. QED  BY <1>1 DEF Read

-----------------------------------------------------------------------------
(* The counter of the ring *)

Above(k) == {c \in Clients : sent[c] >= k}

\* The messages sent since the last frame: at most one, in a shutdown two, per
\* client.
LEMMA TotalBound ==
    ASSUME SnapshotsAssumption, sent \in [Clients -> 0..2]
    PROVE  /\ \A k : IsFiniteSet(Above(k)) /\ Cardinality(Above(k)) \in 0..N
           /\ Total = Cardinality(Above(1)) + Cardinality(Above(2))
           /\ Total \in 0..(2 * N)
           /\ (\A c \in Clients : sent[c] <= 1) => Total \in 0..N
           /\ (\A c \in Clients : sent[c] = 0) => Total = 0
  <1>1. N \in Nat /\ IsFiniteSet(Clients) /\ Cardinality(Clients) = N
    BY FS_Interval DEF Clients, SnapshotsAssumption
  <1>2. ASSUME NEW k
        PROVE  IsFiniteSet(Above(k)) /\ Cardinality(Above(k)) \in 0..N
    <2>1. Above(k) \subseteq Clients
      BY DEF Above
    <2>2. IsFiniteSet(Above(k)) /\ Cardinality(Above(k)) <= N
      BY <1>1, <2>1, FS_Subset
    <2>. QED  BY <1>1, <2>2, FS_CardinalityType
  <1>3. Total = Cardinality(Above(1)) + Cardinality(Above(2))
    BY DEF Total, Above
  <1>4. Total \in 0..(2 * N)
    <2>1. Cardinality(Above(1)) \in 0..N /\ Cardinality(Above(2)) \in 0..N
      BY <1>2
    <2>. QED  BY <1>1, <1>3, <2>1
  <1>5. ASSUME \A c \in Clients : sent[c] <= 1
        PROVE  Total \in 0..N
    <2>1. Above(2) = {}
      BY <1>5 DEF Above
    <2>2. Cardinality(Above(1)) \in 0..N /\ Cardinality(Above(2)) = 0
      BY <1>2, <2>1, FS_EmptySet
    <2>. QED  BY <1>1, <1>3, <2>2
  <1>6. ASSUME \A c \in Clients : sent[c] = 0
        PROVE  Total = 0
    <2>1. Above(1) = {} /\ Above(2) = {}
      BY <1>6 DEF Above
    <2>2. Cardinality(Above(1)) = 0 /\ Cardinality(Above(2)) = 0
      BY <2>1, FS_EmptySet
    <2>. QED  BY <1>3, <2>2
  <1>. QED  BY <1>2, <1>3, <1>4, <1>5, <1>6

\* A message more is one more in the total.
LEMMA TotalStep ==
    ASSUME SnapshotsAssumption, sent \in [Clients -> 0..2], NEW c \in Clients,
           sent[c] < 2, sent' = [sent EXCEPT ![c] = @ + 1]
    PROVE  sent' \in [Clients -> 0..2] /\ Total' = Total + 1
  <1>1. sent' \in [Clients -> 0..2]
    OBVIOUS
  <1>2. Total = Cardinality(Above(1)) + Cardinality(Above(2))
    BY TotalBound
  <1>3. Total' = Cardinality(Above(1)') + Cardinality(Above(2)')
    BY DEF Total, Above
  <1>4. IsFiniteSet(Above(1)) /\ Cardinality(Above(1)) \in Nat
    BY TotalBound DEF SnapshotsAssumption
  <1>5. IsFiniteSet(Above(2)) /\ Cardinality(Above(2)) \in Nat
    BY TotalBound DEF SnapshotsAssumption
  <1>6. CASE sent[c] = 0
    <2>1. Above(1)' = Above(1) \cup {c} /\ c \notin Above(1) /\ Above(2)' = Above(2)
      BY <1>6 DEF Above
    <2>2. Cardinality(Above(1)') = Cardinality(Above(1)) + 1
      BY <1>4, <2>1, FS_AddElement
    <2>. QED  BY <1>1, <1>2, <1>3, <1>4, <1>5, <2>1, <2>2
  <1>7. CASE sent[c] = 1
    <2>1. Above(2)' = Above(2) \cup {c} /\ c \notin Above(2) /\ Above(1)' = Above(1)
      BY <1>7 DEF Above
    <2>2. Cardinality(Above(2)') = Cardinality(Above(2)) + 1
      BY <1>5, <2>1, FS_AddElement
    <2>. QED  BY <1>1, <1>2, <1>3, <1>4, <1>5, <2>1, <2>2
  <1>. QED  BY <1>6, <1>7

\* A snapshot sent keeps the counter within what its frame leaves room for.
LEMMA CounterStep ==
    ASSUME SnapshotsAssumption, CounterOK, sent \in [Clients -> 0..2],
           nextSnapshotEntities \in Nat, NEW c \in Clients,
           sent[c] < 2, phase = "running" => sent[c] = 0,
           sent' = [sent EXCEPT ![c] = @ + 1],
           NEW n \in 0..MAX_SNAPSHOT_ENTITIES,
           nextSnapshotEntities' = nextSnapshotEntities + n,
           phase' = phase
    PROVE  CounterOK'
  <1>1. Total' = Total + 1 /\ Total \in Nat
    <2>1. Total \in 0..(2 * N) /\ 2 * N \in Nat
      BY TotalBound DEF SnapshotsAssumption
    <2>2. Total' = Total + 1
      BY TotalStep, Zenon
    <2>. QED  BY <2>1, <2>2
  <1>2. CounterBound' = CounterBound /\ CounterBound \in Int
    BY RingSize DEF CounterBound, SnapshotsAssumption
  <1>3. (Total + 1) * MAX_SNAPSHOT_ENTITIES
           = Total * MAX_SNAPSHOT_ENTITIES + MAX_SNAPSHOT_ENTITIES
    BY <1>1, RingSize
  <1>4. Total * MAX_SNAPSHOT_ENTITIES \in Nat
    BY <1>1, RingSize
  <1>5. nextSnapshotEntities' <= CounterBound' + Total' * MAX_SNAPSHOT_ENTITIES
    BY <1>1, <1>2, <1>3, <1>4, RingSize DEF CounterOK
  <1>6. phase' = "running" => \A d \in Clients : sent'[d] <= 1
    BY DEF CounterOK
  <1>. QED  BY <1>5, <1>6 DEF CounterOK

\* The counter of entities, which was tested before the frame, cannot pass its
\* limit in what a frame sends.
LEMMA CounterSmall ==
    ASSUME SnapshotsAssumption, TypeOK, CounterOK
    PROVE  CounterBelowLimit
  <1>. DEFINE P == N * MAX_SNAPSHOT_ENTITIES
              room == MaxInt - NumSnapshotEntities - 1
  <1>1. sent \in [Clients -> 0..2] /\ nextSnapshotEntities \in Nat
    BY DEF TypeOK
  <1>2. P \in Nat /\ 3 * P <= NumSnapshotEntities /\ room \in Int
    BY RingSize DEF SnapshotsAssumption
  <1>3. ASSUME NEW m \in Nat, NEW k \in 0..m
        PROVE  k * MAX_SNAPSHOT_ENTITIES <= m * MAX_SNAPSHOT_ENTITIES
    <2>1. m * MAX_SNAPSHOT_ENTITIES
             = k * MAX_SNAPSHOT_ENTITIES + (m - k) * MAX_SNAPSHOT_ENTITIES
      BY RingSize
    <2>2. k * MAX_SNAPSHOT_ENTITIES \in Nat /\ (m - k) * MAX_SNAPSHOT_ENTITIES \in Nat
      BY RingSize
    <2>. QED  BY <2>1, <2>2
  <1>4. CASE phase = "running"
    <2>1. Total \in 0..N
      BY <1>1, <1>4, TotalBound DEF CounterOK
    <2>2. Total * MAX_SNAPSHOT_ENTITIES <= P
      BY <1>3, <2>1, RingSize
    <2>3. Total * MAX_SNAPSHOT_ENTITIES \in Nat
      BY <2>1, RingSize
    <2>4. nextSnapshotEntities <= room + Total * MAX_SNAPSHOT_ENTITIES
      BY <1>4 DEF CounterOK, CounterBound
    <2>. HIDE DEF P
    <2>. QED  BY <1>1, <1>2, <2>2, <2>3, <2>4 DEF CounterBelowLimit, SnapshotsAssumption
  <1>5. CASE phase # "running"
    <2>1. Total \in 0..(2 * N)
      BY <1>1, TotalBound
    <2>2. Total * MAX_SNAPSHOT_ENTITIES <= (2 * N) * MAX_SNAPSHOT_ENTITIES
      BY <1>3, <2>1, RingSize
    <2>3. (2 * N) * MAX_SNAPSHOT_ENTITIES = 2 * P
      BY RingSize
    <2>4. Total * MAX_SNAPSHOT_ENTITIES \in Nat
      BY <2>1, RingSize
    <2>5. nextSnapshotEntities <= room + P + Total * MAX_SNAPSHOT_ENTITIES
      BY <1>5 DEF CounterOK, CounterBound
    <2>. HIDE DEF P
    <2>. QED  BY <1>1, <1>2, <2>2, <2>3, <2>4, <2>5
              DEF CounterBelowLimit, SnapshotsAssumption
  <1>. QED  BY <1>4, <1>5

-----------------------------------------------------------------------------
(* The merge of two sorted lists *)

Delta(e, n) == [op |-> "delta", number |-> n.number, from |-> e.version, to |-> n.version]
New(base, n) == [op |-> "new", number |-> n.number, from |-> base, to |-> n.version]
Remove(e) == [op |-> "remove", number |-> e.number]

Op ==
    [op : {"delta", "new"}, number : Nat, from : Nat, to : Nat]
    \cup [op : {"remove"}, number : Nat]

\* The loop after i entities of the old list and j of the new one.
At(i, j, ops) == [old |-> i + 1, new |-> j + 1, ops |-> ops]

\* What is written once the first i and j entities are done.
Written(o, from, to, base, i, j) ==
    \/ \E a \in 1..i : \E b \in 1..j :
          from[a].number = to[b].number /\ from[a] # to[b] /\ o = Delta(from[a], to[b])
    \/ \E b \in 1..j :
          /\ \A a \in 1..Len(from) : from[a].number # to[b].number
          /\ o = New(base, to[b])
    \/ \E a \in 1..i :
          /\ \A b \in 1..Len(to) : from[a].number # to[b].number
          /\ o = Remove(from[a])

\* Nothing that is left is to be compared with what is done.
Apart(from, to, i, j) ==
    /\ \A a \in 1..i : \A b \in (j + 1)..Len(to) : from[a].number < to[b].number
    /\ \A b \in 1..j : \A a \in (i + 1)..Len(from) : to[b].number < from[a].number

MergedRight(from, to, base, i, j, ops) ==
    /\ i \in Nat /\ i <= Len(from) /\ j \in Nat /\ j <= Len(to)
    /\ ops \in SUBSET Op
    /\ Apart(from, to, i, j)
    /\ \A o : o \in ops <=> Written(o, from, to, base, i, j)

\* Where a turn of it may get to.
TurnRight(from, to, base, i, j, ops) ==
    \E k, l, more :
        /\ EmitEntity(from, to, base, At(i, j, ops)) = At(k, l, more)
        /\ MergedRight(from, to, base, k, l, more)
        /\ k + l > i + j \/ (i = Len(from) /\ j = Len(to) /\ k = i /\ l = j)

\* The fields of a list's entity.
LEMMA EntityNumber ==
    ASSUME SnapshotsAssumption, NEW list \in Seq(EntityState), NEW i \in 1..Len(list)
    PROVE  /\ list[i] \in EntityState
           /\ list[i].number \in Nat /\ list[i].version \in Nat
  <1>1. list[i] \in EntityState
    OBVIOUS
  <1>. QED  BY <1>1 DEF EntityState, SnapshotsAssumption

\* One more entity of the new list, which the old one has not.
LEMMA WrittenNew ==
    ASSUME NEW from, NEW to, NEW base, NEW i \in Nat, NEW j \in Nat, j + 1 <= Len(to),
           \A a \in 1..Len(from) : from[a].number # to[j + 1].number,
           i <= Len(from), Len(from) \in Nat, Len(to) \in Nat
    PROVE  \A o : Written(o, from, to, base, i, j + 1)
                     <=> Written(o, from, to, base, i, j) \/ o = New(base, to[j + 1])
  <1>1. \A b : b \in 1..(j + 1) <=> b \in 1..j \/ b = j + 1
    OBVIOUS
  <1>2. 1..i \subseteq 1..Len(from)
    OBVIOUS
  <1>. QED  BY <1>1, <1>2 DEF Written

\* The turn of SV_EmitPacketEntities that ends an old entity writes its removal
\* and nothing else.
LEMMA WrittenRemove ==
    ASSUME NEW from, NEW to, NEW base, NEW i \in Nat, NEW j \in Nat, i + 1 <= Len(from),
           \A b \in 1..Len(to) : from[i + 1].number # to[b].number,
           j <= Len(to), Len(from) \in Nat, Len(to) \in Nat
    PROVE  \A o : Written(o, from, to, base, i + 1, j)
                     <=> Written(o, from, to, base, i, j) \/ o = Remove(from[i + 1])
  <1>1. \A a : a \in 1..(i + 1) <=> a \in 1..i \/ a = i + 1
    OBVIOUS
  <1>2. 1..j \subseteq 1..Len(to)
    OBVIOUS
  <1>. QED  BY <1>1, <1>2 DEF Written

\* The turn of SV_EmitPacketEntities that finds an entity in both lists writes
\* its difference, if it has one.
LEMMA WrittenDelta ==
    ASSUME NEW from, NEW to, NEW base, NEW i \in Nat, NEW j \in Nat,
           i + 1 <= Len(from), j + 1 <= Len(to), Len(from) \in Nat, Len(to) \in Nat,
           from[i + 1].number = to[j + 1].number,
           \A a \in 1..i : from[a].number # to[j + 1].number,
           \A b \in 1..j : from[i + 1].number # to[b].number
    PROVE  \A o : Written(o, from, to, base, i + 1, j + 1)
                     <=> \/ Written(o, from, to, base, i, j)
                         \/ from[i + 1] # to[j + 1] /\ o = Delta(from[i + 1], to[j + 1])
  <1>1. \A a : a \in 1..(i + 1) <=> a \in 1..i \/ a = i + 1
    OBVIOUS
  <1>2. \A b : b \in 1..(j + 1) <=> b \in 1..j \/ b = j + 1
    OBVIOUS
  <1>3. i + 1 \in 1..Len(from) /\ j + 1 \in 1..Len(to)
    OBVIOUS
  <1>. QED  BY <1>1, <1>2, <1>3 DEF Written

\* The turn that finds an entity in both lists keeps the merge right.
LEMMA TurnDelta ==
    ASSUME SnapshotsAssumption, NEW from \in Seq(EntityState), NEW to \in Seq(EntityState),
           SortedList(from), SortedList(to), NEW base \in Nat, NEW i, NEW j, NEW ops,
           MergedRight(from, to, base, i, j, ops),
           i < Len(from), j < Len(to), from[i + 1].number = to[j + 1].number
    PROVE  TurnRight(from, to, base, i, j, ops)
  <1>. DEFINE e == from[i + 1]
              n == to[j + 1]
              more == ops \cup (IF e = n THEN {} ELSE {Delta(e, n)})
  <1>1. /\ i \in Nat /\ j \in Nat /\ Len(from) \in Nat /\ Len(to) \in Nat
        /\ i + 1 \in 1..Len(from) /\ j + 1 \in 1..Len(to)
    BY DEF MergedRight
  <1>2. /\ \A a \in 1..Len(from) : from[a].number \in Nat /\ from[a].version \in Nat
        /\ \A b \in 1..Len(to) : to[b].number \in Nat /\ to[b].version \in Nat
    BY EntityNumber
  <1>3. /\ \A a, b \in 1..Len(from) : a < b => from[a].number < from[b].number
        /\ \A a, b \in 1..Len(to) : a < b => to[a].number < to[b].number
    BY DEF SortedList
  <1>4. EmitEntity(from, to, base, At(i, j, ops)) = At(i + 1, j + 1, more)
    <2>1. CASE e = n
      <3>1. EmitEntity(from, to, base, At(i, j, ops)) = At(i + 1, j + 1, ops)
        BY <1>1, <2>1 DEF EmitEntity, At
      <3>2. more = ops
        BY <2>1
      <3>. QED  BY <3>1, <3>2
    <2>2. CASE e # n
      <3>1. EmitEntity(from, to, base, At(i, j, ops))
               = At(i + 1, j + 1, ops \cup {Delta(e, n)})
        BY <1>1, <2>2 DEF EmitEntity, At, Delta
      <3>2. more = ops \cup {Delta(e, n)}
        BY <2>2
      <3>. QED  BY <3>1, <3>2
    <2>. QED  BY <2>1, <2>2
  <1>5. Delta(e, n) \in Op
    BY <1>1, <1>2 DEF Delta, Op
  <1>6. \A a \in 1..i : from[a].number < e.number
    <2>1. \A a \in 1..i : a \in 1..Len(from) /\ a < i + 1
      BY <1>1
    <2>. QED  BY <1>1, <1>3, <2>1
  <1>7. \A b \in 1..j : to[b].number < n.number
    BY <1>1, <1>2, <1>3
  <1>8. e.number \in Nat /\ n.number \in Nat
    BY <1>1, <1>2
  <1>9. \A a \in 1..i : from[a].number \in Nat
    BY <1>1, <1>2
  <1>10. \A b \in 1..j : to[b].number \in Nat
    BY <1>1, <1>2
  <1>11. \A o : Written(o, from, to, base, i + 1, j + 1)
                  <=> Written(o, from, to, base, i, j) \/ (e # n /\ o = Delta(e, n))
    <2>1. \A a \in 1..i : from[a].number # to[j + 1].number
      BY <1>6, <1>8, <1>9
    <2>2. \A b \in 1..j : from[i + 1].number # to[b].number
      BY <1>7, <1>8, <1>10
    <2>. QED  BY <1>1, <2>1, <2>2, WrittenDelta
  <1>12. Apart(from, to, i + 1, j + 1)
    <2>1. ASSUME NEW a \in 1..(i + 1), NEW b \in ((j + 1) + 1)..Len(to)
          PROVE  from[a].number < to[b].number
      <3>1. from[a].number <= e.number /\ from[a].number \in Nat
        BY <1>1, <1>6, <1>8, <1>9
      <3>2. n.number < to[b].number /\ to[b].number \in Nat
        BY <1>1, <1>2, <1>3
      <3>. QED  BY <1>8, <3>1, <3>2
    <2>2. ASSUME NEW b \in 1..(j + 1), NEW a \in ((i + 1) + 1)..Len(from)
          PROVE  to[b].number < from[a].number
      <3>1. to[b].number <= n.number /\ to[b].number \in Nat
        BY <1>1, <1>7, <1>8, <1>10
      <3>2. e.number < from[a].number /\ from[a].number \in Nat
        BY <1>1, <1>2, <1>3
      <3>. QED  BY <1>8, <3>1, <3>2
    <2>. QED  BY <2>1, <2>2 DEF Apart
  <1>13. \A o : o \in more <=> Written(o, from, to, base, i + 1, j + 1)
    BY <1>11 DEF MergedRight
  <1>14. MergedRight(from, to, base, i + 1, j + 1, more)
    <2>1. more \in SUBSET Op
      BY <1>5 DEF MergedRight
    <2>. HIDE DEF more
    <2>. QED  BY <1>1, <1>12, <1>13, <2>1 DEF MergedRight
  <1>15. (i + 1) + (j + 1) > i + j
    BY <1>1
  <1>. HIDE DEF more
  <1>. QED  BY <1>4, <1>14, <1>15 DEF TurnRight

\* The turn that finds a new entity, written from its baseline, keeps the merge
\* right.
LEMMA TurnNew ==
    ASSUME SnapshotsAssumption, NEW from \in Seq(EntityState), NEW to \in Seq(EntityState),
           SortedList(from), SortedList(to), NEW base \in Nat, NEW i, NEW j, NEW ops,
           MergedRight(from, to, base, i, j, ops),
           j < Len(to), i < Len(from) => to[j + 1].number < from[i + 1].number
    PROVE  TurnRight(from, to, base, i, j, ops)
  <1>. DEFINE n == to[j + 1]
              more == ops \cup {New(base, n)}
  <1>1. /\ i \in Nat /\ j \in Nat /\ Len(from) \in Nat /\ Len(to) \in Nat
        /\ i <= Len(from) /\ j + 1 \in 1..Len(to)
        /\ i < Len(from) => i + 1 \in 1..Len(from)
    BY DEF MergedRight
  <1>2. /\ \A a \in 1..Len(from) : from[a].number \in Nat /\ from[a].version \in Nat
        /\ \A b \in 1..Len(to) : to[b].number \in Nat /\ to[b].version \in Nat
    BY EntityNumber
  <1>3. \A a, b \in 1..Len(from) : a < b => from[a].number < from[b].number
    BY DEF SortedList
  <1>4. EmitEntity(from, to, base, At(i, j, ops)) = At(i, j + 1, more)
    <2>1. i < Len(from) => from[i + 1].number # n.number
      BY <1>1, <1>2
    <2>. QED  BY <1>1, <2>1 DEF EmitEntity, At, New
  <1>5. New(base, n) \in Op
    BY <1>1, <1>2 DEF New, Op
  <1>6. n.number \in Nat
    BY <1>1, <1>2
  <1>7. \A a \in (i + 1)..Len(from) : n.number < from[a].number
    BY <1>1, <1>2, <1>3
  <1>8. \A a \in 1..i : from[a].number < n.number /\ from[a].number \in Nat
    <2>1. j + 1 \in (j + 1)..Len(to) /\ 1..i \subseteq 1..Len(from)
      BY <1>1
    <2>. QED  BY <1>2, <2>1 DEF MergedRight, Apart
  <1>9. \A o : Written(o, from, to, base, i, j + 1)
                  <=> Written(o, from, to, base, i, j) \/ o = New(base, n)
    <2>1. ASSUME NEW a \in 1..Len(from)
          PROVE  from[a].number # to[j + 1].number
      <3>1. a \in 1..i \/ a \in (i + 1)..Len(from)
        BY <1>1
      <3>. QED  BY <1>2, <1>6, <1>7, <1>8, <3>1
    <2>. QED  BY <1>1, <2>1, WrittenNew
  <1>10. Apart(from, to, i, j + 1)
    <2>1. \A b \in ((j + 1) + 1)..Len(to) : b \in (j + 1)..Len(to)
      BY <1>1
    <2>2. \A b \in 1..(j + 1) : b \in 1..j \/ b = j + 1
      BY <1>1
    <2>. QED  BY <1>7, <2>1, <2>2 DEF Apart, MergedRight
  <1>11. \A o : o \in more <=> Written(o, from, to, base, i, j + 1)
    BY <1>9 DEF MergedRight
  <1>12. MergedRight(from, to, base, i, j + 1, more)
    <2>1. more \in SUBSET Op
      BY <1>5 DEF MergedRight
    <2>. HIDE DEF more
    <2>. QED  BY <1>1, <1>10, <1>11, <2>1 DEF MergedRight
  <1>13. i + (j + 1) > i + j
    BY <1>1
  <1>. HIDE DEF more
  <1>. QED  BY <1>4, <1>12, <1>13 DEF TurnRight

\* The turn that ends an old entity keeps the merge right.
LEMMA TurnRemove ==
    ASSUME SnapshotsAssumption, NEW from \in Seq(EntityState), NEW to \in Seq(EntityState),
           SortedList(from), SortedList(to), NEW base \in Nat, NEW i, NEW j, NEW ops,
           MergedRight(from, to, base, i, j, ops),
           i < Len(from), j < Len(to) => from[i + 1].number < to[j + 1].number
    PROVE  TurnRight(from, to, base, i, j, ops)
  <1>. DEFINE e == from[i + 1]
              more == ops \cup {Remove(e)}
  <1>1. /\ i \in Nat /\ j \in Nat /\ Len(from) \in Nat /\ Len(to) \in Nat
        /\ j <= Len(to) /\ i + 1 \in 1..Len(from)
        /\ j < Len(to) => j + 1 \in 1..Len(to)
    BY DEF MergedRight
  <1>2. /\ \A a \in 1..Len(from) : from[a].number \in Nat /\ from[a].version \in Nat
        /\ \A b \in 1..Len(to) : to[b].number \in Nat /\ to[b].version \in Nat
    BY EntityNumber
  <1>3. \A a, b \in 1..Len(to) : a < b => to[a].number < to[b].number
    BY DEF SortedList
  <1>4. EmitEntity(from, to, base, At(i, j, ops)) = At(i + 1, j, more)
    <2>1. j < Len(to) => e.number # to[j + 1].number /\ ~(to[j + 1].number < e.number)
      BY <1>1, <1>2
    <2>. QED  BY <1>1, <2>1 DEF EmitEntity, At, Remove
  <1>5. Remove(e) \in Op
    BY <1>1, <1>2 DEF Remove, Op
  <1>6. e.number \in Nat
    BY <1>1, <1>2
  <1>7. \A b \in (j + 1)..Len(to) : e.number < to[b].number
    BY <1>1, <1>2, <1>3
  <1>8. \A b \in 1..j : to[b].number < e.number /\ to[b].number \in Nat
    <2>1. i + 1 \in (i + 1)..Len(from) /\ 1..j \subseteq 1..Len(to)
      BY <1>1
    <2>. QED  BY <1>2, <2>1 DEF MergedRight, Apart
  <1>9. \A o : Written(o, from, to, base, i + 1, j)
                  <=> Written(o, from, to, base, i, j) \/ o = Remove(e)
    <2>1. ASSUME NEW b \in 1..Len(to)
          PROVE  from[i + 1].number # to[b].number
      <3>1. b \in 1..j \/ b \in (j + 1)..Len(to)
        BY <1>1
      <3>. QED  BY <1>2, <1>6, <1>7, <1>8, <3>1
    <2>. QED  BY <1>1, <2>1, WrittenRemove
  <1>10. Apart(from, to, i + 1, j)
    <2>1. \A a \in ((i + 1) + 1)..Len(from) : a \in (i + 1)..Len(from)
      BY <1>1
    <2>2. \A a \in 1..(i + 1) : a \in 1..i \/ a = i + 1
      BY <1>1
    <2>. QED  BY <1>7, <2>1, <2>2 DEF Apart, MergedRight
  <1>11. \A o : o \in more <=> Written(o, from, to, base, i + 1, j)
    BY <1>9 DEF MergedRight
  <1>12. MergedRight(from, to, base, i + 1, j, more)
    <2>1. more \in SUBSET Op
      BY <1>5 DEF MergedRight
    <2>. HIDE DEF more
    <2>. QED  BY <1>1, <1>10, <1>11, <2>1 DEF MergedRight
  <1>13. (i + 1) + j > i + j
    BY <1>1
  <1>. HIDE DEF more
  <1>. QED  BY <1>4, <1>12, <1>13 DEF TurnRight

\* A turn of the loop keeps the merge right, and gets on unless it is done.
LEMMA TurnsRight ==
    ASSUME SnapshotsAssumption, NEW from \in Seq(EntityState), NEW to \in Seq(EntityState),
           SortedList(from), SortedList(to), NEW base \in Nat, NEW i, NEW j, NEW ops,
           MergedRight(from, to, base, i, j, ops)
    PROVE  TurnRight(from, to, base, i, j, ops)
  <1>1. /\ i \in Nat /\ j \in Nat /\ Len(from) \in Nat /\ Len(to) \in Nat
        /\ i <= Len(from) /\ j <= Len(to)
    BY DEF MergedRight
  <1>2. /\ i < Len(from) => from[i + 1].number \in Nat
        /\ j < Len(to) => to[j + 1].number \in Nat
    <2>1. /\ i < Len(from) => i + 1 \in 1..Len(from)
          /\ j < Len(to) => j + 1 \in 1..Len(to)
      BY <1>1
    <2>. QED  BY <2>1, EntityNumber
  <1>3. CASE i = Len(from) /\ j = Len(to)
    <2>1. EmitEntity(from, to, base, At(i, j, ops)) = At(i, j, ops)
      BY <1>1, <1>3 DEF EmitEntity, At
    <2>. QED  BY <1>3, <2>1 DEF TurnRight
  <1>4. CASE i < Len(from) /\ j < Len(to) /\ from[i + 1].number = to[j + 1].number
    BY <1>4, TurnDelta
  <1>5. CASE j < Len(to) /\ (i < Len(from) => to[j + 1].number < from[i + 1].number)
    BY <1>5, TurnNew
  <1>6. CASE i < Len(from) /\ (j < Len(to) => from[i + 1].number < to[j + 1].number)
    BY <1>6, TurnRemove
  <1>. QED  BY <1>1, <1>2, <1>3, <1>4, <1>5, <1>6

\* The merge writes what makes the one list from the other.
LEMMA MergeWritten ==
    ASSUME SnapshotsAssumption, NEW from \in Seq(EntityState), NEW to \in Seq(EntityState),
           SortedList(from), SortedList(to), NEW base \in Nat
    PROVE  LET ops == SV_EmitPacketEntities(from, to, base)
           IN  /\ ops \in SUBSET Op
               /\ \A o : o \in ops <=> Written(o, from, to, base, Len(from), Len(to))
  <1>. DEFINE n == Len(from) + Len(to)
              States == {m \in [old : Nat, new : Nat, ops : SUBSET Op] :
                            \E i, j, ops : /\ m = At(i, j, ops)
                                           /\ MergedRight(from, to, base, i, j, ops)}
              step == [k \in 1..n |-> [m \in States |-> EmitEntity(from, to, base, m)]]
              Start == [old |-> 1, new |-> 1, ops |-> {}]
              Steps(f) == f = [k \in 0..n |->
                                  IF k = 0 THEN Start
                                  ELSE EmitEntity(from, to, base, f[k - 1])]
              after == CHOOSE f : Steps(f)
  <1>1. Len(from) \in Nat /\ Len(to) \in Nat /\ n \in Nat
    OBVIOUS
  <1>2. \A i, j, ops : MergedRight(from, to, base, i, j, ops) => At(i, j, ops) \in States
    BY <1>1 DEF MergedRight, At
  <1>3. Start = At(0, 0, {}) /\ MergedRight(from, to, base, 0, 0, {})
    BY <1>1 DEF At, MergedRight, Written, Apart
  <1>4. Start \in States
    <2>. HIDE DEF Start, States
    <2>. QED  BY <1>2, <1>3
  <1>5. ASSUME NEW m \in States
        PROVE  /\ EmitEntity(from, to, base, m) \in States
               /\ \E i, j, ops :
                     /\ m = At(i, j, ops)
                     /\ MergedRight(from, to, base, i, j, ops)
                     /\ TurnRight(from, to, base, i, j, ops)
    <2>1. PICK i, j, ops : m = At(i, j, ops) /\ MergedRight(from, to, base, i, j, ops)
      OBVIOUS
    <2>2. TurnRight(from, to, base, i, j, ops)
      BY <2>1, TurnsRight
    <2>. HIDE DEF States
    <2>. QED  BY <1>2, <2>1, <2>2 DEF TurnRight
  <1>6. PICK f : f \in StepsFrom(n, States, Start, step)
    <2>1. step \in [1..n -> [States -> States]]
      <3>. HIDE DEF States
      <3>. QED  BY <1>5
    <2>. HIDE DEF step, n, States, Start
    <2>. QED  BY <1>1, <1>4, <2>1, StepsDefine
  <1>7. Steps(f)
    <2>1. \A k \in 1..n : \A m \in States : step[k][m] = EmitEntity(from, to, base, m)
      <3>. HIDE DEF States
      <3>. QED  OBVIOUS
    <2>. HIDE DEF step, n, States, Start
    <2>2. ASSUME NEW k \in 0..n
          PROVE  f[k] = IF k = 0 THEN Start ELSE EmitEntity(from, to, base, f[k - 1])
      <3>1. CASE k = 0
        BY <1>6, <3>1 DEF StepsFrom
      <3>2. CASE k # 0
        <4>1. k \in 1..n /\ k - 1 \in 0..n
          BY <1>1, <3>2
        <4>2. f[k] = step[k][f[k - 1]] /\ f[k - 1] \in States
          BY <1>6, <4>1 DEF StepsFrom
        <4>. QED  BY <2>1, <3>2, <4>1, <4>2
      <3>. QED  BY <3>1, <3>2
    <2>3. f = [k \in 0..n |-> f[k]]
      BY <1>6 DEF StepsFrom
    <2>. QED  BY <2>2, <2>3
  <1>8. Steps(after)
    <2>. HIDE DEF Steps
    <2>. QED  BY <1>7
  <1>9. SV_EmitPacketEntities(from, to, base) = after[n].ops
    BY DEF SV_EmitPacketEntities
  <1>10. /\ after[0] = Start
         /\ \A k \in 1..n : after[k] = EmitEntity(from, to, base, after[k - 1])
    <2>. HIDE DEF after, n, Start
    <2>1. after[0] = Start
      BY <1>1, <1>8
    <2>2. ASSUME NEW k \in 1..n
          PROVE  after[k] = EmitEntity(from, to, base, after[k - 1])
      <3>1. k \in 0..n /\ k # 0
        BY <1>1
      <3>. QED  BY <1>8, <3>1
    <2>. QED  BY <2>1, <2>2
  <1>. DEFINE Reached(k, m) ==
                 \E i, j, ops :
                    /\ m = At(i, j, ops)
                    /\ MergedRight(from, to, base, i, j, ops)
                    /\ i + j >= k \/ (i = Len(from) /\ j = Len(to))
              T == {k \in Nat : k <= n => Reached(k, after[k])}
  <1>11. 0 \in T
    <2>. HIDE DEF after
    <2>1. after[0] = At(0, 0, {})
      BY <1>3, <1>10
    <2>2. 0 + 0 >= 0
      OBVIOUS
    <2>3. Reached(0, after[0])
      BY <1>3, <2>1, <2>2
    <2>. QED  BY <2>3
  <1>12. ASSUME NEW k \in Nat, k \in T
         PROVE  k + 1 \in T
    <2>. HIDE DEF after
    <2>1. SUFFICES ASSUME k + 1 <= n
                   PROVE  Reached(k + 1, after[k + 1])
      OBVIOUS
    <2>. HIDE DEF n
    <2>2. PICK i, j, ops : /\ after[k] = At(i, j, ops)
                           /\ MergedRight(from, to, base, i, j, ops)
                           /\ i + j >= k \/ (i = Len(from) /\ j = Len(to))
      BY <1>1, <1>12, <2>1
    <2>3. after[k + 1] = EmitEntity(from, to, base, At(i, j, ops))
      BY <1>1, <1>10, <2>1, <2>2
    <2>4. TurnRight(from, to, base, i, j, ops)
      BY <2>2, TurnsRight
    <2>5. PICK p, q, more :
             /\ after[k + 1] = At(p, q, more)
             /\ MergedRight(from, to, base, p, q, more)
             /\ p + q > i + j \/ (i = Len(from) /\ j = Len(to) /\ p = i /\ q = j)
      BY <2>3, <2>4 DEF TurnRight
    <2>6. /\ i \in Nat /\ j \in Nat /\ p \in Nat /\ q \in Nat
          /\ i <= Len(from) /\ j <= Len(to) /\ p <= Len(from) /\ q <= Len(to)
      BY <2>2, <2>5 DEF MergedRight
    <2>7. p + q >= k + 1 \/ (p = Len(from) /\ q = Len(to))
      BY <1>1, <2>2, <2>5, <2>6
    <2>. QED  BY <2>5, <2>7
  <1>13. Nat \subseteq T
    <2>. HIDE DEF T
    <2>. QED  BY <1>11, <1>12, SetInduction
  <1>14. PICK i, j, ops :
            /\ after[n] = At(i, j, ops)
            /\ MergedRight(from, to, base, i, j, ops)
            /\ i + j >= n \/ (i = Len(from) /\ j = Len(to))
    <2>. HIDE DEF after
    <2>1. Reached(n, after[n])
      BY <1>1, <1>13
    <2>. QED  BY <2>1
  <1>15. i = Len(from) /\ j = Len(to)
    BY <1>1, <1>14 DEF MergedRight
  <1>16. SV_EmitPacketEntities(from, to, base) = ops
    <2>. HIDE DEF after
    <2>. QED  BY <1>9, <1>14 DEF At
  <1>. HIDE DEF after
  <1>. QED  BY <1>14, <1>15, <1>16 DEF MergedRight

\* A sorted list has a number once.
LEMMA SameEntity ==
    ASSUME SnapshotsAssumption, NEW list \in Seq(EntityState), SortedList(list),
           NEW i \in 1..Len(list), NEW j \in 1..Len(list), list[i].number = list[j].number
    PROVE  i = j
  <1>1. list[i].number \in Nat /\ list[j].number \in Nat
    BY EntityNumber
  <1>2. ~(i < j) /\ ~(j < i)
    BY <1>1 DEF SortedList
  <1>. QED  BY <1>2

\* A client that has the entities and the baselines a list was encoded from
\* reads the list: the delta encoding and its inverse.
THEOREM MergeReadsBack ==
    ASSUME SnapshotsAssumption, NEW from \in Seq(EntityState), NEW to \in Seq(EntityState),
           SortedList(from), SortedList(to), NEW base \in Nat
    PROVE  CL_ParsePacketEntities(SV_EmitPacketEntities(from, to, base),
                                  Members(from), base) = Members(to)
  <1>. DEFINE ops == SV_EmitPacketEntities(from, to, base)
              old == Members(from)
              kept == {e \in old : \A o \in ops : o.number # e.number}
              news == {[number |-> o.number, version |-> Apply(o.from, o.to, base)] :
                          o \in {p \in ops : p.op = "new"}}
              changed == UNION {{[number |-> o.number,
                                  version |-> Apply(o.from, o.to, e.version)] :
                                    e \in {d \in old : d.number = o.number}} :
                            o \in {p \in ops : p.op = "delta"}}
  <1>1. \A o : o \in ops <=> Written(o, from, to, base, Len(from), Len(to))
    BY MergeWritten
  <1>2. CL_ParsePacketEntities(ops, old, base) = kept \cup news \cup changed
    BY DEF CL_ParsePacketEntities
  <1>3. /\ DOMAIN from = 1..Len(from) /\ DOMAIN to = 1..Len(to)
        /\ \A a \in 1..Len(from) : from[a] \in EntityState
        /\ \A b \in 1..Len(to) : to[b] \in EntityState
    BY EntityNumber
  <1>4. \A b \in 1..Len(to) : to[b] = [number |-> to[b].number, version |-> to[b].version]
    BY <1>3 DEF EntityState
  <1>5. /\ \A i, j \in 1..Len(from) : from[i].number = from[j].number => i = j
        /\ \A i, j \in 1..Len(to) : to[i].number = to[j].number => i = j
    BY SameEntity
  <1>. HIDE DEF ops
  <1>6. ASSUME NEW e \in kept
        PROVE  e \in Members(to)
    <2>1. PICK a \in 1..Len(from) : e = from[a]
      BY <1>3 DEF Members
    <2>2. \A o : Written(o, from, to, base, Len(from), Len(to)) => o.number # e.number
      BY <1>1
    <2>3. PICK b \in 1..Len(to) : from[a].number = to[b].number
      <3>1. Remove(from[a]).number = e.number
        BY <2>1 DEF Remove
      <3>2. ~Written(Remove(from[a]), from, to, base, Len(from), Len(to))
        BY <2>2, <3>1
      <3>. QED  BY <3>2 DEF Written
    <2>4. from[a] = to[b]
      <3>1. Delta(from[a], to[b]).number = e.number
        BY <2>1, <2>3 DEF Delta
      <3>2. ~Written(Delta(from[a], to[b]), from, to, base, Len(from), Len(to))
        BY <2>2, <3>1
      <3>. QED  BY <2>3, <3>2 DEF Written
    <2>. QED  BY <1>3, <2>1, <2>4 DEF Members
  <1>7. ASSUME NEW o \in ops, o.op = "new"
        PROVE  [number |-> o.number, version |-> Apply(o.from, o.to, base)] \in Members(to)
    <2>1. PICK b \in 1..Len(to) : o = New(base, to[b])
      BY <1>1, <1>7 DEF Written, Delta, Remove
    <2>2. o.number = to[b].number /\ Apply(o.from, o.to, base) = to[b].version
      BY <2>1 DEF New, Apply
    <2>3. [number |-> o.number, version |-> Apply(o.from, o.to, base)] = to[b]
      BY <1>4, <2>2
    <2>. QED  BY <1>3, <2>3 DEF Members
  <1>8. ASSUME NEW o \in ops, o.op = "delta", NEW e \in old, e.number = o.number
        PROVE  [number |-> o.number, version |-> Apply(o.from, o.to, e.version)] \in Members(to)
    <2>1. PICK a \in 1..Len(from), b \in 1..Len(to) :
             from[a].number = to[b].number /\ o = Delta(from[a], to[b])
      BY <1>1, <1>8 DEF Written, New, Remove
    <2>2. PICK c \in 1..Len(from) : e = from[c]
      BY <1>3 DEF Members
    <2>3. c = a
      BY <1>5, <1>8, <2>1, <2>2 DEF Delta
    <2>4. o.number = to[b].number /\ Apply(o.from, o.to, e.version) = to[b].version
      BY <2>1, <2>2, <2>3 DEF Delta, Apply
    <2>5. [number |-> o.number, version |-> Apply(o.from, o.to, e.version)] = to[b]
      BY <1>4, <2>4
    <2>. QED  BY <1>3, <2>5 DEF Members
  <1>9. ASSUME NEW b \in 1..Len(to)
        PROVE  to[b] \in kept \cup news \cup changed
    <2>1. CASE \A a \in 1..Len(from) : from[a].number # to[b].number
      <3>. DEFINE o == New(base, to[b])
      <3>1. o \in ops
        BY <1>1, <2>1 DEF Written
      <3>2. /\ o.op = "new" /\ o.number = to[b].number
            /\ Apply(o.from, o.to, base) = to[b].version
        BY DEF New, Apply
      <3>. HIDE DEF o
      <3>3. to[b] = [number |-> o.number, version |-> Apply(o.from, o.to, base)]
        BY <1>4, <3>2
      <3>4. to[b] \in news
        BY <3>1, <3>2, <3>3
      <3>. QED  BY <3>4
    <2>2. ASSUME NEW a \in 1..Len(from), from[a].number = to[b].number
          PROVE  to[b] \in kept \cup changed
      <3>1. from[a] \in old
        BY <1>3 DEF Members
      <3>2. CASE from[a] = to[b]
        <4>1. ASSUME NEW o \in ops
              PROVE  o.number # from[a].number
          <5>1. CASE \E c \in 1..Len(from) : \E d \in 1..Len(to) :
                        /\ from[c].number = to[d].number /\ from[c] # to[d]
                        /\ o = Delta(from[c], to[d])
            <6>1. PICK c \in 1..Len(from), d \in 1..Len(to) :
                     /\ from[c].number = to[d].number /\ from[c] # to[d]
                     /\ o = Delta(from[c], to[d])
              BY <5>1
            <6>2. o.number = from[c].number /\ o.number = to[d].number
              BY <6>1 DEF Delta
            <6>. QED  BY <1>5, <2>2, <3>2, <6>1, <6>2
          <5>2. CASE \E d \in 1..Len(to) :
                        /\ \A c \in 1..Len(from) : from[c].number # to[d].number
                        /\ o = New(base, to[d])
            BY <5>2 DEF New
          <5>3. CASE \E c \in 1..Len(from) :
                        /\ \A d \in 1..Len(to) : from[c].number # to[d].number
                        /\ o = Remove(from[c])
            BY <1>5, <2>2, <5>3 DEF Remove
          <5>. QED  BY <1>1, <5>1, <5>2, <5>3 DEF Written
        <4>2. from[a] \in kept
          BY <3>1, <4>1
        <4>. QED  BY <3>2, <4>2
      <3>3. CASE from[a] # to[b]
        <4>. DEFINE o == Delta(from[a], to[b])
        <4>1. o \in ops
          BY <1>1, <2>2, <3>3 DEF Written
        <4>2. /\ o.op = "delta" /\ o.number = to[b].number /\ o.number = from[a].number
              /\ Apply(o.from, o.to, from[a].version) = to[b].version
          BY <2>2 DEF Delta, Apply
        <4>. HIDE DEF o
        <4>3. to[b] = [number |-> o.number,
                       version |-> Apply(o.from, o.to, from[a].version)]
          BY <1>4, <4>2
        <4>4. to[b] \in changed
          BY <3>1, <4>1, <4>2, <4>3
        <4>. QED  BY <4>4
      <3>. QED  BY <3>2, <3>3
    <2>. QED  BY <2>1, <2>2
  <1>10. kept \cup news \cup changed \subseteq Members(to)
    <2>. HIDE DEF old
    <2>. QED  BY <1>6, <1>7, <1>8
  <1>11. Members(to) \subseteq kept \cup news \cup changed
    <2>. HIDE DEF kept, news, changed
    <2>. QED  BY <1>3, <1>9 DEF Members
  <1>. QED  BY <1>2, <1>10, <1>11 DEF ops

-----------------------------------------------------------------------------
(* What the operators return *)

\* The list of a snapshot: entity numbers that grow, no more than fit.
LEMMA ListType ==
    ASSUME SnapshotsAssumption, NEW c, NEW list \in EntityLists(c)
    PROVE  /\ Len(list) \in 0..MAX_SNAPSHOT_ENTITIES
           /\ DOMAIN list = 1..Len(list)
           /\ \A i \in 1..Len(list) : list[i] \in Entities
           /\ \A i, j \in 1..Len(list) : i < j => list[i] < list[j]
  <1>1. PICK k \in 0..MAX_SNAPSHOT_ENTITIES : list \in [1..k -> Entities \ {c}]
    BY DEF EntityLists
  <1>2. k \in Nat
    BY RingSize
  <1>3. list \in Seq(Entities) /\ Len(list) = k
    BY <1>1, <1>2
  <1>. QED  BY <1>1, <1>2, <1>3 DEF EntityLists

\* The entities a snapshot is built of are sorted by number.
LEMMA BuiltEntitiesType ==
    ASSUME SnapshotsAssumption, TypeOK, NEW c, NEW list \in EntityLists(c)
    PROVE  /\ BuiltEntities(list) \in Seq(EntityState)
           /\ Len(BuiltEntities(list)) = Len(list)
           /\ SortedList(BuiltEntities(list))
  <1>. DEFINE n == Len(list)
              built == BuiltEntities(list)
  <1>1. /\ n \in Nat /\ DOMAIN list = 1..n
        /\ \A i \in 1..n : list[i] \in Entities
        /\ \A i, j \in 1..n : i < j => list[i] < list[j]
    BY ListType, RingSize
  <1>. HIDE DEF n
  <1>2. built = [i \in 1..n |-> [number |-> list[i], version |-> version[list[i]]]]
    BY <1>1 DEF BuiltEntities
  <1>3. \A i \in 1..n : [number |-> list[i], version |-> version[list[i]]] \in EntityState
    BY <1>1 DEF EntityState, Entities, TypeOK, SnapshotsAssumption
  <1>4. built \in Seq(EntityState) /\ Len(built) = n
    BY <1>1, <1>2, <1>3
  <1>5. SortedList(built)
    BY <1>1, <1>2 DEF SortedList
  <1>. QED  BY <1>4, <1>5 DEF n

\* Copying a snapshot's entities into the ring leaves a ring of entities.
LEMMA CopiedType ==
    ASSUME SnapshotsAssumption, TypeOK, NEW c, NEW list \in EntityLists(c)
    PROVE  Copied(list) \in [0..(NumSnapshotEntities - 1) -> EntityState]
  <1>1. \A i \in DOMAIN list : BuiltEntities(list)[i] \in EntityState
    BY ListType, BuiltEntitiesType
  <1>2. \A p : (\E i \in DOMAIN list :
                   p = (nextSnapshotEntities + i - 1) % NumSnapshotEntities) =>
            (CHOOSE i \in DOMAIN list :
                p = (nextSnapshotEntities + i - 1) % NumSnapshotEntities) \in DOMAIN list
    OBVIOUS
  <1>3. \A p \in 0..(NumSnapshotEntities - 1) : snapshotEntities[p] \in EntityState
    BY DEF TypeOK
  <1>. QED  BY <1>1, <1>2, <1>3 DEF Copied

\* What is read of the ring for a frame is a list of its entities.
LEMMA ReadType ==
    ASSUME SnapshotsAssumption, NEW f, f.first \in Nat, f.num \in Nat,
           NEW entities \in [0..(NumSnapshotEntities - 1) -> EntityState]
    PROVE  Read(f, entities) \in Seq(EntityState) /\ Len(Read(f, entities)) = f.num
  <1>1. ASSUME NEW i \in 1..f.num
        PROVE  entities[(f.first + i - 1) % NumSnapshotEntities] \in EntityState
    <2>. DEFINE a == f.first + i - 1
    <2>1. a \in Int
      OBVIOUS
    <2>. HIDE DEF a
    <2>2. a % NumSnapshotEntities \in 0..(NumSnapshotEntities - 1)
      BY <2>1, RingSize, RemainderRange
    <2>3. entities[a % NumSnapshotEntities] \in EntityState
      BY <2>2
    <2>. QED  BY <2>3 DEF a
  <1>. DEFINE r == [i \in 1..f.num |-> entities[(f.first + i - 1) % NumSnapshotEntities]]
  <1>2. r \in Seq(EntityState) /\ Len(r) = f.num
    BY <1>1
  <1>. QED  BY <1>2 DEF Read

\* The fields of a frame.
LEMMA FrameType ==
    ASSUME SnapshotsAssumption, TypeOK, NEW c \in Clients, NEW i \in 0..(PACKET_BACKUP - 1)
    PROVE  /\ frames[c][i] \in Frame
           /\ frames[c][i].first \in Nat /\ frames[c][i].num \in Nat
           /\ frames[c][i].num \in 0..MAX_SNAPSHOT_ENTITIES
           /\ frames[c][i].ps \in 0..MaxTick
  <1>1. frames \in Slots(Frame)
    BY DEF TypeOK
  <1>2. frames[c][i] \in Frame
    BY <1>1 DEF Slots
  <1>. QED  BY <1>2, RingSize DEF Frame

\* A base is the acknowledged message, within the backup, of a client in the
\* world, and its entities are still in the ring once the list is copied.
LEMMA BaseRange ==
    ASSUME SnapshotsAssumption, TypeOK, NEW c \in Clients, NumbersOK(c),
           NEW next \in Nat
    PROVE  /\ Base(c, next) \in Nat
           /\ Base(c, next) # 0 =>
                 /\ Base(c, next) = Out(c) - deltaMessage[c]
                 /\ Base(c, next) > 0 /\ Base(c, next) < PACKET_BACKUP
                 /\ deltaMessage[c] > 0
                 /\ state[c] = "active"
                 /\ frames[c][Slot(deltaMessage[c])].first > next - NumSnapshotEntities
  <1>1. /\ Out(c) \in Nat /\ deltaMessage[c] \in Int /\ deltaMessage[c] < Out(c)
        /\ PACKET_BACKUP \in Nat /\ Margin \in 0..PACKET_BACKUP
        /\ NumSnapshotEntities \in Nat
    <2>1. /\ Out(c) \in Nat /\ deltaMessage[c] \in Int /\ client[c].sequence \in Nat
      BY DEF TypeOK, Out
    <2>. QED  BY <2>1 DEF NumbersOK, SnapshotsAssumption
  <1>2. frames[c][Slot(deltaMessage[c])].first \in Nat
    <2>1. Slot(deltaMessage[c]) \in 0..(PACKET_BACKUP - 1)
      BY <1>1, SlotRange
    <2>. QED  BY <2>1, FrameType
  <1>. QED  BY <1>1, <1>2 DEF Base

-----------------------------------------------------------------------------
(* What the channel does *)

\* A message leaves at once, or is sent in fragments, or waits.
Leaves(c, body) ==
    /\ ~Busy(c)
    /\ message'[c] = [number |-> Out(c), body |-> body]
    /\ Out(c)' = Out(c) + 1
    /\ sending'[c] = <<>> /\ queue'[c] = <<>>

IsCut(c, body) ==
    /\ ~Busy(c)
    /\ message'[c] = message[c]
    /\ Out(c)' = Out(c)
    /\ sending'[c] = <<body>> /\ queue'[c] = <<>>

Waits(c, body) ==
    /\ Busy(c)
    /\ message'[c] = message[c]
    /\ Out(c)' = Out(c)
    /\ sending'[c] = sending[c] /\ queue'[c] = Append(queue[c], body)

\* A waiting one gets on.
FragmentsLeft(c) ==
    /\ sending[c] # <<>>
    /\ message'[c] = [number |-> Out(c), body |-> sending[c][1]]
    /\ Out(c)' = Out(c) + 1
    /\ sending'[c] = <<>> /\ queue'[c] = queue[c]

HeadLeaves(c) ==
    /\ sending[c] = <<>> /\ queue[c] # <<>>
    /\ message'[c] = [number |-> Out(c), body |-> Head(queue[c])]
    /\ Out(c)' = Out(c) + 1
    /\ sending'[c] = <<>> /\ queue'[c] = Tail(queue[c])

HeadIsCut(c) ==
    /\ sending[c] = <<>> /\ queue[c] # <<>>
    /\ message'[c] = message[c]
    /\ Out(c)' = Out(c)
    /\ sending'[c] = <<Head(queue[c])>> /\ queue'[c] = Tail(queue[c])

ChannelSame(c) ==
    /\ message'[c] = message[c]
    /\ Out(c)' = Out(c)
    /\ sending'[c] = sending[c] /\ queue'[c] = queue[c]

\* What waits for a client that is dropped is freed.
QueueFreed(c) ==
    /\ message'[c] = message[c]
    /\ Out(c)' = Out(c)
    /\ sending'[c] = sending[c] /\ queue'[c] = <<>>

ChannelType ==
    /\ message \in [Clients -> [number : Nat, body : Body]]
    /\ outgoingSequence \in [Clients -> Nat \ {0}]
    /\ sending \in [Clients -> Seq(Body)]
    /\ \A c \in Clients : Len(sending[c]) <= 1
    /\ queue \in [Clients -> Seq(Body)]

\* A message handed to the channel leaves, is cut into fragments or waits in
\* the queue; nobody else's channel is touched.
LEMMA SendCases ==
    ASSUME ChannelType, NEW c \in Clients, NEW body \in Body,
           SV_SendMessageToClient(c, body)
    PROVE  /\ ChannelType'
           /\ Leaves(c, body) \/ IsCut(c, body) \/ Waits(c, body)
           /\ \A d \in Clients \ {c} : ChannelSame(d)
  <1>1. CASE /\ ~Busy(c) /\ UNCHANGED <<sending, queue>>
             /\ message' = [message EXCEPT ![c] = [number |-> Out(c), body |-> body]]
             /\ outgoingSequence' = [outgoingSequence EXCEPT ![c] = @ + 1]
    <2>1. ChannelType'
      <3>1. Out(c) \in Nat /\ [number |-> Out(c), body |-> body] \in [number : Nat, body : Body]
        BY DEF ChannelType, Out
      <3>. QED  BY <1>1, <3>1 DEF ChannelType
    <2>2. Leaves(c, body)
      BY <1>1 DEF ChannelType, Leaves, Busy, Out
    <2>3. \A d \in Clients \ {c} : ChannelSame(d)
      BY <1>1 DEF ChannelType, ChannelSame, Out
    <2>. QED  BY <2>1, <2>2, <2>3
  <1>2. CASE /\ ~Busy(c) /\ UNCHANGED <<message, outgoingSequence, queue>>
             /\ sending' = [sending EXCEPT ![c] = <<body>>]
    <2>1. ChannelType'
      <3>1. <<body>> \in Seq(Body) /\ Len(<<body>>) = 1
        OBVIOUS
      <3>. QED  BY <1>2, <3>1 DEF ChannelType
    <2>2. IsCut(c, body)
      BY <1>2 DEF ChannelType, IsCut, Busy, Out
    <2>3. \A d \in Clients \ {c} : ChannelSame(d)
      BY <1>2 DEF ChannelType, ChannelSame, Out
    <2>. QED  BY <2>1, <2>2, <2>3
  <1>3. CASE /\ Busy(c) /\ UNCHANGED <<message, outgoingSequence, sending>>
             /\ queue' = [queue EXCEPT ![c] = Append(@, body)]
    <2>1. ChannelType'
      <3>1. Append(queue[c], body) \in Seq(Body)
        BY DEF ChannelType
      <3>. QED  BY <1>3, <3>1 DEF ChannelType
    <2>2. Waits(c, body)
      BY <1>3 DEF ChannelType, Waits, Out
    <2>3. \A d \in Clients \ {c} : ChannelSame(d)
      BY <1>3 DEF ChannelType, ChannelSame, Out
    <2>. QED  BY <2>1, <2>2, <2>3
  <1>4. \/ /\ ~Busy(c) /\ UNCHANGED <<sending, queue>>
           /\ message' = [message EXCEPT ![c] = [number |-> Out(c), body |-> body]]
           /\ outgoingSequence' = [outgoingSequence EXCEPT ![c] = @ + 1]
        \/ /\ ~Busy(c) /\ UNCHANGED <<message, outgoingSequence, queue>>
           /\ sending' = [sending EXCEPT ![c] = <<body>>]
        \/ /\ Busy(c) /\ UNCHANGED <<message, outgoingSequence, sending>>
           /\ queue' = [queue EXCEPT ![c] = Append(@, body)]
    BY DEF SV_SendMessageToClient, Netchan_Transmit, Out
  <1>. QED  BY <1>1, <1>2, <1>3, <1>4, Zenon

\* SV_Netchan_TransmitNextFragment sends what is left of a message, or the
\* first queued one.
LEMMA FragmentCases ==
    ASSUME ChannelType, NEW c \in Clients, SV_Netchan_TransmitNextFragment(c)
    PROVE  /\ ChannelType'
           /\ FragmentsLeft(c) \/ HeadLeaves(c) \/ HeadIsCut(c)
           /\ \A d \in Clients \ {c} : ChannelSame(d)
  <1>1. CASE /\ sending[c] # <<>>
             /\ message' = [message EXCEPT ![c] =
                              [number |-> outgoingSequence[c], body |-> sending[c][1]]]
             /\ outgoingSequence' = [outgoingSequence EXCEPT ![c] = @ + 1]
             /\ sending' = [sending EXCEPT ![c] = <<>>]
             /\ UNCHANGED queue
    <2>1. ChannelType'
      <3>1. sending[c][1] \in Body
        BY <1>1 DEF ChannelType
      <3>2. [number |-> outgoingSequence[c], body |-> sending[c][1]]
               \in [number : Nat, body : Body]
        BY <3>1 DEF ChannelType
      <3>3. <<>> \in Seq(Body) /\ Len(<<>>) = 0
        OBVIOUS
      <3>. QED  BY <1>1, <3>2, <3>3 DEF ChannelType
    <2>2. FragmentsLeft(c)
      BY <1>1 DEF ChannelType, FragmentsLeft, Out
    <2>3. \A d \in Clients \ {c} : ChannelSame(d)
      BY <1>1 DEF ChannelType, ChannelSame, Out
    <2>. QED  BY <2>1, <2>2, <2>3
  <1>2. CASE /\ sending[c] = <<>> /\ queue[c] # <<>>
             /\ Netchan_Transmit(c, Head(queue[c]))
             /\ queue' = [queue EXCEPT ![c] = Tail(@)]
    <2>1. Head(queue[c]) \in Body /\ Tail(queue[c]) \in Seq(Body)
      BY <1>2 DEF ChannelType
    <2>2. CASE /\ message' = [message EXCEPT ![c] =
                                [number |-> outgoingSequence[c], body |-> Head(queue[c])]]
               /\ outgoingSequence' = [outgoingSequence EXCEPT ![c] = @ + 1]
               /\ UNCHANGED sending
      <3>1. ChannelType'
        <4>1. [number |-> outgoingSequence[c], body |-> Head(queue[c])]
                 \in [number : Nat, body : Body]
          BY <2>1 DEF ChannelType
        <4>. QED  BY <1>2, <2>1, <2>2, <4>1 DEF ChannelType
      <3>2. HeadLeaves(c)
        BY <1>2, <2>2 DEF ChannelType, HeadLeaves, Out
      <3>3. \A d \in Clients \ {c} : ChannelSame(d)
        BY <1>2, <2>2 DEF ChannelType, ChannelSame, Out
      <3>. QED  BY <3>1, <3>2, <3>3
    <2>3. CASE /\ sending' = [sending EXCEPT ![c] = <<Head(queue[c])>>]
               /\ UNCHANGED <<message, outgoingSequence>>
      <3>1. ChannelType'
        <4>1. <<Head(queue[c])>> \in Seq(Body) /\ Len(<<Head(queue[c])>>) = 1
          BY <2>1
        <4>. QED  BY <1>2, <2>1, <2>3, <4>1 DEF ChannelType
      <3>2. HeadIsCut(c)
        BY <1>2, <2>3 DEF ChannelType, HeadIsCut, Out
      <3>3. \A d \in Clients \ {c} : ChannelSame(d)
        BY <1>2, <2>3 DEF ChannelType, ChannelSame, Out
      <3>. QED  BY <3>1, <3>2, <3>3
    <2>. QED  BY <1>2, <2>2, <2>3 DEF Netchan_Transmit
  <1>. QED  BY <1>1, <1>2 DEF SV_Netchan_TransmitNextFragment

-----------------------------------------------------------------------------
(* The order of messages *)

\* A message that is neither gamestate nor snapshot may come before and after
\* anything.
LEMMA NothingFollows ==
    ASSUME NEW body, body.kind \notin {"gamestate", "snapshot"}
    PROVE  /\ Known(body) /\ Fresh(body)
           /\ \A x : Follows(x, body) /\ Follows(body, x)
  BY DEF Known, Fresh, Follows

\* What may be sent after all there is.
Accepts(loaded, flight, cut, waiting, body) ==
    /\ Known(body)
    /\ Follows(loaded, body) /\ Follows(flight, body)
    /\ \A i \in DOMAIN cut : Follows(cut[i], body)
    /\ \A i \in DOMAIN waiting : Follows(waiting[i], body)

\* What is made now may be sent.
LEMMA FreshAccepted ==
    ASSUME NEW loaded, NEW flight, NEW cut, NEW waiting,
           InOrder(loaded, flight, cut, waiting), NEW body, Known(body), Fresh(body)
    PROVE  Accepts(loaded, flight, cut, waiting, body)
  <1>1. ASSUME NEW x, Known(x)
        PROVE  Follows(x, body)
    <2>1. SUFFICES ASSUME x.kind = "gamestate", body.kind = "snapshot",
                          x.level = body.level
                   PROVE  x.baseline = body.baseline
      BY DEF Follows
    <2>2. body.level = level /\ body.baseline = baseline
      BY <2>1 DEF Known, Fresh
    <2>. QED  BY <1>1, <2>1, <2>2 DEF Known
  <1>. QED  BY <1>1 DEF Accepts, InOrder

\* A message that leaves is alone on its way.
LEMMA OrderLeaves ==
    ASSUME NEW loaded, NEW flight, NEW cut, NEW waiting,
           InOrder(loaded, flight, cut, waiting), NEW body,
           Accepts(loaded, flight, cut, waiting, body)
    PROVE  InOrder(loaded, body, <<>>, <<>>)
  BY DEF InOrder, Accepts

\* A message that is cut comes after the one in flight.
LEMMA OrderCut ==
    ASSUME NEW loaded, NEW flight,
           InOrder(loaded, flight, <<>>, <<>>), NEW body,
           Accepts(loaded, flight, <<>>, <<>>, body)
    PROVE  InOrder(loaded, flight, <<body>>, <<>>)
  BY DEF InOrder, Accepts

\* A message that waits comes after all others.
LEMMA OrderWaits ==
    ASSUME NEW loaded, NEW flight, NEW cut, NEW waiting \in Seq(Body),
           InOrder(loaded, flight, cut, waiting), NEW body \in Body,
           Accepts(loaded, flight, cut, waiting, body)
    PROVE  InOrder(loaded, flight, cut, Append(waiting, body))
  <1>. DEFINE w == Append(waiting, body)
              n == Len(waiting)
  <1>1. /\ n \in Nat /\ DOMAIN waiting = 1..n /\ DOMAIN w = 1..(n + 1)
        /\ \A i \in 1..n : w[i] = waiting[i]
        /\ w[n + 1] = body
    OBVIOUS
  <1>. HIDE DEF w, n
  <1>2. \A i : i \in 1..(n + 1) <=> i \in 1..n \/ i = n + 1
    BY <1>1
  <1>3. ASSUME NEW i \in DOMAIN w
        PROVE  /\ Known(w[i]) /\ Follows(loaded, w[i]) /\ Follows(flight, w[i])
               /\ \A j \in DOMAIN cut : Follows(cut[j], w[i])
    BY <1>1, <1>2 DEF InOrder, Accepts
  <1>4. ASSUME NEW i \in DOMAIN w, NEW j \in DOMAIN w, i < j
        PROVE  Follows(w[i], w[j])
    <2>1. i \in 1..n
      BY <1>1, <1>4
    <2>2. CASE j \in 1..n
      BY <1>1, <1>4, <2>1, <2>2 DEF InOrder
    <2>3. CASE j = n + 1
      BY <1>1, <2>1, <2>3 DEF Accepts
    <2>. QED  BY <1>1, <1>2, <2>2, <2>3
  <1>5. InOrder(loaded, flight, cut, w)
    BY <1>3, <1>4 DEF InOrder
  <1>. QED  BY <1>5 DEF w

\* When the last fragment of a message leaves, the message is in flight.
LEMMA OrderFragmentsLeft ==
    ASSUME NEW loaded, NEW flight, NEW cut, NEW waiting,
           InOrder(loaded, flight, cut, waiting), 1 \in DOMAIN cut
    PROVE  InOrder(loaded, cut[1], <<>>, waiting)
  BY DEF InOrder

\* The head of a queue and what remains, by index.
LEMMA HeadAndTail ==
    ASSUME NEW waiting \in Seq(Body), waiting # <<>>
    PROVE  /\ 1 \in DOMAIN waiting /\ Head(waiting) = waiting[1]
           /\ \A i \in DOMAIN Tail(waiting) :
                 /\ i + 1 \in DOMAIN waiting /\ 1 < i + 1
                 /\ Tail(waiting)[i] = waiting[i + 1]
           /\ \A i, j \in DOMAIN Tail(waiting) : i < j => i + 1 < j + 1
  <1>1. /\ Len(waiting) \in Nat /\ DOMAIN waiting = 1..Len(waiting)
        /\ Len(waiting) # 0
    OBVIOUS
  <1>2. /\ DOMAIN Tail(waiting) = 1..(Len(waiting) - 1)
        /\ \A i \in 1..(Len(waiting) - 1) : Tail(waiting)[i] = waiting[i + 1]
    BY <1>1
  <1>. QED  BY <1>1, <1>2

\* The head of the queue that leaves, or is cut, comes before the rest.
LEMMA OrderHead ==
    ASSUME NEW loaded, NEW flight, NEW waiting \in Seq(Body), waiting # <<>>,
           InOrder(loaded, flight, <<>>, waiting)
    PROVE  /\ InOrder(loaded, Head(waiting), <<>>, Tail(waiting))
           /\ InOrder(loaded, flight, <<Head(waiting)>>, Tail(waiting))
  <1>. DEFINE h == Head(waiting)
              t == Tail(waiting)
  <1>1. /\ Known(h) /\ Follows(loaded, h) /\ Follows(flight, h)
    BY HeadAndTail DEF InOrder
  <1>2. ASSUME NEW i \in DOMAIN t
        PROVE  /\ Known(t[i]) /\ Follows(loaded, t[i]) /\ Follows(flight, t[i])
               /\ Follows(h, t[i])
    BY HeadAndTail DEF InOrder
  <1>3. ASSUME NEW i \in DOMAIN t, NEW j \in DOMAIN t, i < j
        PROVE  Follows(t[i], t[j])
    BY <1>3, HeadAndTail DEF InOrder
  <1>4. Known(loaded) /\ Known(flight) /\ Follows(loaded, flight)
    BY DEF InOrder
  <1>. HIDE DEF h, t
  <1>5. InOrder(loaded, h, <<>>, t)
    BY <1>1, <1>2, <1>3, <1>4 DEF InOrder
  <1>6. InOrder(loaded, flight, <<h>>, t)
    BY <1>1, <1>2, <1>3, <1>4 DEF InOrder
  <1>. QED  BY <1>5, <1>6 DEF h, t

\* A message that arrives, and one that is lost, leaves the others in order.
LEMMA OrderReceived ==
    ASSUME NEW loaded, NEW flight, NEW cut, NEW waiting,
           InOrder(loaded, flight, cut, waiting)
    PROVE  /\ InOrder(loaded, Nothing, cut, waiting)
           /\ InOrder(flight, Nothing, cut, waiting)
  <1>1. /\ Known(Nothing)
        /\ \A x : Follows(x, Nothing) /\ Follows(Nothing, x)
    BY NothingFollows DEF Nothing
  <1>. QED  BY <1>1 DEF InOrder

-----------------------------------------------------------------------------
(* Frames while the ring fills *)

\* A list is copied into the ring.
RingStep ==
    \E c \in Clients : \E list \in EntityLists(c) :
        /\ snapshotEntities' = Copied(list)
        /\ nextSnapshotEntities' = nextSnapshotEntities + Len(list)

\* A frame that the ring holds until its place in the counter says otherwise
\* does so after the next snapshot of any client: none is overwritten
\* unnoticed.
LEMMA HoldsStays ==
    ASSUME SnapshotsAssumption, TypeOK, UNCHANGED ring \/ RingStep,
           NEW f, f.first \in Nat, f.num \in Nat, NEW to, NEW ps, Holds(f, to, ps)
    PROVE  Holds(f, to, ps)'
  <1>1. CASE UNCHANGED ring
    BY <1>1 DEF Holds, ring, Read
  <1>2. CASE RingStep
    <2>. PICK c \in Clients :
            \E list \in EntityLists(c) :
               /\ snapshotEntities' = Copied(list)
               /\ nextSnapshotEntities' = nextSnapshotEntities + Len(list)
      BY <1>2 DEF RingStep
    <2>1. PICK list \in EntityLists(c) :
             /\ snapshotEntities' = Copied(list)
             /\ nextSnapshotEntities' = nextSnapshotEntities + Len(list)
      OBVIOUS
    <2>2. /\ Len(list) \in Nat /\ DOMAIN list = 1..Len(list)
          /\ nextSnapshotEntities \in Nat /\ NumSnapshotEntities \in Nat
      BY ListType, RingSize DEF TypeOK
    <2>3. /\ f.ps = ps /\ f.num = Len(to) /\ f.first + f.num <= nextSnapshotEntities
          /\ f.first > nextSnapshotEntities - NumSnapshotEntities =>
                Read(f, snapshotEntities) = to
      BY DEF Holds
    <2>4. f.first + f.num <= nextSnapshotEntities'
      BY <2>1, <2>2, <2>3
    <2>5. ASSUME f.first > nextSnapshotEntities' - NumSnapshotEntities
          PROVE  Read(f, snapshotEntities') = to
      <3>1. f.first > nextSnapshotEntities + Len(list) - NumSnapshotEntities
        BY <2>1, <2>2, <2>5
      <3>2. f.first > nextSnapshotEntities - NumSnapshotEntities
        BY <2>2, <3>1
      <3>3. Read(f, Copied(list)) = Read(f, snapshotEntities)
        BY <2>2, <2>3, <3>1, ReadStays
      <3>. QED  BY <2>1, <2>3, <3>2, <3>3
    <2>6. Read(f, snapshotEntities)' = Read(f, snapshotEntities')
      BY DEF Read
    <2>. QED  BY <2>3, <2>4, <2>5, <2>6 DEF Holds
  <1>. QED  BY <1>1, <1>2

\* What the frames of messages that have been sent to c say stays true, and
\* what the frame of the one to come says if none is built.
FramesKept(c) ==
    \A n \in Nat : \A to, ps :
        /\ n < Out(c) \/ (n = Out(c) /\ frames'[c] = frames[c])
        /\ FrameHolds(c, n, to, ps)
        => FrameHolds(c, n, to, ps)'

\* A step that copies at most one list into the ring, and builds at most the
\* frame of the message to come, keeps the frames.
LEMMA FramesKeptStep ==
    ASSUME SnapshotsAssumption, TypeOK, UNCHANGED ring \/ RingStep, NEW c \in Clients,
           InUse(c)' => InUse(c), Out(c)' \in Nat, Out(c)' >= Out(c),
           \/ frames'[c] = frames[c]
           \/ \A i \in 0..(PACKET_BACKUP - 1) :
                 i # Slot(Out(c)) => frames'[c][i] = frames[c][i]
    PROVE  FramesKept(c)
  <1>1. SUFFICES ASSUME NEW n \in Nat, NEW to, NEW ps,
                        n < Out(c) \/ (n = Out(c) /\ frames'[c] = frames[c]),
                        FrameHolds(c, n, to, ps),
                        InUse(c), n > Out(c)' - PACKET_BACKUP
                 PROVE  Holds(frames[c][Slot(n)], to, ps)'
    BY DEF FramesKept, FrameHolds
  <1>2. Out(c) \in Nat /\ PACKET_BACKUP \in Nat \ {0}
    BY RingSize DEF TypeOK, Out
  <1>3. n > Out(c) - PACKET_BACKUP /\ Out(c) < n + PACKET_BACKUP
    BY <1>1, <1>2
  <1>4. Slot(n) \in 0..(PACKET_BACKUP - 1)
    BY <1>2, SlotRange
  <1>5. Holds(frames[c][Slot(n)], to, ps)
    BY <1>1, <1>3 DEF FrameHolds
  <1>6. PICK f : f = frames[c][Slot(n)]
    OBVIOUS
  <1>7. f.first \in Nat /\ f.num \in Nat
    BY <1>4, <1>6, FrameType
  <1>8. Holds(f, to, ps)'
    BY <1>5, <1>6, <1>7, HoldsStays
  <1>9. frames'[c][Slot(n)] = f
    <2>1. CASE frames'[c] = frames[c]
      BY <1>6, <2>1
    <2>2. CASE n < Out(c) /\ frames'[c] # frames[c]
      <3>1. Slot(n) # Slot(Out(c))
        BY <1>2, <1>3, <2>2, SlotsDiffer
      <3>. QED  BY <1>4, <1>6, <2>2, <3>1
    <2>. QED  BY <1>1, <2>1, <2>2
  <1>. QED  BY <1>8, <1>9 DEF Holds, Read

-----------------------------------------------------------------------------
(* A step of the server, for one client *)

\* What the server does within a level leaves alone, for c.
Stays(c) ==
    /\ client'[c] = client[c]
    /\ level' = level /\ baseline' = baseline
    /\ phase' = "running" => phase = "running"
    /\ FramesKept(c)

\* The types of one client's side, taken apart for the provers.
LEMMA ClientType ==
    ASSUME SnapshotsAssumption, TypeOK, NEW c \in Clients
    PROVE  /\ client[c] \in [level : Nat, gamestate : Nat, baseline : Nat,
                             sequence : Nat, snap : Nat,
                             snapshots : [0..(PACKET_BACKUP - 1) -> Snapshot]]
           /\ client[c].level \in Nat /\ client[c].gamestate \in Nat
           /\ client[c].baseline \in Nat /\ client[c].sequence \in Nat
           /\ client[c].snap \in Nat
           /\ client[c].snapshots \in [0..(PACKET_BACKUP - 1) -> Snapshot]
           /\ \A i \in 0..(PACKET_BACKUP - 1) :
                 /\ client[c].snapshots[i] \in Snapshot
                 /\ client[c].snapshots[i].number \in Nat
                 /\ client[c].snapshots[i].to \in Seq(EntityState)
           /\ Out(c) \in Nat \ {0} /\ deltaMessage[c] \in Int
           /\ message[c].number \in Nat /\ message[c].body \in Body
           /\ sending[c] \in Seq(Body) /\ queue[c] \in Seq(Body)
           /\ Len(sending[c]) \in Nat /\ Len(sending[c]) <= 1
           /\ DOMAIN sending[c] = 1..Len(sending[c])
  <1>1. client[c] \in [level : Nat, gamestate : Nat, baseline : Nat,
                       sequence : Nat, snap : Nat,
                       snapshots : [0..(PACKET_BACKUP - 1) -> Snapshot]]
    BY DEF TypeOK
  <1>2. client[c].snapshots \in [0..(PACKET_BACKUP - 1) -> Snapshot]
    BY <1>1
  <1>3. \A i \in 0..(PACKET_BACKUP - 1) :
           /\ client[c].snapshots[i] \in Snapshot
           /\ client[c].snapshots[i].number \in Nat
           /\ client[c].snapshots[i].to \in Seq(EntityState)
    <2>1. \A s \in Snapshot : s.number \in Nat /\ s.to \in Seq(EntityState)
      BY DEF Snapshot
    <2>. QED  BY <1>2, <2>1
  <1>4. Out(c) \in Nat \ {0} /\ deltaMessage[c] \in Int
    BY DEF TypeOK, Out
  <1>5. message[c].number \in Nat /\ message[c].body \in Body
    <2>1. message[c] \in [number : Nat, body : Body]
      BY DEF TypeOK
    <2>. QED  BY <2>1
  <1>6. /\ sending[c] \in Seq(Body) /\ queue[c] \in Seq(Body)
        /\ Len(sending[c]) <= 1
    BY DEF TypeOK
  <1>7. Len(sending[c]) \in Nat /\ DOMAIN sending[c] = 1..Len(sending[c])
    BY <1>6
  <1>8. /\ client[c].level \in Nat /\ client[c].gamestate \in Nat
        /\ client[c].baseline \in Nat /\ client[c].sequence \in Nat
        /\ client[c].snap \in Nat
    BY <1>1
  <1>. QED  BY <1>1, <1>2, <1>3, <1>4, <1>5, <1>6, <1>7, <1>8

\* Message numbers that grow keep the client's numbers below the server's.
LEMMA NumbersStep ==
    ASSUME SnapshotsAssumption, TypeOK, NEW c \in Clients, NumbersOK(c),
           client'[c] = client[c], deltaMessage'[c] <= client[c].sequence,
           Out(c)' \in Nat, Out(c)' >= Out(c),
           \/ message'[c] = message[c]
           \/ /\ message'[c].number \in Nat
              /\ message'[c].number >= Out(c) /\ message'[c].number < Out(c)'
    PROVE  NumbersOK(c)'
  <1>. DEFINE k == client[c]
  <1>1. /\ k.sequence \in Nat /\ Out(c) \in Nat /\ message[c].number \in Nat
    BY ClientType
  <1>2. k.sequence < Out(c)
    BY DEF NumbersOK
  <1>3. k.sequence < Out(c)'
    BY <1>1, <1>2
  <1>4. message'[c].body # Nothing =>
           k.sequence < message'[c].number /\ message'[c].number < Out(c)'
    <2>1. CASE message'[c] = message[c]
      BY <1>1, <2>1 DEF NumbersOK
    <2>2. CASE /\ message'[c].number \in Nat
               /\ message'[c].number >= Out(c) /\ message'[c].number < Out(c)'
      BY <1>1, <1>2, <2>2
    <2>. QED  BY <2>1, <2>2
  <1>. QED  BY <1>3, <1>4 DEF NumbersOK

\* What the client holds stays right while it receives nothing.
LEMMA HeldStep ==
    ASSUME SnapshotsAssumption, TypeOK, NEW c \in Clients, NumbersOK(c), HeldOK(c), Stays(c)
    PROVE  HeldOK(c)'
  <1>1. ASSUME NEW i \in 0..(PACKET_BACKUP - 1), NEW s, s = client[c].snapshots[i]
        PROVE  Keeps(c, s)'
    <2>1. Keeps(c, s)
      BY <1>1 DEF HeldOK
    <2>2. s.number # 0 => s.number \in Nat /\ s.number < Out(c)
      <3>1. s.number \in Nat /\ client[c].sequence \in Nat /\ Out(c) \in Nat
        BY <1>1, ClientType
      <3>. QED  BY <1>1, <3>1 DEF NumbersOK
    <2>3. s.number # 0 /\ client[c].level = level => FrameHolds(c, s.number, s.to, s.psTo)'
      BY <2>1, <2>2 DEF Stays, FramesKept, Keeps
    <2>. QED  BY <2>1, <2>3 DEF Keeps, Stays, Right
  <1>2. client'[c].snapshots = client[c].snapshots
    BY DEF Stays
  <1>. QED  BY <1>1, <1>2 DEF HeldOK

\* What the server may send to c: in order, with a base the client has, and
\* with the frame that was built for it.
Sendable(c, body) ==
    /\ Accepts(Loaded(c), message[c].body, sending[c], queue[c], body)
    /\ body.kind = "snapshot" =>
          /\ Busy(c) => phase # "running"
          /\ ~Busy(c) => BaseOK(c, [number |-> Out(c), body |-> body])
          /\ Fresh(body) =>
                \A n : n = Out(c) => FrameHolds(c, n, body.to, body.ps)'

\* What a step of the server within a level does to the channel to c.
ChannelStep(c) ==
    \/ ChannelSame(c) /\ (sending[c] # <<>> /\ phase' = "running" => frames'[c] = frames[c])
    \/ QueueFreed(c) /\ frames'[c] = frames[c]
    \/ \E body \in Body :
          /\ Sendable(c, body)
          /\ Leaves(c, body) \/ IsCut(c, body)
             \/ (Waits(c, body) /\ (phase = "running" => frames'[c] = frames[c]))
    \/ /\ phase = "running" /\ frames'[c] = frames[c]
       /\ FragmentsLeft(c) \/ HeadLeaves(c) \/ HeadIsCut(c)

\* A step of the channel keeps the gamestates and snapshots on their way in
\* order.
LEMMA OrderStep ==
    ASSUME SnapshotsAssumption, TypeOK, NEW c \in Clients, OrderOK(c), Stays(c),
           ChannelStep(c),
           state'[c] = "active" /\ deltaMessage'[c] > 0 => client[c].level = level
    PROVE  OrderOK(c)'
  <1>. DEFINE loaded == Loaded(c)
              flight == message[c].body
              cut == sending[c]
              waiting == queue[c]
  <1>1. InOrder(loaded, flight, cut, waiting) /\ waiting \in Seq(Body)
    BY ClientType DEF OrderOK
  <1>2. phase = "running" => \A i \in DOMAIN waiting : waiting[i].kind # "snapshot"
    BY DEF OrderOK
  <1>3. ~Busy(c) => cut = <<>> /\ waiting = <<>>
    BY DEF Busy
  <1>4. /\ \E f, s, w : /\ f = message'[c].body /\ s = sending'[c] /\ w = queue'[c]
                        /\ InOrder(loaded, f, s, w)
        /\ phase' = "running" => \A i \in DOMAIN queue'[c] : queue'[c][i].kind # "snapshot"
    <2>0. phase' = "running" => phase = "running"
      BY DEF Stays
    <2>1. CASE ChannelSame(c)
      BY <1>1, <1>2, <2>0, <2>1 DEF ChannelSame
    <2>5. CASE QueueFreed(c)
      <3>1. InOrder(loaded, flight, cut, <<>>)
        BY <1>1 DEF InOrder
      <3>. QED  BY <2>5, <3>1 DEF QueueFreed
    <2>2. ASSUME NEW body \in Body, Sendable(c, body),
                 Leaves(c, body) \/ IsCut(c, body) \/ Waits(c, body)
          PROVE  <1>4!1 /\ <1>4!2
      <3>. DEFINE after == Append(waiting, body)
      <3>1. Accepts(loaded, flight, cut, waiting, body)
        BY <2>2 DEF Sendable
      <3>. HIDE DEF loaded, flight, cut
      <3>2. CASE Leaves(c, body)
        <4>1. InOrder(loaded, body, <<>>, <<>>)
          BY <1>1, <3>1, OrderLeaves
        <4>. QED  BY <3>2, <4>1 DEF Leaves
      <3>3. CASE IsCut(c, body)
        <4>1. cut = <<>> /\ waiting = <<>>
          BY <1>3, <3>3 DEF IsCut
        <4>2. InOrder(loaded, flight, <<body>>, <<>>)
          BY <1>1, <3>1, <4>1, OrderCut
        <4>. QED  BY <3>3, <4>2 DEF IsCut, flight
      <3>4. CASE Waits(c, body)
        <4>1. InOrder(loaded, flight, cut, after)
          BY <1>1, <3>1, OrderWaits
        <4>2. phase = "running" => body.kind # "snapshot"
          BY <2>2, <3>4 DEF Sendable, Waits
        <4>3. phase = "running" => \A i \in DOMAIN after : after[i].kind # "snapshot"
          <5>1. \A i \in DOMAIN after : (i \in DOMAIN waiting /\ after[i] = waiting[i])
                                        \/ after[i] = body
            BY <1>1
          <5>. QED  BY <1>2, <4>2, <5>1
        <4>. QED  BY <2>0, <3>4, <4>1, <4>3 DEF Waits, flight, cut
      <3>. QED  BY <2>2, <3>2, <3>3, <3>4
    <2>3. CASE FragmentsLeft(c)
      <3>1. 1 \in DOMAIN cut
        BY <2>3, ClientType DEF FragmentsLeft
      <3>2. InOrder(loaded, cut[1], <<>>, waiting)
        BY <1>1, <3>1, OrderFragmentsLeft
      <3>. QED  BY <1>2, <2>0, <2>3, <3>2 DEF FragmentsLeft
    <2>4. CASE HeadLeaves(c) \/ HeadIsCut(c)
      <3>1. cut = <<>> /\ waiting # <<>>
        BY <2>4 DEF HeadLeaves, HeadIsCut
      <3>2. /\ InOrder(loaded, Head(waiting), <<>>, Tail(waiting))
            /\ InOrder(loaded, flight, <<Head(waiting)>>, Tail(waiting))
        BY <1>1, <3>1, OrderHead
      <3>3. phase = "running" =>
               \A i \in DOMAIN Tail(waiting) : Tail(waiting)[i].kind # "snapshot"
        BY <1>1, <1>2, <3>1, HeadAndTail
      <3>4. CASE HeadLeaves(c)
        <4>1. /\ message'[c].body = Head(waiting)
              /\ sending'[c] = <<>> /\ queue'[c] = Tail(waiting)
          BY <3>4 DEF HeadLeaves
        <4>. HIDE DEF loaded, waiting
        <4>. QED  BY <2>0, <3>2, <3>3, <4>1
      <3>5. CASE HeadIsCut(c)
        BY <2>0, <3>2, <3>3, <3>5 DEF HeadIsCut
      <3>. QED  BY <2>4, <3>4, <3>5
    <2>. QED  BY <2>1, <2>2, <2>3, <2>4, <2>5 DEF ChannelStep
  <1>5. Loaded(c)' = loaded
    BY DEF Stays, Loaded
  <1>6. \A x, f, s, w : InOrder(x, f, s, w) => InOrder(x, f, s, w)'
    BY DEF InOrder, Known, Follows, Fresh, Stays
  <1>7. client'[c].level = client[c].level /\ level' = level
    BY DEF Stays
  <1>. QED  BY <1>4, <1>5, <1>6, <1>7 DEF OrderOK

\* A step of the channel leaves each snapshot on its way with a base that its
\* client has, unless a gamestate sent again made the client forget it.
LEMMA BasesStep ==
    ASSUME SnapshotsAssumption, TypeOK, NEW c \in Clients, OrderOK(c), BasesOK(c), Stays(c),
           ChannelStep(c)
    PROVE  BasesOK(c)'
  <1>1. SUFFICES ASSUME NEW m, m \in Coming(c)'
                 PROVE  BaseOK(c, m)
    BY DEF BasesOK, BaseOK, Stays, Right
  <1>2. \/ m = message'[c]
        \/ \E i \in DOMAIN sending'[c] : m = [number |-> Out(c)', body |-> sending'[c][i]]
    BY <1>1 DEF Coming, Out
  <1>3. m.body.kind = "snapshot"
    BY <1>1 DEF Coming
  <1>4. m = message[c] => BaseOK(c, m)
    BY <1>3 DEF Coming, BasesOK
  <1>5. \A i \in DOMAIN sending[c] :
           m = [number |-> Out(c), body |-> sending[c][i]] => BaseOK(c, m)
    BY <1>3 DEF Coming, BasesOK
  <1>6. CASE ChannelSame(c) \/ QueueFreed(c)
    BY <1>2, <1>4, <1>5, <1>6 DEF ChannelSame, QueueFreed
  <1>7. ASSUME NEW body \in Body, Sendable(c, body),
               Leaves(c, body) \/ IsCut(c, body) \/ Waits(c, body)
        PROVE  BaseOK(c, m)
    <2>1. CASE Waits(c, body)
      BY <1>2, <1>4, <1>5, <2>1 DEF Waits
    <2>2. CASE Leaves(c, body) \/ IsCut(c, body)
      <3>1. ~Busy(c) /\ (m = message[c] \/ m = [number |-> Out(c), body |-> body])
        BY <1>2, <2>2 DEF Leaves, IsCut
      <3>. QED  BY <1>3, <1>4, <1>7, <3>1 DEF Sendable
    <2>. QED  BY <1>7, <2>1, <2>2
  <1>8. CASE FragmentsLeft(c)
    <2>1. 1 \in DOMAIN sending[c]
      BY <1>8, ClientType DEF FragmentsLeft
    <2>2. m = [number |-> Out(c), body |-> sending[c][1]]
      BY <1>2, <1>8 DEF FragmentsLeft
    <2>. QED  BY <1>5, <2>1, <2>2
  <1>9. CASE phase = "running" /\ (HeadLeaves(c) \/ HeadIsCut(c))
    <2>1. Head(queue[c]).kind # "snapshot"
      <3>1. queue[c] \in Seq(Body) /\ queue[c] # <<>>
        BY <1>9, ClientType DEF HeadLeaves, HeadIsCut
      <3>2. 1 \in DOMAIN queue[c] /\ Head(queue[c]) = queue[c][1]
        BY <3>1, HeadAndTail
      <3>. QED  BY <1>9, <3>2 DEF OrderOK
    <2>2. m = message[c] \/ m.body = Head(queue[c])
      BY <1>2, <1>9 DEF HeadLeaves, HeadIsCut
    <2>. QED  BY <1>3, <1>4, <2>1, <2>2
  <1>. QED  BY <1>6, <1>7, <1>8, <1>9 DEF ChannelStep

\* A step of the channel keeps each frame of the server the one the message of
\* its number carries.
LEMMA FramesStep ==
    ASSUME SnapshotsAssumption, TypeOK, NEW c \in Clients, NumbersOK(c), OrderOK(c),
           FramesOK(c), Stays(c), ChannelStep(c)
    PROVE  FramesOK(c)'
  <1>1. /\ Out(c) \in Nat /\ message[c].number \in Nat
        /\ \A x : Fresh(x)' <=> Fresh(x)
    BY ClientType DEF Fresh, Stays
  <1>2. ASSUME NEW n \in Nat, NEW body, body.kind = "snapshot", Fresh(body),
               n < Out(c) \/ (n = Out(c) /\ frames'[c] = frames[c]),
               FrameHolds(c, n, body.to, body.ps)
        PROVE  FrameHolds(c, n, body.to, body.ps)'
    BY <1>2 DEF Stays, FramesKept
  <1>3. ASSUME message'[c] = message[c],
               NEW n, NEW body, n = message[c].number, body = message[c].body,
               body.kind = "snapshot", Fresh(body)
        PROVE  FrameHolds(c, n, body.to, body.ps)'
    <2>1. body # Nothing
      BY <1>3 DEF Nothing
    <2>2. n \in Nat /\ n < Out(c)
      BY <1>1, <1>3, <2>1 DEF NumbersOK
    <2>. QED  BY <1>2, <1>3, <2>2 DEF FramesOK
  <1>4. ASSUME phase = "running", frames'[c] = frames[c], NEW i \in DOMAIN sending[c],
               NEW n, NEW body, n = Out(c), body = sending[c][i],
               body.kind = "snapshot", Fresh(body)
        PROVE  FrameHolds(c, n, body.to, body.ps)'
    BY <1>1, <1>2, <1>4 DEF FramesOK
  <1>5. ASSUME NEW n, NEW body, n = message'[c].number, body = message'[c].body,
               body.kind = "snapshot", Fresh(body)
        PROVE  FrameHolds(c, n, body.to, body.ps)'
    <2>1. CASE message'[c] = message[c]
      BY <1>3, <1>5, <2>1
    <2>2. CASE \E b \in Body : Sendable(c, b) /\ Leaves(c, b)
      BY <1>5, <2>2 DEF Sendable, Leaves
    <2>3. CASE phase = "running" /\ frames'[c] = frames[c] /\ FragmentsLeft(c)
      <3>1. 1 \in DOMAIN sending[c]
        BY <2>3, ClientType DEF FragmentsLeft
      <3>2. n = Out(c) /\ body = sending[c][1]
        BY <1>5, <2>3 DEF FragmentsLeft
      <3>. QED  BY <1>4, <1>5, <2>3, <3>1, <3>2
    <2>4. CASE phase = "running" /\ HeadLeaves(c)
      <3>1. body = queue[c][1] /\ 1 \in DOMAIN queue[c]
        BY <1>5, <2>4, ClientType, HeadAndTail DEF HeadLeaves
      <3>. QED  BY <1>5, <2>4, <3>1 DEF OrderOK
    <2>. QED  BY <2>1, <2>2, <2>3, <2>4
              DEF ChannelStep, ChannelSame, QueueFreed, Leaves, IsCut, Waits, HeadIsCut
  <1>6. ASSUME phase' = "running", NEW i \in DOMAIN sending'[c],
               NEW n, NEW body, n = Out(c)', body = sending'[c][i],
               body.kind = "snapshot", Fresh(body)
        PROVE  FrameHolds(c, n, body.to, body.ps)'
    <2>0. phase = "running"
      BY <1>6 DEF Stays
    <2>1. CASE /\ Out(c)' = Out(c) /\ sending'[c] = sending[c]
               /\ sending[c] # <<>> => frames'[c] = frames[c]
      <3>1. sending[c] # <<>> /\ i \in DOMAIN sending[c]
        BY <1>6, <2>1, ClientType
      <3>2. frames'[c] = frames[c] /\ n = Out(c) /\ body = sending[c][i]
        BY <1>6, <2>1, <3>1
      <3>. QED  BY <1>4, <1>6, <2>0, <3>1, <3>2
    <2>2. CASE \E b \in Body : Sendable(c, b) /\ IsCut(c, b)
      <3>1. PICK b \in Body : Sendable(c, b) /\ IsCut(c, b)
        BY <2>2
      <3>2. n = Out(c) /\ body = b
        BY <1>6, <3>1 DEF IsCut
      <3>. QED  BY <1>6, <3>1, <3>2 DEF Sendable
    <2>3. CASE sending'[c] = <<>>
      BY <1>6, <2>3
    <2>4. CASE HeadIsCut(c)
      <3>1. body = queue[c][1] /\ 1 \in DOMAIN queue[c]
        BY <1>6, <2>4, ClientType, HeadAndTail DEF HeadIsCut
      <3>. QED  BY <1>6, <2>0, <3>1 DEF OrderOK
    <2>. QED  BY <1>6, <2>0, <2>1, <2>2, <2>3, <2>4
              DEF ChannelStep, ChannelSame, QueueFreed, Leaves, Waits, FragmentsLeft,
                  HeadLeaves
  <1>. QED  BY <1>1, <1>5, <1>6 DEF FramesOK

\* The acknowledged message stays one the client still has, or one too old to
\* be a base.
LEMMA AcknowledgedStep ==
    ASSUME SnapshotsAssumption, TypeOK, NEW c \in Clients, AcknowledgedOK(c),
           client'[c] = client[c], Out(c)' \in Nat, Out(c)' >= Out(c),
           \/ state'[c] # "active"
           \/ state[c] = "active" /\ deltaMessage'[c] = deltaMessage[c]
           \/ deltaMessage'[c] = -1
           \/ client[c].snapshots[Slot(deltaMessage'[c])].number = deltaMessage'[c]
    PROVE  AcknowledgedOK(c)'
  <1>1. Out(c) \in Nat /\ PACKET_BACKUP \in Nat /\ deltaMessage[c] \in Int
    BY ClientType, RingSize
  <1>2. PICK d : d = deltaMessage'[c]
    OBVIOUS
  <1>3. Slot(deltaMessage[c])' = Slot(d)
    BY <1>2 DEF Slot
  <1>4. CASE state[c] = "active" /\ deltaMessage[c] = d
    <2>1. d <= Out(c) - PACKET_BACKUP => d <= Out(c)' - PACKET_BACKUP
      BY <1>1, <1>4
    <2>. QED  BY <1>2, <1>3, <1>4, <2>1 DEF AcknowledgedOK
  <1>5. CASE d = -1
    BY <1>2, <1>5 DEF AcknowledgedOK
  <1>6. CASE client[c].snapshots[Slot(d)].number = d
    BY <1>2, <1>3, <1>6 DEF AcknowledgedOK
  <1>7. CASE state'[c] # "active"
    BY <1>7 DEF AcknowledgedOK
  <1>. QED  BY <1>2, <1>4, <1>5, <1>6, <1>7

\* A step of the channel never lowers the next number, and a new message in
\* flight has one that was not used.
LEMMA ChannelNumbers ==
    ASSUME SnapshotsAssumption, TypeOK, NEW c \in Clients, ChannelStep(c)
    PROVE  /\ Out(c)' \in Nat /\ Out(c)' >= Out(c)
           /\ \/ message'[c] = message[c]
              \/ /\ message'[c].number \in Nat
                 /\ message'[c].number >= Out(c) /\ message'[c].number < Out(c)'
  <1>1. Out(c) \in Nat
    BY ClientType
  <1>2. CASE message'[c] = message[c] /\ Out(c)' = Out(c)
    BY <1>1, <1>2
  <1>3. CASE message'[c].number = Out(c) /\ Out(c)' = Out(c) + 1
    BY <1>1, <1>3
  <1>4. \/ message'[c] = message[c] /\ Out(c)' = Out(c)
        \/ message'[c].number = Out(c) /\ Out(c)' = Out(c) + 1
    <2>1. ASSUME NEW body, Leaves(c, body) \/ IsCut(c, body) \/ Waits(c, body)
          PROVE  <1>4
      BY <2>1 DEF Leaves, IsCut, Waits
    <2>2. ChannelSame(c) \/ QueueFreed(c) => <1>4
      BY DEF ChannelSame, QueueFreed
    <2>3. FragmentsLeft(c) => <1>4
      BY DEF FragmentsLeft
    <2>4. HeadLeaves(c) \/ HeadIsCut(c) => <1>4
      BY DEF HeadLeaves, HeadIsCut
    <2>. QED  BY <2>1, <2>2, <2>3, <2>4 DEF ChannelStep
  <1>. QED  BY <1>2, <1>3, <1>4

\* What the server does for one client within a level keeps the client's part
\* of the invariant, and so does what it does for another.
LEMMA ClientStep ==
    ASSUME SnapshotsAssumption, TypeOK, NEW c \in Clients, ClientOK(c), Stays(c),
           ChannelStep(c),
           state'[c] = "active" /\ deltaMessage'[c] > 0 => client[c].level = level,
           deltaMessage'[c] <= client[c].sequence,
           \/ state'[c] # "active"
           \/ state[c] = "active" /\ deltaMessage'[c] = deltaMessage[c]
           \/ deltaMessage'[c] = -1
           \/ client[c].snapshots[Slot(deltaMessage'[c])].number = deltaMessage'[c]
    PROVE  ClientOK(c)'
  <1>1. /\ NumbersOK(c) /\ OrderOK(c) /\ HeldOK(c) /\ FramesOK(c)
        /\ AcknowledgedOK(c) /\ BasesOK(c)
    BY DEF ClientOK
  <1>2. client'[c] = client[c]
    BY DEF Stays
  <1>3. NumbersOK(c)'
    BY <1>1, <1>2, ChannelNumbers, NumbersStep
  <1>4. OrderOK(c)'
    BY <1>1, OrderStep
  <1>5. HeldOK(c)'
    BY <1>1, HeldStep
  <1>6. FramesOK(c)'
    BY <1>1, FramesStep
  <1>7. AcknowledgedOK(c)'
    BY <1>1, <1>2, ChannelNumbers, AcknowledgedStep
  <1>8. BasesOK(c)'
    BY <1>1, BasesStep
  <1>. QED  BY <1>3, <1>4, <1>5, <1>6, <1>7, <1>8 DEF ClientOK

\* A client that nothing happens to.
LEMMA OtherClient ==
    ASSUME SnapshotsAssumption, TypeOK, NEW c \in Clients, ClientOK(c),
           UNCHANGED <<level, baseline>>, phase' = "running" => phase = "running",
           UNCHANGED ring \/ RingStep,
           client'[c] = client[c], frames'[c] = frames[c], ChannelSame(c),
           state'[c] = state[c], deltaMessage'[c] = deltaMessage[c]
    PROVE  ClientOK(c)'
  <1>1. Out(c) \in Nat /\ Out(c)' = Out(c)
    BY ClientType DEF ChannelSame
  <1>5. InUse(c)' => InUse(c)
    BY DEF InUse
  <1>2. FramesKept(c)
    BY <1>1, <1>5, FramesKeptStep
  <1>3. Stays(c)
    BY <1>2 DEF Stays
  <1>4. ChannelStep(c)
    BY DEF ChannelStep
  <1>6. /\ state'[c] = "active" /\ deltaMessage'[c] > 0 => client[c].level = level
        /\ deltaMessage'[c] <= client[c].sequence
    BY DEF ClientOK, OrderOK, NumbersOK
  <1>7. state'[c] # "active" \/ (state[c] = "active" /\ deltaMessage'[c] = deltaMessage[c])
    OBVIOUS
  <1>. QED  BY <1>3, <1>4, <1>6, <1>7, ClientStep

-----------------------------------------------------------------------------
(* A snapshot is built and sent *)

\* The snapshot SV_SendClientSnapshot sends if it does not overflow.
SnapshotOf(c, list) ==
    LET built == BuiltFrame(c, list)
        entities == Copied(list)
        delta == Base(c, nextSnapshotEntities + Len(list))
        old == frames[c][Slot(Out(c) - delta)]
    IN  SnapshotMessage(delta,
            IF delta = 0 THEN <<>> ELSE Read(old, entities),
            Read(built, entities),
            IF delta = 0 THEN 0 ELSE old.ps,
            built.ps)

\* The frame built for a snapshot of a client that was not dropped holds it,
\* and lists its entities in order.
LEMMA BuiltInUse ==
    ASSUME SnapshotsAssumption, TypeOK, NEW c \in Clients, state[c] # "zombie",
           NEW list \in EntityLists(c)
    PROVE  LET f == BuiltFrame(c, list)
           IN  /\ f \in Frame
               /\ f.first = nextSnapshotEntities /\ f.num = Len(list)
               /\ f.ps \in 0..MaxTick
               /\ Read(f, Copied(list)) \in Seq(EntityState)
               /\ Len(Read(f, Copied(list))) = Len(list)
               /\ SortedList(Read(f, Copied(list)))
  <1>. DEFINE f == BuiltFrame(c, list)
  <1>1. f = [first |-> nextSnapshotEntities, num |-> Len(list), ps |-> version[c]]
    BY DEF BuiltFrame
  <1>2. version[c] \in 0..MaxTick
    BY DEF TypeOK, Clients, Entities, SnapshotsAssumption
  <1>3. nextSnapshotEntities \in Nat /\ Len(list) \in 0..MAX_SNAPSHOT_ENTITIES
    BY ListType DEF TypeOK
  <1>4. f \in Frame /\ f.first = nextSnapshotEntities /\ f.num = Len(list)
        /\ f.ps \in 0..MaxTick
    BY <1>1, <1>2, <1>3 DEF Frame
  <1>. HIDE DEF f
  <1>5. Read(f, Copied(list)) = BuiltEntities(list)
    BY <1>3, <1>4, ListType, ReadBuilt
  <1>. QED  BY <1>4, <1>5, BuiltEntitiesType DEF f

\* That of a dropped one lists none.
LEMMA BuiltZombie ==
    ASSUME SnapshotsAssumption, TypeOK, NEW c \in Clients, state[c] = "zombie",
           NEW list
    PROVE  LET f == BuiltFrame(c, list)
           IN  /\ f \in Frame /\ f.ps \in 0..MaxTick
               /\ Read(f, Copied(list)) = <<>>
  <1>. DEFINE old == frames[c][Slot(Out(c))]
              f == BuiltFrame(c, list)
  <1>1. /\ old \in Frame /\ old.first \in Nat /\ old.ps \in 0..MaxTick
        /\ 0 \in 0..MAX_SNAPSHOT_ENTITIES
    <2>1. Slot(Out(c)) \in 0..(PACKET_BACKUP - 1)
      BY ClientType, SlotRange
    <2>. QED  BY <2>1, FrameType, RingSize
  <1>2. f = [old EXCEPT !.num = 0]
    BY DEF BuiltFrame
  <1>. HIDE DEF old, f
  <1>3. f = [first |-> old.first, num |-> 0, ps |-> old.ps]
    BY <1>1, <1>2 DEF Frame
  <1>4. f \in Frame /\ f.ps \in 0..MaxTick /\ f.num = 0
    BY <1>1, <1>3 DEF Frame
  <1>5. Read(f, Copied(list)) = <<>>
    BY <1>4 DEF Read
  <1>. QED  BY <1>4, <1>5 DEF f

\* Whoever it is for, the frame built has its type and lists its entities in
\* order.
LEMMA BuiltRight ==
    ASSUME SnapshotsAssumption, TypeOK, NEW c \in Clients, NEW list \in EntityLists(c)
    PROVE  LET f == BuiltFrame(c, list)
           IN  /\ f \in Frame /\ f.ps \in 0..MaxTick
               /\ Read(f, Copied(list)) \in Seq(EntityState)
               /\ SortedList(Read(f, Copied(list)))
  <1>1. CASE state[c] # "zombie"
    BY <1>1, BuiltInUse
  <1>2. CASE state[c] = "zombie"
    <2>1. <<>> \in Seq(EntityState) /\ SortedList(<<>>)
      BY DEF SortedList
    <2>. QED  BY <1>2, <2>1, BuiltZombie
  <1>. QED  BY <1>1, <1>2

\* What a snapshot is the difference to is what the client keeps of the
\* message it acknowledged.
LEMMA BaseRight ==
    ASSUME SnapshotsAssumption, TypeOK, NEW c \in Clients, ClientOK(c),
           NEW list \in EntityLists(c),
           NEW delta, delta = Base(c, nextSnapshotEntities + Len(list)), delta # 0,
           NEW d, d = Out(c) - delta,
           NEW old, old = frames[c][Slot(d)],
           NEW s, s = client[c].snapshots[Slot(d)]
    PROVE  /\ 0 < d /\ d <= client[c].sequence /\ delta < PACKET_BACKUP
           /\ Read(old, Copied(list)) \in Seq(EntityState)
           /\ old.ps \in 0..MaxTick
           /\ \/ client[c].gamestate > d
              \/ /\ s.number = d /\ Right(s)
                 /\ s.to = Read(old, Copied(list)) /\ s.psTo = old.ps
  <1>. DEFINE next == nextSnapshotEntities + Len(list)
  <1>1. /\ Out(c) \in Nat /\ deltaMessage[c] \in Int /\ PACKET_BACKUP \in Nat
        /\ nextSnapshotEntities \in Nat /\ Len(list) \in Nat /\ next \in Nat
        /\ DOMAIN list = 1..Len(list) /\ NumSnapshotEntities \in Nat
    <2>1. Out(c) \in Nat /\ deltaMessage[c] \in Int
      BY ClientType
    <2>2. DOMAIN list = 1..Len(list) /\ Len(list) \in 0..MAX_SNAPSHOT_ENTITIES
      BY ListType
    <2>3. nextSnapshotEntities \in Nat
      BY DEF TypeOK
    <2>. QED  BY <2>1, <2>2, <2>3, RingSize
  <1>2. /\ delta \in Nat /\ delta = Out(c) - deltaMessage[c] /\ delta > 0
        /\ delta < PACKET_BACKUP /\ deltaMessage[c] > 0 /\ state[c] = "active"
        /\ frames[c][Slot(deltaMessage[c])].first > next - NumSnapshotEntities
    BY <1>1, BaseRange DEF ClientOK
  <1>3. d = deltaMessage[c] /\ d \in Nat /\ d > Out(c) - PACKET_BACKUP
    <2>1. PICK o \in Nat, a \in Int, n \in Nat :
             o = Out(c) /\ a = deltaMessage[c] /\ n = PACKET_BACKUP
      BY <1>1
    <2>2. delta = o - a /\ delta < n /\ a > 0 /\ d = o - delta
      BY <1>2, <2>1
    <2>3. d = a /\ d \in Nat /\ d > o - n
      BY <2>2
    <2>. QED  BY <2>1, <2>3
  <1>4. d <= client[c].sequence
    BY <1>3 DEF ClientOK, NumbersOK
  <1>5. /\ Slot(d) \in 0..(PACKET_BACKUP - 1)
        /\ old.first \in Nat /\ old.num \in Nat /\ old.ps \in 0..MaxTick
    <2>1. d \in Int
      BY <1>3
    <2>2. Slot(d) \in 0..(PACKET_BACKUP - 1)
      BY <2>1, SlotRange
    <2>. QED  BY <2>2, FrameType
  <1>6. Read(old, Copied(list)) \in Seq(EntityState)
    BY <1>5, CopiedType, ReadType
  <1>7. ASSUME ~(client[c].gamestate > d)
        PROVE  /\ s.number = d /\ Right(s)
               /\ s.to = Read(old, Copied(list)) /\ s.psTo = old.ps
    <2>1. s.number = d
      <3>1. ~(d <= Out(c) - PACKET_BACKUP)
        BY <1>1, <1>3
      <3>. QED  BY <1>2, <1>3, <1>7, <3>1 DEF ClientOK, AcknowledgedOK
    <2>2. client[c].level = level
      BY <1>2 DEF ClientOK, OrderOK
    <2>0. InUse(c)
      BY <1>2 DEF InUse
    <2>3. Keeps(c, s)
      BY <1>5 DEF ClientOK, HeldOK
    <2>4. Right(s) /\ FrameHolds(c, d, s.to, s.psTo)
      BY <1>2, <1>3, <2>1, <2>2, <2>3 DEF Keeps
    <2>5. Holds(old, s.to, s.psTo)
      BY <1>3, <2>0, <2>4 DEF FrameHolds
    <2>6. old.first > next - NumSnapshotEntities
      BY <1>2, <1>3
    <2>7. old.first > nextSnapshotEntities - NumSnapshotEntities
      BY <1>1, <1>5, <2>6
    <2>8. Read(old, snapshotEntities) = s.to /\ old.ps = s.psTo
          /\ old.first + old.num <= nextSnapshotEntities
      BY <2>5, <2>7 DEF Holds
    <2>9. Read(old, Copied(list)) = Read(old, snapshotEntities)
      <3>1. old.first > nextSnapshotEntities + Len(list) - NumSnapshotEntities
        BY <1>1, <2>6
      <3>. HIDE DEF next
      <3>. QED  BY <1>1, <1>5, <2>8, <3>1, ReadStays
    <2>. QED  BY <2>1, <2>4, <2>8, <2>9
  <1>. QED  BY <1>2, <1>3, <1>4, <1>5, <1>6, <1>7

\* The snapshot SV_SendClientSnapshot writes is of the frame just built, and
\* its base is one the client holds: the tests of the number's age and of the
\* entity ring in SV_WriteSnapshotToClient are enough.
LEMMA SnapshotRight ==
    ASSUME SnapshotsAssumption, TypeOK, NEW c \in Clients, ClientOK(c),
           NEW list \in EntityLists(c), NEW b, b = SnapshotOf(c, list)
    PROVE  /\ b \in Body
           /\ b.kind = "snapshot" /\ b.level = level /\ b.baseline = baseline
           /\ b.to = Read(BuiltFrame(c, list), Copied(list))
           /\ b.ps = BuiltFrame(c, list).ps
           /\ BaseOK(c, [number |-> Out(c), body |-> b])
  <1>1. PICK delta : delta = Base(c, nextSnapshotEntities + Len(list))
    OBVIOUS
  <1>2. PICK d, old, s : d = Out(c) - delta /\ old = frames[c][Slot(d)]
                         /\ s = client[c].snapshots[Slot(d)]
    OBVIOUS
  <1>3. PICK from, psFrom :
           /\ from = IF delta = 0 THEN <<>> ELSE Read(old, Copied(list))
           /\ psFrom = IF delta = 0 THEN 0 ELSE old.ps
    OBVIOUS
  <1>4. PICK to, ps : to = Read(BuiltFrame(c, list), Copied(list))
                      /\ ps = BuiltFrame(c, list).ps
    OBVIOUS
  <1>6. b = [kind |-> "snapshot", level |-> level, delta |-> delta, from |-> from,
             to |-> to, psFrom |-> psFrom, ps |-> ps, baseline |-> baseline]
    BY <1>1, <1>2, <1>3, <1>4 DEF SnapshotOf, SnapshotMessage
  <1>7. to \in Seq(EntityState) /\ SortedList(to) /\ ps \in 0..MaxTick
    BY <1>4, BuiltRight
  <1>8. delta \in Nat
    <2>1. nextSnapshotEntities + Len(list) \in Nat
      BY ListType DEF TypeOK
    <2>. QED  BY <1>1, <2>1, BaseRange DEF ClientOK
  <1>9. delta # 0 =>
           /\ 0 < d /\ d <= client[c].sequence /\ delta < PACKET_BACKUP
           /\ from \in Seq(EntityState) /\ psFrom \in 0..MaxTick
           /\ \/ client[c].gamestate > d
              \/ s.number = d /\ Right(s) /\ s.to = from /\ s.psTo = psFrom
    BY <1>1, <1>2, <1>3, BaseRight
  <1>10. from \in Seq(EntityState) /\ psFrom \in 0..MaxTick
    <2>1. CASE delta = 0
      BY <1>3, <2>1 DEF SnapshotsAssumption
    <2>2. CASE delta # 0
      BY <1>9, <2>2
    <2>. QED  BY <2>1, <2>2
  <1>11. b \in Body
    <2>1. baseline \in Nat /\ level \in Nat
      BY DEF TypeOK
    <2>. QED  BY <1>6, <1>7, <1>8, <1>10, <2>1 DEF Body
  <1>12. BaseOK(c, [number |-> Out(c), body |-> b])
    BY <1>2, <1>3, <1>6, <1>7, <1>9 DEF BaseOK
  <1>13. /\ b.kind = "snapshot" /\ b.level = level /\ b.baseline = baseline
         /\ b.to = to /\ b.ps = ps
    BY <1>6
  <1>. QED  BY <1>4, <1>11, <1>12, <1>13, Zenon

\* What is sent may be sent.
LEMMA SnapshotSendable ==
    ASSUME SnapshotsAssumption, TypeOK, NEW c \in Clients, ClientOK(c),
           NEW list \in EntityLists(c), NEW body \in {SnapshotOf(c, list), Cleared},
           phase = "running" => ~Busy(c), UNCHANGED state,
           frames'[c][Slot(Out(c))] = BuiltFrame(c, list),
           snapshotEntities' = Copied(list),
           nextSnapshotEntities' = nextSnapshotEntities + Len(list)
    PROVE  body \in Body /\ Sendable(c, body)
  <1>. DEFINE loaded == Loaded(c)
              flight == message[c].body
              cut == sending[c]
              waiting == queue[c]
  <1>1. InOrder(loaded, flight, cut, waiting)
    BY DEF ClientOK, OrderOK
  <1>2. CASE body = Cleared
    <2>1. Accepts(loaded, flight, cut, waiting, body)
      <3>1. Known(body) /\ \A x : Follows(x, body)
        BY <1>2, NothingFollows DEF Cleared
      <3>. QED  BY <3>1 DEF Accepts
    <2>. QED  BY <1>2, <2>1 DEF Sendable, Cleared, Body
  <1>3. CASE body = SnapshotOf(c, list)
    <2>1. /\ body \in Body
          /\ body.kind = "snapshot" /\ body.level = level /\ body.baseline = baseline
          /\ body.to = Read(BuiltFrame(c, list), Copied(list))
          /\ body.ps = BuiltFrame(c, list).ps
          /\ BaseOK(c, [number |-> Out(c), body |-> body])
      BY <1>3, SnapshotRight
    <2>2. Known(body) /\ Fresh(body)
      <3>1. level \in Nat /\ baseline \in 0..MaxTick
        BY DEF TypeOK
      <3>. QED  BY <2>1, <3>1 DEF Known, Fresh
    <2>4. Accepts(loaded, flight, cut, waiting, body)
      <3>. HIDE DEF loaded, flight, cut, waiting
      <3>. QED  BY <1>1, <2>2, FreshAccepted
    <2>5. ASSUME NEW n, n = Out(c)
          PROVE  FrameHolds(c, n, body.to, body.ps)'
      <3>0. SUFFICES ASSUME InUse(c)
                     PROVE  FrameHolds(c, n, body.to, body.ps)'
        BY DEF FrameHolds, InUse
      <3>1. PICK f : f = BuiltFrame(c, list)
        OBVIOUS
      <3>2. /\ f.first = nextSnapshotEntities /\ f.num = Len(list)
            /\ Len(Read(f, Copied(list))) = Len(list)
        BY <3>0, <3>1, BuiltInUse DEF InUse
      <3>3. nextSnapshotEntities \in Nat /\ Len(list) \in Nat
        BY ListType DEF TypeOK
      <3>4. f.first + f.num <= nextSnapshotEntities'
        BY <3>2, <3>3
      <3>5. Holds(f, body.to, body.ps)'
        BY <2>1, <3>1, <3>2, <3>4 DEF Holds, Read
      <3>6. frames'[c][Slot(n)] = f
        BY <2>5, <3>1
      <3>. QED  BY <3>5, <3>6 DEF FrameHolds, Holds, Read, Slot
    <2>. QED  BY <2>1, <2>4, <2>5 DEF Sendable
  <1>. QED  BY <1>2, <1>3

-----------------------------------------------------------------------------
(* The steps of the server within a level *)

\* A snapshot of one client keeps the invariant of all: it moves the shared
\* ring on, and no frame still used loses its entities.
LEMMA SnapshotSent ==
    ASSUME SnapshotsAssumption, IInv, NEW c \in Clients, NEW list \in EntityLists(c),
           SV_SendClientSnapshot(c, list),
           sent[c] < 2, phase = "running" => sent[c] = 0 /\ ~Busy(c),
           sent' = [sent EXCEPT ![c] = @ + 1],
           UNCHANGED <<phase, game, session, client>>
    PROVE  IInv'
  <1>. DEFINE built == BuiltFrame(c, list)
  <1>1. TypeOK /\ baseline <= tick /\ CounterOK /\ \A d \in Clients : ClientOK(d)
    BY DEF IInv
  <1>2. ChannelType
    BY <1>1 DEF TypeOK, ChannelType
  <1>3. /\ frames' = [frames EXCEPT ![c][Slot(Out(c))] = built]
        /\ snapshotEntities' = Copied(list)
        /\ nextSnapshotEntities' = nextSnapshotEntities + Len(list)
    BY DEF SV_SendClientSnapshot
  <1>4. PICK body \in {SnapshotOf(c, list), Cleared} : SV_SendMessageToClient(c, body)
    BY DEF SV_SendClientSnapshot, SnapshotOf
  <1>5. /\ Len(list) \in 0..MAX_SNAPSHOT_ENTITIES /\ Len(list) \in Nat
        /\ nextSnapshotEntities \in Nat /\ Out(c) \in Nat
    <2>1. Len(list) \in 0..MAX_SNAPSHOT_ENTITIES
      BY ListType
    <2>2. nextSnapshotEntities \in Nat
      BY <1>1 DEF TypeOK
    <2>3. Out(c) \in Nat
      BY <1>1, ClientType
    <2>. QED  BY <2>1, <2>2, <2>3, RingSize
  <1>6. Slot(Out(c)) \in 0..(PACKET_BACKUP - 1)
    BY <1>5, SlotRange
  <1>7. /\ frames[c] \in [0..(PACKET_BACKUP - 1) -> Frame]
        /\ DOMAIN frames = Clients
    BY <1>1 DEF TypeOK, Slots
  <1>8. /\ frames'[c][Slot(Out(c))] = built
        /\ \A i \in 0..(PACKET_BACKUP - 1) : i # Slot(Out(c)) => frames'[c][i] = frames[c][i]
        /\ \A d \in Clients \ {c} : frames'[d] = frames[d]
    BY <1>3, <1>6, <1>7
  <1>9. body \in Body /\ Sendable(c, body)
    <2>. HIDE DEF built
    <2>2. UNCHANGED state
      BY DEF session
    <2>1. frames'[c][Slot(Out(c))] = BuiltFrame(c, list)
      BY <1>8 DEF built
    <2>. QED  BY <1>1, <1>3, <1>4, <2>1, <2>2, SnapshotSendable
  <1>10. /\ ChannelType'
         /\ Leaves(c, body) \/ IsCut(c, body) \/ Waits(c, body)
         /\ \A d \in Clients \ {c} : ChannelSame(d)
    BY <1>2, <1>4, <1>9, SendCases
  <1>11. RingStep
    BY <1>3 DEF RingStep
  <1>12. UNCHANGED <<level, baseline, phase, client, state, deltaMessage>>
    BY DEF game, session
  <1>13. TypeOK'
    <2>1. frames' \in Slots(Frame)
      <3>1. built \in Frame
        BY <1>1, BuiltRight
      <3>2. frames \in [Clients -> [0..(PACKET_BACKUP - 1) -> Frame]]
        BY <1>1 DEF TypeOK, Slots
      <3>. HIDE DEF built
      <3>3. [frames[c] EXCEPT ![Slot(Out(c))] = built] \in [0..(PACKET_BACKUP - 1) -> Frame]
        BY <1>6, <3>1, <3>2
      <3>. QED  BY <1>3, <3>2, <3>3 DEF Slots
    <2>2. /\ snapshotEntities' \in [0..(NumSnapshotEntities - 1) -> EntityState]
          /\ nextSnapshotEntities' \in Nat
      <3>1. Copied(list) \in [0..(NumSnapshotEntities - 1) -> EntityState]
        BY <1>1, CopiedType
      <3>2. nextSnapshotEntities + Len(list) \in Nat
        BY <1>5
      <3>. QED  BY <1>3, <3>1, <3>2, Zenon
    <2>3. sent' \in [Clients -> 0..2]
      <3>1. sent \in [Clients -> 0..2]
        BY <1>1 DEF TypeOK
      <3>. QED  BY <3>1, TotalStep
    <2>4. /\ phase' \in {"running", "final"}
          /\ level' \in Nat /\ tick' \in 0..MaxTick /\ baseline' \in 0..MaxTick
          /\ version' \in [Entities -> 0..MaxTick]
      BY <1>1 DEF TypeOK, game
    <2>5. /\ state' \in [Clients -> {"free", "zombie", "connected", "primed", "active"}]
          /\ gamestateMessageNum' \in [Clients -> Nat \cup {-1}]
          /\ deltaMessage' \in [Clients -> Nat \cup {-1}]
          /\ uncaught' \in [Clients -> Nat]
      BY <1>1 DEF TypeOK, session
    <2>6. client' \in [Clients ->
              [level : Nat, gamestate : Nat, baseline : Nat, sequence : Nat,
               snap : Nat, snapshots : [0..(PACKET_BACKUP - 1) -> Snapshot]]]
      BY <1>1 DEF TypeOK
    <2>. QED  BY <1>10, <2>1, <2>2, <2>3, <2>4, <2>5, <2>6, Zenon DEF TypeOK, ChannelType
  <1>14. (baseline <= tick)'
    BY <1>1 DEF game
  <1>15. CounterOK'
    <2>1. sent \in [Clients -> 0..2]
      BY <1>1 DEF TypeOK
    <2>. QED  BY <1>1, <1>3, <1>5, <1>12, <2>1, CounterStep
  <1>16. ClientOK(c)'
    <2>1. Out(c)' \in Nat /\ Out(c)' >= Out(c)
      BY <1>5, <1>10 DEF Leaves, IsCut, Waits
    <2>7. InUse(c)' => InUse(c)
      BY <1>12 DEF InUse
    <2>2. FramesKept(c)
      BY <1>1, <1>8, <1>11, <2>1, <2>7, FramesKeptStep
    <2>3. Stays(c)
      BY <1>12, <2>2 DEF Stays
    <2>4. ChannelStep(c)
      BY <1>9, <1>10 DEF ChannelStep, Waits
    <2>5. /\ state'[c] = "active" /\ deltaMessage'[c] > 0 => client[c].level = level
          /\ deltaMessage'[c] <= client[c].sequence
      BY <1>1, <1>12 DEF ClientOK, OrderOK, NumbersOK
    <2>6. state'[c] # "active" \/ (state[c] = "active" /\ deltaMessage'[c] = deltaMessage[c])
      BY <1>12
    <2>. QED  BY <1>1, <2>3, <2>4, <2>5, <2>6, ClientStep
  <1>17. ASSUME NEW d \in Clients, d # c
         PROVE  ClientOK(d)'
    BY <1>1, <1>8, <1>10, <1>11, <1>12, <1>17, OtherClient
  <1>. QED  BY <1>13, <1>14, <1>15, <1>16, <1>17 DEF IInv

\* A frame's snapshot for one client keeps the invariant.
LEMMA SendClientMessagesStep ==
    ASSUME SnapshotsAssumption, IInv, NEW c \in Clients, SV_SendClientMessages(c)
    PROVE  IInv'
  <1>1. PICK list \in EntityLists(c) : SV_SendClientSnapshot(c, list)
    BY DEF SV_SendClientMessages
  <1>2. /\ sent[c] = 0 /\ ~Busy(c) /\ sent' = [sent EXCEPT ![c] = @ + 1]
        /\ UNCHANGED <<phase, game, session, client>>
    BY DEF SV_SendClientMessages
  <1>3. sent[c] < 2 /\ (phase = "running" => sent[c] = 0 /\ ~Busy(c))
    BY <1>2
  <1>. QED  BY <1>1, <1>2, <1>3, SnapshotSent

\* The last messages of a shutdown keep the invariant.
LEMMA FinalMessageStep ==
    ASSUME SnapshotsAssumption, IInv, NEW c \in Clients, SV_FinalMessage(c)
    PROVE  IInv'
  <1>1. PICK list \in EntityLists(c) : SV_SendClientSnapshot(c, list)
    BY DEF SV_FinalMessage
  <1>2. /\ phase = "final" /\ sent[c] < 2 /\ sent' = [sent EXCEPT ![c] = @ + 1]
        /\ UNCHANGED <<phase, game, session, client>>
    BY DEF SV_FinalMessage
  <1>. QED  BY <1>1, <1>2, SnapshotSent

\* The counter stands still.
LEMMA CounterSame ==
    ASSUME CounterOK, UNCHANGED <<phase, nextSnapshotEntities, sent>>
    PROVE  CounterOK'
  BY DEF CounterOK, CounterBound, Total

\* The types of what a step for a client leaves alone.
LEMMA TypeRest ==
    ASSUME TypeOK, UNCHANGED <<phase, game, ring, sent, frames>>
    PROVE  /\ phase' \in {"running", "final"}
           /\ level' \in Nat /\ tick' \in 0..MaxTick /\ baseline' \in 0..MaxTick
           /\ version' \in [Entities -> 0..MaxTick]
           /\ snapshotEntities' \in [0..(NumSnapshotEntities - 1) -> EntityState]
           /\ nextSnapshotEntities' \in Nat
           /\ sent' \in [Clients -> 0..2]
           /\ frames' \in Slots(Frame)
           /\ baseline <= tick => (baseline <= tick)'
  BY DEF TypeOK, game, ring

\* A fragment sent between frames keeps the invariant.
LEMMA TransmitNextFragmentStep ==
    ASSUME SnapshotsAssumption, IInv, NEW c \in Clients, SV_Netchan_TransmitNextFragment(c)
    PROVE  IInv'
  <1>1. TypeOK /\ baseline <= tick /\ CounterOK /\ \A d \in Clients : ClientOK(d)
    BY DEF IInv
  <1>2. /\ phase = "running" /\ UNCHANGED <<phase, game, ring, sent, session, frames, client>>
    BY DEF SV_Netchan_TransmitNextFragment
  <1>3. ChannelType
    BY <1>1 DEF TypeOK, ChannelType
  <1>4. /\ ChannelType'
        /\ FragmentsLeft(c) \/ HeadLeaves(c) \/ HeadIsCut(c)
        /\ \A d \in Clients \ {c} : ChannelSame(d)
    BY <1>3, FragmentCases
  <1>5. UNCHANGED <<level, baseline, phase, client, frames, state, deltaMessage,
                    uncaught, gamestateMessageNum, nextSnapshotEntities>>
    BY <1>2 DEF game, session, ring
  <1>6. TypeOK'
    <2>1. /\ state' \in [Clients -> {"free", "zombie", "connected", "primed", "active"}]
          /\ gamestateMessageNum' \in [Clients -> Nat \cup {-1}]
          /\ deltaMessage' \in [Clients -> Nat \cup {-1}]
          /\ uncaught' \in [Clients -> Nat]
          /\ client' \in [Clients ->
                [level : Nat, gamestate : Nat, baseline : Nat, sequence : Nat,
                 snap : Nat, snapshots : [0..(PACKET_BACKUP - 1) -> Snapshot]]]
      BY <1>1, <1>5 DEF TypeOK
    <2>2. <1>4!1
      BY <1>4
    <2>. QED  BY <1>1, <1>2, <1>4, <2>1, TypeRest, Zenon DEF TypeOK, ChannelType
  <1>7. ClientOK(c)'
    <2>1. Out(c) \in Nat
      BY <1>1, ClientType
    <2>2. Out(c)' \in Nat /\ Out(c)' >= Out(c)
      BY <1>4, <2>1 DEF FragmentsLeft, HeadLeaves, HeadIsCut
    <2>7. InUse(c)' => InUse(c)
      BY <1>5 DEF InUse
    <2>3. FramesKept(c)
      BY <1>1, <1>2, <1>5, <2>2, <2>7, FramesKeptStep
    <2>4. Stays(c) /\ ChannelStep(c)
      BY <1>2, <1>4, <1>5, <2>3 DEF Stays, ChannelStep
    <2>5. /\ state'[c] = "active" /\ deltaMessage'[c] > 0 => client[c].level = level
          /\ deltaMessage'[c] <= client[c].sequence
      BY <1>1, <1>5 DEF ClientOK, OrderOK, NumbersOK
    <2>6. state'[c] # "active" \/ (state[c] = "active" /\ deltaMessage'[c] = deltaMessage[c])
      BY <1>5
    <2>. QED  BY <1>1, <2>4, <2>5, <2>6, ClientStep
  <1>8. ASSUME NEW d \in Clients, d # c
        PROVE  ClientOK(d)'
    BY <1>1, <1>2, <1>4, <1>5, <1>8, OtherClient
  <1>9. CounterOK' /\ (baseline <= tick)'
    BY <1>1, <1>2, <1>5, CounterSame, TypeRest
  <1>. QED  BY <1>6, <1>7, <1>8, <1>9 DEF IInv

\* A packet, with what it acknowledges, enters or asks for, keeps the
\* invariant.
LEMMA ExecuteClientMessageStep ==
    ASSUME SnapshotsAssumption, IInv, NEW c \in Clients, NEW p \in Packets(c),
           SV_ExecuteClientMessage(c, p)
    PROVE  IInv'
  <1>1. TypeOK /\ baseline <= tick /\ CounterOK /\ \A d \in Clients : ClientOK(d)
    BY DEF IInv
  <1>2. /\ phase = "running" /\ InUse(c)
        /\ UNCHANGED <<phase, game, ring, sent, frames, client>>
    BY DEF SV_ExecuteClientMessage
  <1>3. ChannelType
    BY <1>1 DEF TypeOK, ChannelType
  <1>4. UNCHANGED <<level, baseline, phase, client, frames, nextSnapshotEntities>>
    BY <1>2 DEF game, ring
  <1>5. /\ client' \in [Clients ->
               [level : Nat, gamestate : Nat, baseline : Nat, sequence : Nat,
                snap : Nat, snapshots : [0..(PACKET_BACKUP - 1) -> Snapshot]]]
        /\ state \in [Clients -> {"free", "zombie", "connected", "primed", "active"}]
        /\ gamestateMessageNum \in [Clients -> Nat \cup {-1}]
        /\ deltaMessage \in [Clients -> Nat \cup {-1}]
        /\ uncaught \in [Clients -> Nat]
        /\ Out(c) \in Nat
    BY <1>1, <1>4, ClientType DEF TypeOK
  <1>6. /\ p.level = client[c].level /\ p.acknowledge = client[c].sequence
        /\ p.delta => client[c].snap # 0 /\ client[c].snap = client[c].sequence
    <2>2. PICK move : p = [level |-> client[c].level, acknowledge |-> client[c].sequence,
                           move |-> move,
                           delta |-> client[c].snap # 0 /\ client[c].snap = client[c].sequence]
      BY DEF Packets
    <2>3. /\ p.level = client[c].level /\ p.acknowledge = client[c].sequence
          /\ p.delta = (client[c].snap # 0 /\ client[c].snap = client[c].sequence)
      BY <2>2
    <2>. QED  BY <2>3, Zenon
  \* What each alternative does to the client's session and its channel.
  <1>. DEFINE Result ==
                /\ ChannelType'
                /\ ChannelStep(c)
                /\ \A d \in Clients \ {c} :
                      ChannelSame(d) /\ state'[d] = state[d]
                      /\ deltaMessage'[d] = deltaMessage[d]
                /\ state' \in [Clients -> {"free", "zombie", "connected", "primed", "active"}]
                /\ gamestateMessageNum' \in [Clients -> Nat \cup {-1}]
                /\ deltaMessage' \in [Clients -> Nat \cup {-1}]
                /\ uncaught' \in [Clients -> Nat]
                /\ state'[c] = "active" /\ deltaMessage'[c] > 0 => client[c].level = level
                /\ deltaMessage'[c] <= client[c].sequence
                /\ \/ state'[c] # "active"
                   \/ state[c] = "active" /\ deltaMessage'[c] = deltaMessage[c]
                   \/ deltaMessage'[c] = -1
                   \/ client[c].snapshots[Slot(deltaMessage'[c])].number = deltaMessage'[c]
  <1>7. /\ deltaMessage[c] <= client[c].sequence /\ client[c].sequence \in Nat
        /\ state[c] = "active" /\ deltaMessage[c] > 0 => client[c].level = level
        /\ client[c].snap # 0 =>
              client[c].snapshots[Slot(client[c].snap)].number = client[c].snap
    BY <1>1, ClientType DEF ClientOK, NumbersOK, OrderOK
  <1>8. ASSUME state[c] # "active", SV_SendClientGameState(c), UNCHANGED <<deltaMessage, uncaught>>
        PROVE  Result
    <2>1. /\ state' = [state EXCEPT ![c] = "primed"]
          /\ gamestateMessageNum' = [gamestateMessageNum EXCEPT ![c] = Out(c)]
          /\ SV_SendMessageToClient(c, Gamestate)
      BY <1>8 DEF SV_SendClientGameState
    <2>2. Gamestate \in Body /\ Gamestate.kind = "gamestate"
      BY <1>1 DEF TypeOK, Gamestate, Body
    <2>3. Sendable(c, Gamestate)
      <3>1. InOrder(Loaded(c), message[c].body, sending[c], queue[c])
        BY <1>1 DEF ClientOK, OrderOK
      <3>2. Known(Gamestate) /\ Fresh(Gamestate)
        BY <1>1 DEF Known, Fresh, Gamestate, TypeOK
      <3>3. Accepts(Loaded(c), message[c].body, sending[c], queue[c], Gamestate)
        BY <3>1, <3>2, FreshAccepted
      <3>. QED  BY <2>2, <3>3 DEF Sendable
    <2>4. /\ ChannelType'
          /\ Leaves(c, Gamestate) \/ IsCut(c, Gamestate) \/ Waits(c, Gamestate)
          /\ \A d \in Clients \ {c} : ChannelSame(d)
      BY <1>3, <2>1, <2>2, SendCases
    <2>5. ChannelStep(c)
      BY <1>4, <2>2, <2>3, <2>4 DEF ChannelStep
    <2>6. /\ state' \in [Clients -> {"free", "zombie", "connected", "primed", "active"}]
          /\ state'[c] = "primed" /\ \A d \in Clients \ {c} : state'[d] = state[d]
      BY <1>5, <2>1
    <2>7. gamestateMessageNum' \in [Clients -> Nat \cup {-1}] /\ uncaught' \in [Clients -> Nat]
      BY <1>5, <1>8, <2>1
    <2>8. /\ deltaMessage' \in [Clients -> Nat \cup {-1}]
          /\ deltaMessage'[c] <= client[c].sequence
          /\ \A d \in Clients : deltaMessage'[d] = deltaMessage[d]
      BY <1>5, <1>7, <1>8
    <2>9. state'[c] # "active"
      BY <2>6
    <2>. QED  BY <2>4, <2>5, <2>6, <2>7, <2>8, <2>9, Zenon
  <1>9. ASSUME UNCHANGED channel
        PROVE  ChannelType' /\ ChannelStep(c) /\ \A d \in Clients : ChannelSame(d)
    <2>1. ChannelType' /\ \A d \in Clients : ChannelSame(d)
      BY <1>3, <1>9 DEF ChannelType, ChannelSame, channel, Out
    <2>. QED  BY <1>4, <2>1 DEF ChannelStep
  <1>10. ASSUME UNCHANGED <<session, channel>>
         PROVE  Result
    <2>1. UNCHANGED channel
      BY <1>10
    <2>2. ChannelType' /\ ChannelStep(c) /\ \A d \in Clients : ChannelSame(d)
      BY <1>9, <2>1
    <2>3. /\ state' = state /\ deltaMessage' = deltaMessage
          /\ gamestateMessageNum' = gamestateMessageNum /\ uncaught' = uncaught
      BY <1>10 DEF session
    <2>4. /\ state'[c] = "active" /\ deltaMessage'[c] > 0 => client[c].level = level
          /\ deltaMessage'[c] <= client[c].sequence
      BY <1>7, <2>3
    <2>. QED  BY <1>5, <2>2, <2>3, <2>4, Zenon
  <1>11. ASSUME p.level = level, SV_UserMove(c, p)
         PROVE  Result
    <2>1. /\ state' = [state EXCEPT ![c] = IF @ = "primed" THEN "active" ELSE @]
          /\ deltaMessage' = [deltaMessage EXCEPT ![c] =
                IF p.delta /\ state[c] = "active" THEN p.acknowledge ELSE -1]
          /\ uncaught' = [uncaught EXCEPT ![c] = 0]
          /\ UNCHANGED gamestateMessageNum /\ UNCHANGED channel
      BY <1>11 DEF SV_UserMove
    <2>2. /\ state' \in [Clients -> {"free", "zombie", "connected", "primed", "active"}]
          /\ uncaught' \in [Clients -> Nat]
          /\ \A d \in Clients \ {c} : state'[d] = state[d]
      BY <1>5, <2>1
    <2>3. PICK d : d = IF p.delta /\ state[c] = "active" THEN p.acknowledge ELSE -1
      OBVIOUS
    <2>4. /\ d \in Nat \cup {-1} /\ d <= client[c].sequence
          /\ d = -1 \/ client[c].snapshots[Slot(d)].number = d
      BY <1>6, <1>7, <2>3
    <2>5. /\ deltaMessage' \in [Clients -> Nat \cup {-1}] /\ deltaMessage'[c] = d
          /\ \A e \in Clients \ {c} : deltaMessage'[e] = deltaMessage[e]
      BY <1>5, <2>1, <2>3, <2>4
    <2>6. Slot(deltaMessage'[c]) = Slot(d)
      BY <2>5 DEF Slot
    <2>7. ChannelType' /\ ChannelStep(c) /\ \A e \in Clients : ChannelSame(e)
      BY <1>9, <2>1
    <2>8. gamestateMessageNum' \in [Clients -> Nat \cup {-1}]
      BY <1>5, <2>1
    <2>9. /\ client[c].level = level /\ deltaMessage'[c] <= client[c].sequence
          /\ \/ deltaMessage'[c] = -1
             \/ client[c].snapshots[Slot(deltaMessage'[c])].number = deltaMessage'[c]
      BY <1>6, <1>11, <2>4, <2>5, <2>6
    <2>. QED  BY <2>2, <2>5, <2>7, <2>8, <2>9, Zenon
  <1>12. Result
    <2>. HIDE DEF Result
    <2>1. \/ /\ state[c] # "active" /\ SV_SendClientGameState(c)
             /\ UNCHANGED <<deltaMessage, uncaught>>
          \/ UNCHANGED <<session, channel>>
          \/ p.level = level /\ SV_UserMove(c, p)
      BY DEF SV_ExecuteClientMessage
    <2>. QED  BY <1>8, <1>10, <1>11, <2>1
  <1>13. TypeOK'
    BY <1>1, <1>2, <1>5, <1>12, TypeRest, Zenon DEF TypeOK, ChannelType
  <1>14. ClientOK(c)'
    <2>1. Out(c)' \in Nat /\ Out(c)' >= Out(c)
      BY <1>1, <1>12, ChannelNumbers
    <2>2. FramesKept(c)
      BY <1>1, <1>2, <1>4, <2>1, FramesKeptStep
    <2>3. Stays(c)
      BY <1>4, <2>2 DEF Stays
    <2>. QED  BY <1>1, <1>12, <2>3, ClientStep
  <1>15. ASSUME NEW d \in Clients, d # c
         PROVE  ClientOK(d)'
    <2>1. ChannelSame(d) /\ state'[d] = state[d] /\ deltaMessage'[d] = deltaMessage[d]
      BY <1>12, <1>15
    <2>. HIDE DEF Result
    <2>. QED  BY <1>1, <1>2, <1>4, <2>1, OtherClient
  <1>16. CounterOK' /\ (baseline <= tick)'
    BY <1>1, <1>2, <1>4, CounterSame, TypeRest
  <1>. HIDE DEF Result
  <1>. QED  BY <1>13, <1>14, <1>15, <1>16 DEF IInv

-----------------------------------------------------------------------------
(* The server's frame *)

\* A frame of the server begins with nothing sent, within the bound.
LEMMA CounterAtFrame ==
    ASSUME SnapshotsAssumption, TypeOK, CounterOK, phase = "running", sent' = None,
           nextSnapshotEntities' = nextSnapshotEntities,
           \/ phase' = "running" /\ ~Wrapping
           \/ phase' = "final"
    PROVE  CounterOK'
  <1>. DEFINE P == N * MAX_SNAPSHOT_ENTITIES
              before == MaxInt - NumSnapshotEntities - 1
  <1>1. \A c \in Clients : sent'[c] = 0
    BY DEF None
  <1>2. Total' = 0
    <2>1. {c \in Clients : sent'[c] >= 1} = {} /\ {c \in Clients : sent'[c] >= 2} = {}
      BY <1>1
    <2>2. Total' = Cardinality({c \in Clients : sent'[c] >= 1})
                      + Cardinality({c \in Clients : sent'[c] >= 2})
      BY DEF Total
    <2>3. Cardinality({}) = 0
      BY FS_EmptySet
    <2>4. Total' = 0 + 0
      BY <2>1, <2>2, <2>3
    <2>. QED  BY <2>4
  <1>3. /\ nextSnapshotEntities \in Nat /\ sent \in [Clients -> 0..2]
    BY DEF TypeOK
  <1>4. before \in Int /\ P \in Nat /\ MAX_SNAPSHOT_ENTITIES \in Nat
        /\ 0 * MAX_SNAPSHOT_ENTITIES = 0
    BY RingSize DEF SnapshotsAssumption
  <1>5. nextSnapshotEntities <= before + P
    <2>1. Total \in 0..N
      BY <1>3, TotalBound DEF CounterOK
    <2>2. P = Total * MAX_SNAPSHOT_ENTITIES + (N - Total) * MAX_SNAPSHOT_ENTITIES
      BY <2>1, RingSize
    <2>3. /\ Total * MAX_SNAPSHOT_ENTITIES \in Nat
          /\ (N - Total) * MAX_SNAPSHOT_ENTITIES \in Nat
      BY <2>1, RingSize
    <2>4. nextSnapshotEntities <= before + Total * MAX_SNAPSHOT_ENTITIES
      BY DEF CounterOK, CounterBound
    <2>. HIDE DEF P
    <2>. QED  BY <1>3, <1>4, <2>2, <2>3, <2>4
  <1>6. ~Wrapping => nextSnapshotEntities <= before
    BY <1>3 DEF Wrapping, SnapshotsAssumption
  <1>7. nextSnapshotEntities <= CounterBound'
    BY <1>5, <1>6 DEF CounterBound
  <1>8. CounterBound' \in Int
    BY <1>4 DEF CounterBound
  <1>9. nextSnapshotEntities' <= CounterBound' + Total' * MAX_SNAPSHOT_ENTITIES
    <2>1. Total' * MAX_SNAPSHOT_ENTITIES = 0
      BY <1>2, <1>4
    <2>2. PICK bound \in Int : bound = CounterBound'
      BY <1>8
    <2>. QED  BY <1>3, <1>7, <2>1, <2>2
  <1>. QED  BY <1>1, <1>9 DEF CounterOK

\* A frame of the game changes nothing of a client's frames and messages.
LEMMA FrameClients ==
    ASSUME SnapshotsAssumption, TypeOK, NEW c \in Clients, ClientOK(c),
           UNCHANGED <<level, baseline, ring, session, frames, channel, client>>,
           phase' = "running" => phase = "running"
    PROVE  ClientOK(c)'
  <1>1. ChannelSame(c)
    BY DEF channel, ChannelSame, Out
  <1>2. UNCHANGED ring \/ RingStep
    OBVIOUS
  <1>3. client'[c] = client[c] /\ frames'[c] = frames[c]
        /\ state'[c] = state[c] /\ deltaMessage'[c] = deltaMessage[c]
    BY DEF session
  <1>4. UNCHANGED <<level, baseline>>
    OBVIOUS
  <1>. QED  BY <1>1, <1>2, <1>3, <1>4, OtherClient

\* What a gamestate and a snapshot are made from is numbered.
LEMMA BodyFields ==
    ASSUME NEW b \in Body
    PROVE  /\ b.kind = "gamestate" => b.level \in Nat /\ b.baseline \in Nat
           /\ b.kind = "snapshot" => b.level \in Nat /\ b.baseline \in Nat
  <1>1. CASE b \in {Nothing, MapChange, Cleared}
    <2>1. b.kind \in {"none", "mapchange", "cleared"}
      BY <1>1 DEF Nothing, MapChange, Cleared
    <2>. QED  BY <2>1
  <1>2. CASE b \in [kind : {"gamestate"}, level : Nat, baseline : Nat]
    BY <1>2
  <1>3. CASE b \in [kind : {"snapshot"}, level : Nat, delta : Nat,
                    from : Seq(EntityState), to : Seq(EntityState),
                    psFrom : 0..MaxTick, ps : 0..MaxTick, baseline : Nat]
    <2>1. b.kind = "snapshot" /\ b.level \in Nat /\ b.baseline \in Nat
      BY <1>3
    <2>. QED  BY <2>1
  <1>. QED  BY <1>1, <1>2, <1>3 DEF Body

\* The types of what a frame leaves alone.
LEMMA FrameTypes ==
    ASSUME TypeOK, UNCHANGED <<level, baseline, ring, session, frames, channel, client>>,
           phase' \in {"running", "final"}, sent' = None,
           tick' \in 0..MaxTick, version' \in [Entities -> 0..MaxTick]
    PROVE  TypeOK'
  <1>1. level' \in Nat /\ baseline' \in 0..MaxTick
    BY DEF TypeOK
  <1>2. /\ snapshotEntities' \in [0..(NumSnapshotEntities - 1) -> EntityState]
        /\ nextSnapshotEntities' \in Nat
    BY DEF TypeOK, ring
  <1>3. sent' \in [Clients -> 0..2]
    BY DEF None
  <1>4. /\ state' \in [Clients -> {"free", "zombie", "connected", "primed", "active"}]
        /\ gamestateMessageNum' \in [Clients -> Nat \cup {-1}]
        /\ deltaMessage' \in [Clients -> Nat \cup {-1}]
        /\ uncaught' \in [Clients -> Nat]
    BY DEF TypeOK, session
  <1>5. ChannelType'
    BY DEF TypeOK, ChannelType, channel
  <1>6. /\ frames' \in Slots(Frame)
        /\ client' \in [Clients ->
              [level : Nat, gamestate : Nat, baseline : Nat, sequence : Nat,
               snap : Nat, snapshots : [0..(PACKET_BACKUP - 1) -> Snapshot]]]
    BY DEF TypeOK
  <1>. QED  BY <1>1, <1>2, <1>3, <1>4, <1>5, <1>6, Zenon DEF TypeOK, ChannelType

\* A frame keeps the invariant.
LEMMA FrameStep ==
    ASSUME SnapshotsAssumption, IInv, NEW S \in Changes, SV_Frame(S)
    PROVE  IInv'
  <1>1. TypeOK /\ baseline <= tick /\ CounterOK /\ \A d \in Clients : ClientOK(d)
    BY DEF IInv
  <1>2. /\ phase = "running" /\ phase' = "running" /\ ~Wrapping /\ sent' = None
        /\ UNCHANGED <<level, baseline, ring, session, frames, channel, client>>
    BY DEF SV_Frame
  <1>3. /\ tick \in 0..MaxTick /\ baseline \in 0..MaxTick
        /\ version \in [Entities -> 0..MaxTick] /\ MaxTick \in Nat
    BY <1>1 DEF TypeOK, SnapshotsAssumption
  <1>4. /\ S # {} => tick < MaxTick
        /\ tick' = IF S = {} THEN tick ELSE tick + 1
        /\ version' = [e \in Entities |-> IF e \in S THEN tick + 1 ELSE version[e]]
    BY DEF SV_Frame
  <1>5. tick' \in 0..MaxTick /\ baseline <= tick'
    BY <1>1, <1>3, <1>4
  <1>6. \A e \in S : tick + 1 \in 0..MaxTick
    BY <1>3, <1>4
  <1>7. version' \in [Entities -> 0..MaxTick]
    BY <1>3, <1>4, <1>6
  <1>8. TypeOK'
    BY <1>1, <1>2, <1>5, <1>7, FrameTypes
  <1>9. CounterOK'
    BY <1>1, <1>2, CounterAtFrame DEF ring
  <1>10. \A c \in Clients : ClientOK(c)'
    BY <1>1, <1>2, FrameClients
  <1>. QED  BY <1>2, <1>5, <1>8, <1>9, <1>10 DEF IInv

\* The restart of a server whose counter nears its limit keeps the invariant.
LEMMA FrameWrappingStep ==
    ASSUME SnapshotsAssumption, IInv, SV_FrameWrapping
    PROVE  IInv'
  <1>1. TypeOK /\ baseline <= tick /\ CounterOK /\ \A d \in Clients : ClientOK(d)
    BY DEF IInv
  <1>2. /\ phase = "running" /\ phase' = "final" /\ sent' = None
        /\ UNCHANGED <<level, tick, version, baseline>>
        /\ UNCHANGED <<level, baseline, ring, session, frames, channel, client>>
    BY DEF SV_FrameWrapping, game
  <1>3. tick' \in 0..MaxTick /\ version' \in [Entities -> 0..MaxTick]
    BY <1>1, <1>2 DEF TypeOK
  <1>4. TypeOK'
    BY <1>1, <1>2, <1>3, FrameTypes
  <1>5. CounterOK'
    BY <1>1, <1>2, CounterAtFrame DEF ring
  <1>6. \A c \in Clients : ClientOK(c)'
    BY <1>1, <1>2, FrameClients
  <1>. QED  BY <1>1, <1>2, <1>4, <1>5, <1>6 DEF IInv

-----------------------------------------------------------------------------
(* A new level *)

\* Any number of notices.
LEMMA NoticesType ==
    ASSUME NEW k \in Int
    PROVE  [i \in 1..k |-> MapChange] \in Seq({MapChange})
  <1>1. CASE k \in Nat
    BY <1>1
  <1>2. CASE k \notin Nat
    <2>1. 1..k = 1..0
      BY <1>2
    <2>2. [i \in 1..0 |-> MapChange] \in Seq({MapChange})
      OBVIOUS
    <2>. QED  BY <2>1, <2>2
  <1>. QED  BY <1>1, <1>2

\* What SV_SpawnServer does for one client.
Spawned(c, denied, fit) ==
    /\ state'[c] = IF denied THEN "zombie" ELSE IF InUse(c) THEN "connected" ELSE state[c]
    /\ queue'[c] = IF denied THEN <<>>
                   ELSE IF InUse(c) /\ ~Busy(c)
                        THEN [i \in 1..(MapChanges - fit - 1) |-> MapChange]
                   ELSE IF InUse(c) THEN queue[c] \o [i \in 1..MapChanges |-> MapChange]
                   ELSE queue[c]
    /\ sending'[c] = IF InUse(c) /\ ~Busy(c) /\ fit < MapChanges THEN <<MapChange>>
                     ELSE sending[c]
    /\ Out(c)' = IF InUse(c) /\ ~Busy(c) THEN Out(c) + fit ELSE Out(c)
    /\ message'[c] = IF InUse(c) /\ ~Busy(c) /\ fit > 0
                     THEN [number |-> Out(c) + fit - 1, body |-> MapChange]
                     ELSE message[c]

\* What it makes of the channel, types included: notices are all that is new.
LEMMA SpawnedChannel ==
    ASSUME SnapshotsAssumption, TypeOK, SV_SpawnServer
    PROVE  /\ state' \in [Clients -> {"free", "zombie", "connected", "primed", "active"}]
           /\ ChannelType'
           /\ \A c \in Clients :
                 \E denied \in BOOLEAN, fit \in 0..MapChanges :
                    Spawned(c, denied, fit) /\ (denied => InUse(c))
  <1>1. PICK denied \in SUBSET {c \in Clients : InUse(c)},
             fit \in [Clients -> 0..MapChanges] :
          /\ state' = [c \in Clients |-> IF c \in denied THEN "zombie"
                                        ELSE IF InUse(c) THEN "connected"
                                        ELSE state[c]]
          /\ queue' = [c \in Clients |->
                 IF c \in denied THEN <<>>
                 ELSE IF InUse(c) /\ ~Busy(c)
                      THEN [i \in 1..(MapChanges - fit[c] - 1) |-> MapChange]
                 ELSE IF InUse(c) THEN queue[c] \o [i \in 1..MapChanges |-> MapChange]
                 ELSE queue[c]]
          /\ sending' = [c \in Clients |->
                 IF (InUse(c) /\ ~Busy(c)) /\ fit[c] < MapChanges THEN <<MapChange>>
                 ELSE sending[c]]
          /\ outgoingSequence' = [c \in Clients |->
                 IF InUse(c) /\ ~Busy(c) THEN Out(c) + fit[c] ELSE Out(c)]
          /\ message' = [c \in Clients |->
                 IF (InUse(c) /\ ~Busy(c)) /\ fit[c] > 0
                 THEN [number |-> Out(c) + fit[c] - 1, body |-> MapChange]
                 ELSE message[c]]
    BY DEF SV_SpawnServer
  <1>2. state' \in [Clients -> {"free", "zombie", "connected", "primed", "active"}]
    BY <1>1 DEF TypeOK
  <1>3. MapChange \in Body /\ MapChanges \in Nat /\ Seq({MapChange}) \subseteq Seq(Body)
    BY DEF Body, SnapshotsAssumption
  <1>4. ASSUME NEW c \in Clients
        PROVE  /\ queue'[c] \in Seq(Body)
               /\ sending'[c] \in Seq(Body) /\ Len(sending'[c]) <= 1
               /\ outgoingSequence'[c] \in Nat \ {0}
               /\ message'[c] \in [number : Nat, body : Body]
    <2>1. /\ queue[c] \in Seq(Body) /\ sending[c] \in Seq(Body) /\ Len(sending[c]) <= 1
          /\ Out(c) \in Nat \ {0} /\ message[c] \in [number : Nat, body : Body]
          /\ fit[c] \in Nat
      BY <1>3 DEF TypeOK, Out
    <2>2. MapChanges - fit[c] - 1 \in Int
      BY <1>3, <2>1
    <2>3. /\ [i \in 1..(MapChanges - fit[c] - 1) |-> MapChange] \in Seq(Body)
          /\ [i \in 1..MapChanges |-> MapChange] \in Seq(Body)
      BY <1>3, <2>2, NoticesType
    <2>4. queue'[c] \in Seq(Body)
      <3>1. PICK v, w : /\ v = [i \in 1..(MapChanges - fit[c] - 1) |-> MapChange]
                        /\ w = [i \in 1..MapChanges |-> MapChange]
        OBVIOUS
      <3>2. v \in Seq(Body) /\ queue[c] \o w \in Seq(Body) /\ <<>> \in Seq(Body)
        BY <2>1, <2>3, <3>1
      <3>. QED  BY <1>1, <2>1, <3>1, <3>2
    <2>5. sending'[c] \in Seq(Body) /\ Len(sending'[c]) <= 1
      <3>1. <<MapChange>> \in Seq(Body) /\ Len(<<MapChange>>) = 1
        BY <1>3
      <3>. QED  BY <1>1, <2>1, <3>1
    <2>6. outgoingSequence'[c] \in Nat \ {0}
      BY <1>1, <2>1
    <2>7. message'[c] \in [number : Nat, body : Body]
      <3>1. fit[c] > 0 => Out(c) + fit[c] - 1 \in Nat
        BY <2>1
      <3>2. fit[c] > 0 => [number |-> Out(c) + fit[c] - 1, body |-> MapChange]
                             \in [number : Nat, body : Body]
        BY <1>3, <3>1
      <3>. QED  BY <1>1, <2>1, <3>2
    <2>. QED  BY <2>4, <2>5, <2>6, <2>7
  <1>5. ChannelType'
    <2>1. /\ queue' = [c \in Clients |-> queue'[c]]
          /\ sending' = [c \in Clients |-> sending'[c]]
          /\ outgoingSequence' = [c \in Clients |-> outgoingSequence'[c]]
          /\ message' = [c \in Clients |-> message'[c]]
      BY <1>1
    <2>. QED  BY <1>4, <2>1 DEF ChannelType
  <1>6. ASSUME NEW c \in Clients
        PROVE  \E d \in BOOLEAN, f \in 0..MapChanges :
                  Spawned(c, d, f) /\ (d => InUse(c))
    <2>1. Spawned(c, c \in denied, fit[c]) /\ (c \in denied => InUse(c))
      BY <1>1 DEF Spawned, Out
    <2>2. (c \in denied) \in BOOLEAN /\ fit[c] \in 0..MapChanges
      BY <1>1
    <2>. QED  BY <2>1, <2>2
  <1>. QED  BY <1>2, <1>5, <1>6

\* A map change takes a client out of the world; its frames and its
\* acknowledgement stay, and nothing of the old level is used for the new one.
LEMMA SpawnClient ==
    ASSUME SnapshotsAssumption, TypeOK, baseline <= tick, NEW c \in Clients, ClientOK(c),
           SV_SpawnServer
    PROVE  ClientOK(c)'
  <1>1. /\ NumbersOK(c) /\ OrderOK(c) /\ HeldOK(c) /\ BasesOK(c)
    BY DEF ClientOK
  <1>2. /\ level \in Nat /\ tick \in Nat /\ baseline \in Nat /\ MapChanges \in Nat
        /\ Out(c) \in Nat
    <2>1. level \in Nat /\ tick \in 0..MaxTick /\ baseline \in 0..MaxTick
      BY DEF TypeOK
    <2>2. MaxTick \in Nat /\ MapChanges \in Nat
      BY DEF SnapshotsAssumption
    <2>. QED  BY <2>1, <2>2, ClientType
  <1>3. /\ level' = level + 1 /\ baseline' = tick + 1
        /\ client' = client /\ deltaMessage' = deltaMessage
        /\ phase = "running" /\ phase' = "running"
    BY DEF SV_SpawnServer
  <1>5. PICK denied \in BOOLEAN, fit \in 0..MapChanges :
            Spawned(c, denied, fit) /\ (denied => InUse(c))
    BY SpawnedChannel
  <1>4. state'[c] # "active"
    BY <1>5 DEF Spawned, InUse
  \* What the notices of the map change do.
  <1>6. \/ /\ Busy(c)
           /\ message'[c] = message[c] /\ Out(c)' = Out(c) /\ sending'[c] = sending[c]
           /\ \/ queue'[c] \in {<<>>, queue[c]}
              \/ \E v \in Seq({MapChange}) : queue'[c] = queue[c] \o v
        \/ /\ ~Busy(c)
           /\ \/ message'[c] = message[c] /\ Out(c)' = Out(c)
              \/ /\ fit > 0 /\ Out(c)' = Out(c) + fit
                 /\ message'[c] = [number |-> Out(c) + fit - 1, body |-> MapChange]
           /\ sending'[c] \in Seq({MapChange}) /\ queue'[c] \in Seq({MapChange})
    <2>1. CASE ~InUse(c)
      <3>1. ~Busy(c) => /\ sending'[c] = <<>> /\ queue'[c] = <<>>
                        /\ sending'[c] \in Seq({MapChange}) /\ queue'[c] \in Seq({MapChange})
        <4>1. <<>> \in Seq({MapChange})
          OBVIOUS
        <4>2. sending'[c] = sending[c] /\ queue'[c] = queue[c]
          BY <1>5, <2>1 DEF Spawned
        <4>. QED  BY <4>1, <4>2 DEF Busy
      <3>. QED  BY <1>5, <2>1, <3>1 DEF Spawned
    <2>2. CASE InUse(c) /\ Busy(c)
      <3>1. [i \in 1..MapChanges |-> MapChange] \in Seq({MapChange})
        BY <1>2, NoticesType
      <3>2. queue'[c] = <<>> \/ queue'[c] = queue[c] \o [i \in 1..MapChanges |-> MapChange]
        BY <1>5, <2>2 DEF Spawned
      <3>. QED  BY <1>5, <2>2, <3>1, <3>2 DEF Spawned
    <2>3. CASE InUse(c) /\ ~Busy(c)
      <3>1. MapChanges - fit - 1 \in Int /\ fit \in Nat
        BY <1>2
      <3>2. [i \in 1..(MapChanges - fit - 1) |-> MapChange] \in Seq({MapChange})
        BY <3>1, NoticesType
      <3>3. queue'[c] \in Seq({MapChange})
        <4>1. queue'[c] = <<>> \/ queue'[c] = [i \in 1..(MapChanges - fit - 1) |-> MapChange]
          BY <1>5, <2>3 DEF Spawned
        <4>2. <<>> \in Seq({MapChange})
          OBVIOUS
        <4>. QED  BY <3>2, <4>1, <4>2
      <3>4. sending'[c] \in Seq({MapChange})
        <4>1. sending'[c] = <<>> \/ sending'[c] = <<MapChange>>
          BY <1>5, <2>3 DEF Spawned, Busy
        <4>2. <<>> \in Seq({MapChange}) /\ <<MapChange>> \in Seq({MapChange})
          OBVIOUS
        <4>. QED  BY <4>1, <4>2
      <3>5. \/ message'[c] = message[c] /\ Out(c)' = Out(c)
            \/ /\ fit > 0 /\ Out(c)' = Out(c) + fit
               /\ message'[c] = [number |-> Out(c) + fit - 1, body |-> MapChange]
        <4>1. fit = 0 => Out(c) + fit = Out(c)
          BY <1>2
        <4>. QED  BY <1>5, <2>3, <3>1, <4>1 DEF Spawned
      <3>. QED  BY <2>3, <3>3, <3>4, <3>5
    <2>. QED  BY <2>1, <2>2, <2>3
  <1>7. /\ Out(c)' \in Nat /\ Out(c)' >= Out(c)
        /\ \/ message'[c] = message[c]
           \/ /\ message'[c].number \in Nat
              /\ message'[c].number >= Out(c) /\ message'[c].number < Out(c)'
    <2>1. CASE message'[c] = message[c] /\ Out(c)' = Out(c)
      BY <1>2, <2>1
    <2>2. CASE /\ fit > 0 /\ Out(c)' = Out(c) + fit
               /\ message'[c] = [number |-> Out(c) + fit - 1, body |-> MapChange]
      <3>1. message'[c].number = Out(c) + fit - 1 /\ fit \in Nat
        BY <1>2, <2>2
      <3>. QED  BY <1>2, <2>2, <3>1
    <2>. QED  BY <1>6, <2>1, <2>2
  <1>8. NumbersOK(c)'
    <2>1. deltaMessage'[c] <= client[c].sequence
      BY <1>1, <1>3 DEF NumbersOK
    <2>. QED  BY <1>1, <1>3, <1>7, <2>1, NumbersStep
  \* Everything that has been made is of an earlier level now.
  <1>9. \A b \in Body \cup {Loaded(c)} : Known(b) =>
           /\ Known(b)'
           /\ b.kind = "gamestate" => b.level # level'
           /\ b.kind = "snapshot" => b.baseline # baseline'
    <2>1. ASSUME NEW b \in Body \cup {Loaded(c)}, Known(b)
          PROVE  /\ b.kind = "gamestate" => b.level \in Nat /\ b.baseline \in Nat
                 /\ b.kind = "snapshot" => b.level \in Nat /\ b.baseline \in Nat
      <3>1. CASE b = Loaded(c)
        BY <3>1, ClientType DEF Loaded
      <3>2. CASE b \in Body
        BY <3>2, BodyFields
      <3>. QED  BY <3>1, <3>2
    <2>. QED  BY <1>2, <1>3, <2>1 DEF Known
  <1>10. \A x, y : /\ x.kind = "gamestate" => x.level # level'
                   /\ Follows(x, y)
                   => Follows(x, y)'
    BY DEF Follows
  <1>11. InOrder(Loaded(c), message[c].body, sending[c], queue[c])
    BY <1>1 DEF OrderOK
  <1>12. Known(MapChange)' /\ \A x : Follows(x, MapChange)' /\ Follows(MapChange, x)'
    BY DEF MapChange, Known, Follows, Fresh
  <1>13. /\ message[c].body \in Body
         /\ \A i \in DOMAIN sending[c] : sending[c][i] \in Body
         /\ \A i \in DOMAIN queue[c] : queue[c][i] \in Body
    BY ClientType
  <1>14. Loaded(c)' = Loaded(c)
    BY <1>3 DEF Loaded
  <1>15. PICK x, f, s, w :
            x = Loaded(c) /\ f = message[c].body /\ s = sending[c] /\ w = queue[c]
    OBVIOUS
  <1>16. InOrder(x, f, s, w) /\ InOrder(x, f, s, w)'
    <2>1. InOrder(x, f, s, w)
      BY <1>11, <1>15
    <2>2. ASSUME NEW y, \/ y = x \/ y = f
                        \/ \E i \in DOMAIN s : y = s[i]
                        \/ \E i \in DOMAIN w : y = w[i]
          PROVE  /\ Known(y)'
                 /\ \A z : Follows(y, z) => Follows(y, z)'
      <3>1. Known(y)
        BY <2>1, <2>2 DEF InOrder
      <3>2. y \in Body \cup {Loaded(c)}
        BY <1>13, <1>15, <2>2
      <3>. QED  BY <1>9, <1>10, <3>1, <3>2
    <2>. QED  BY <2>1, <2>2 DEF InOrder
  \* Notices are all that is added.
  <1>18. \E g, t, v :
            /\ g = message'[c].body /\ t = sending'[c] /\ v = queue'[c]
            /\ InOrder(x, g, t, v)'
            /\ \A i \in DOMAIN t : (i \in DOMAIN s /\ t[i] = s[i]) \/ t[i] = MapChange
            /\ \A i \in DOMAIN v : (i \in DOMAIN w /\ v[i] = w[i]) \/ v[i] = MapChange
    <2>1. CASE /\ message'[c] = message[c] /\ sending'[c] = sending[c]
               /\ queue'[c] = queue[c]
      BY <1>15, <1>16, <2>1
    <2>2. CASE /\ message'[c] = message[c] /\ sending'[c] = sending[c]
               /\ queue'[c] = <<>>
      <3>1. InOrder(x, f, s, <<>>)'
        BY <1>16 DEF InOrder
      <3>. QED  BY <1>15, <2>2, <3>1
    <2>3. ASSUME NEW u \in Seq({MapChange}),
                 message'[c] = message[c], sending'[c] = sending[c],
                 queue'[c] = queue[c] \o u
          PROVE  <1>18
      <3>. DEFINE v == w \o u
      <3>1. /\ w \in Seq(Body) /\ u \in Seq(Body) /\ Len(w) \in Nat /\ Len(u) \in Nat
            /\ DOMAIN w = 1..Len(w) /\ DOMAIN u = 1..Len(u)
            /\ \A i \in DOMAIN u : u[i] = MapChange
        <4>1. w \in Seq(Body)
          BY <1>15, ClientType
        <4>2. MapChange \in Body
          BY DEF Body
        <4>. QED  BY <4>1, <4>2
      <3>2. /\ DOMAIN v = 1..(Len(w) + Len(u))
            /\ \A i \in DOMAIN v :
                  IF i \in DOMAIN w THEN v[i] = w[i] ELSE v[i] = MapChange
        <4>1. v \in Seq(Body) /\ Len(v) = Len(w) + Len(u)
          BY <3>1
        <4>2. \A i \in 1..(Len(w) + Len(u)) :
                 v[i] = IF i <= Len(w) THEN w[i] ELSE u[i - Len(w)]
          BY <3>1
        <4>. HIDE DEF v
        <4>3. DOMAIN v = 1..(Len(w) + Len(u))
          BY <3>1, <4>1
        <4>4. ASSUME NEW i \in 1..(Len(w) + Len(u)), ~(i <= Len(w))
              PROVE  i - Len(w) \in 1..Len(u)
          BY <3>1, <4>4
        <4>. QED  BY <3>1, <4>2, <4>3, <4>4
      <3>. HIDE DEF v
      <3>3. InOrder(x, f, s, v)'
        <4>1. \A i \in DOMAIN v : \/ i \in DOMAIN w /\ v[i] = w[i]
                                  \/ v[i] = MapChange
          BY <3>2
        <4>2. \A i, j \in DOMAIN v : i < j /\ j \in DOMAIN w => i \in DOMAIN w
          BY <3>1, <3>2
        <4>3. \A i, j \in DOMAIN v : i < j => Follows(v[i], v[j])'
          BY <1>12, <1>16, <4>1, <4>2 DEF InOrder
        <4>. QED  BY <1>12, <1>16, <4>1, <4>3 DEF InOrder
      <3>4. message'[c].body = f /\ sending'[c] = s /\ queue'[c] = v
        BY <1>15, <2>3 DEF v
      <3>. QED  BY <3>2, <3>3, <3>4
    <2>4. ASSUME ~Busy(c), message'[c] = message[c] \/ message'[c].body = MapChange,
                 sending'[c] \in Seq({MapChange}), queue'[c] \in Seq({MapChange})
          PROVE  <1>18
      <3>1. PICK g, t, v : g = message'[c].body /\ t = sending'[c] /\ v = queue'[c]
        OBVIOUS
      <3>2. g = f \/ g = MapChange
        BY <1>15, <2>4, <3>1
      <3>3. /\ \A i \in DOMAIN t : t[i] = MapChange
            /\ \A i \in DOMAIN v : v[i] = MapChange
        BY <2>4, <3>1
      <3>4. InOrder(x, g, t, v)'
        BY <1>12, <1>16, <3>2, <3>3 DEF InOrder
      <3>. QED  BY <3>1, <3>3, <3>4
    <2>5. CASE Busy(c)
      BY <1>6, <2>1, <2>2, <2>3, <2>5
    <2>6. CASE ~Busy(c)
      BY <1>6, <2>4, <2>6
    <2>. QED  BY <2>5, <2>6
  <1>17. PICK t, v :
            /\ t = sending'[c] /\ v = queue'[c]
            /\ \A g : g = message'[c].body => InOrder(x, g, t, v)'
            /\ \A i \in DOMAIN t : (i \in DOMAIN s /\ t[i] = s[i]) \/ t[i] = MapChange
            /\ \A i \in DOMAIN v : (i \in DOMAIN w /\ v[i] = w[i]) \/ v[i] = MapChange
    BY <1>18
  <1>19. OrderOK(c)'
    <2>1. \A i \in DOMAIN v : v[i].kind # "snapshot"
      <3>1. \A i \in DOMAIN w : w[i].kind # "snapshot"
        BY <1>1, <1>3, <1>15 DEF OrderOK
      <3>. QED  BY <1>17, <3>1 DEF MapChange
    <2>2. InOrder(Loaded(c), message[c].body, sending[c], queue[c])'
      <3>1. PICK g, y : g = message'[c].body /\ y = Loaded(c)'
        OBVIOUS
      <3>2. InOrder(y, g, t, v)'
        BY <1>14, <1>15, <1>17, <3>1
      <3>. QED  BY <1>17, <3>1, <3>2
    <2>. QED  BY <1>4, <1>17, <2>1, <2>2 DEF OrderOK
  <1>20. client'[c].level # level' /\ client'[c] = client[c]
    <2>1. Known(Loaded(c))
      BY <1>11 DEF InOrder
    <2>. QED  BY <1>3, <1>9, <2>1 DEF Loaded
  <1>21. HeldOK(c)'
    <2>1. ASSUME NEW i \in 0..(PACKET_BACKUP - 1), NEW r, r = client[c].snapshots[i]
          PROVE  Keeps(c, r)'
      <3>1. Keeps(c, r)
        BY <1>1, <2>1 DEF HeldOK
      <3>. QED  BY <1>20, <3>1 DEF Keeps, Right
    <2>. QED  BY <1>20, <2>1 DEF HeldOK
  <1>22. FramesOK(c)'
    <2>1. \A y \in Body : Known(y) /\ y.kind = "snapshot" => ~Fresh(y)'
      BY <1>9 DEF Fresh
    <2>2. Known(message[c].body) /\ \A i \in DOMAIN sending[c] : Known(sending[c][i])
      BY <1>11 DEF InOrder
    <2>3. PICK g : g = message'[c].body
      OBVIOUS
    <2>4. g.kind = "snapshot" => g = message[c].body
      BY <1>6, <2>3 DEF MapChange
    <2>5. g.kind = "snapshot" => ~Fresh(g)'
      BY <1>13, <2>1, <2>2, <2>4
    <2>6. \A i \in DOMAIN t : \A y :
             y = t[i] /\ y.kind = "snapshot" => ~Fresh(y)'
      <3>1. \A i \in DOMAIN t : t[i].kind = "snapshot" => i \in DOMAIN s /\ t[i] = s[i]
        BY <1>17 DEF MapChange
      <3>. QED  BY <1>13, <1>15, <2>1, <2>2, <3>1
    <2>. QED  BY <1>17, <2>3, <2>5, <2>6 DEF FramesOK, Fresh
  <1>23. AcknowledgedOK(c)'
    BY <1>4 DEF AcknowledgedOK
  <1>24. BasesOK(c)'
    <2>1. SUFFICES ASSUME NEW m, m \in Coming(c)'
                   PROVE  m \in Coming(c)
      BY <1>1, <1>3 DEF BasesOK, BaseOK, Right
    <2>2. /\ m.body.kind = "snapshot"
          /\ \/ m = message'[c]
             \/ \E i \in DOMAIN t : m = [number |-> Out(c)', body |-> t[i]]
      BY <1>17, <2>1 DEF Coming, Out
    <2>3. m = message'[c] => m = message[c]
      BY <1>6, <2>2 DEF MapChange
    <2>4. ASSUME NEW i \in DOMAIN t, m = [number |-> Out(c)', body |-> t[i]]
          PROVE  i \in DOMAIN s /\ m = [number |-> Out(c), body |-> s[i]]
      <3>1. i \in DOMAIN s /\ t[i] = s[i]
        BY <1>17, <2>2, <2>4 DEF MapChange
      <3>2. Busy(c)
        BY <1>15, <3>1 DEF Busy
      <3>3. Out(c)' = Out(c)
        BY <1>6, <3>2
      <3>. QED  BY <2>4, <3>1, <3>3
    <2>. QED  BY <1>15, <2>2, <2>3, <2>4 DEF Coming
  <1>. QED  BY <1>8, <1>19, <1>21, <1>22, <1>23, <1>24 DEF ClientOK

\* A map change keeps the invariant.
LEMMA SpawnServerStep ==
    ASSUME SnapshotsAssumption, IInv, SV_SpawnServer
    PROVE  IInv'
  <1>1. TypeOK /\ baseline <= tick /\ CounterOK /\ \A d \in Clients : ClientOK(d)
    BY DEF IInv
  <1>2. /\ phase' = phase /\ phase = "running" /\ sent' = sent
        /\ level' = level + 1 /\ tick' = tick + 1 /\ baseline' = tick + 1
        /\ version' = [e \in Entities |-> tick + 1]
        /\ snapshotEntities' = [p \in 0..(NumSnapshotEntities - 1) |-> NoEntity]
        /\ nextSnapshotEntities' = 0 /\ tick < MaxTick
        /\ uncaught' = None
        /\ UNCHANGED <<gamestateMessageNum, deltaMessage, frames, client>>
    BY DEF SV_SpawnServer
  <1>3. /\ level \in Nat /\ tick \in 0..MaxTick /\ MaxTick \in Nat /\ MaxEntity \in Nat
        /\ MapChanges \in Nat
    BY <1>1 DEF TypeOK, SnapshotsAssumption
  <1>4. level' \in Nat /\ tick' \in 0..MaxTick /\ baseline' \in 0..MaxTick /\ baseline' <= tick'
    BY <1>2, <1>3
  <1>5. version' \in [Entities -> 0..MaxTick]
    BY <1>2, <1>4
  <1>6. /\ snapshotEntities' \in [0..(NumSnapshotEntities - 1) -> EntityState]
        /\ nextSnapshotEntities' \in Nat
    BY <1>2, <1>3 DEF NoEntity, EntityState
  <1>7. /\ phase' \in {"running", "final"} /\ sent' \in [Clients -> 0..2]
        /\ frames' \in Slots(Frame)
    BY <1>1, <1>2 DEF TypeOK
  <1>8. /\ gamestateMessageNum' \in [Clients -> Nat \cup {-1}]
        /\ deltaMessage' \in [Clients -> Nat \cup {-1}]
        /\ uncaught' \in [Clients -> Nat]
        /\ client' \in [Clients ->
              [level : Nat, gamestate : Nat, baseline : Nat, sequence : Nat,
               snap : Nat, snapshots : [0..(PACKET_BACKUP - 1) -> Snapshot]]]
    BY <1>1, <1>2 DEF TypeOK, None
  <1>9. /\ state' \in [Clients -> {"free", "zombie", "connected", "primed", "active"}]
        /\ ChannelType'
    BY <1>1, SpawnedChannel
  <1>10. TypeOK'
    BY <1>4, <1>5, <1>6, <1>7, <1>8, <1>9, Zenon DEF TypeOK, ChannelType
  <1>11. CounterOK'
    <2>1. Total' = Total
      BY <1>2 DEF Total
    <2>2. Total \in Nat
      <3>1. sent \in [Clients -> 0..2] /\ 2 * N \in Nat
        BY <1>1 DEF TypeOK, SnapshotsAssumption
      <3>. QED  BY <3>1, TotalBound
    <2>3. Total * MAX_SNAPSHOT_ENTITIES \in Nat
      BY <2>2, RingSize
    <2>4. CounterBound' = MaxInt - NumSnapshotEntities - 1
      BY <1>2 DEF CounterBound
    <2>5. MaxInt - NumSnapshotEntities - 1 \in Nat
      BY DEF SnapshotsAssumption
    <2>6. nextSnapshotEntities' <= CounterBound' + Total' * MAX_SNAPSHOT_ENTITIES
      BY <1>2, <2>1, <2>3, <2>4, <2>5
    <2>. QED  BY <1>1, <1>2, <2>6 DEF CounterOK
  <1>12. \A c \in Clients : ClientOK(c)'
    BY <1>1, SpawnClient
  <1>. QED  BY <1>4, <1>10, <1>11, <1>12 DEF IInv

-----------------------------------------------------------------------------
(* Clients dropped, and a game started again *)

\* What a client that is dropped, or put into the world by map_restart, loses
\* of its channel and its acknowledgement keeps its part of the invariant.
LEMMA SessionStep ==
    ASSUME SnapshotsAssumption, TypeOK, NEW c \in Clients, ClientOK(c),
           phase = "running", UNCHANGED <<phase, level, baseline, ring, client, frames>>,
           ChannelSame(c) \/ QueueFreed(c),
           InUse(c)' => InUse(c),
           \/ state'[c] # "active" /\ deltaMessage'[c] = deltaMessage[c]
           \/ state'[c] = state[c] /\ deltaMessage'[c] = deltaMessage[c]
           \/ deltaMessage'[c] = -1
    PROVE  ClientOK(c)'
  <1>1. /\ Out(c) \in Nat /\ Out(c)' = Out(c)
        /\ client[c].sequence \in Nat /\ deltaMessage[c] <= client[c].sequence
        /\ state[c] = "active" /\ deltaMessage[c] > 0 => client[c].level = level
    BY ClientType DEF ChannelSame, QueueFreed, ClientOK, NumbersOK, OrderOK
  <1>2. FramesKept(c)
    BY <1>1, FramesKeptStep
  <1>3. Stays(c) /\ ChannelStep(c)
    BY <1>2 DEF Stays, ChannelStep
  <1>4. /\ deltaMessage'[c] <= client[c].sequence
        /\ state'[c] = "active" /\ deltaMessage'[c] > 0 => client[c].level = level
    BY <1>1
  <1>5. \/ state'[c] # "active"
        \/ state[c] = "active" /\ deltaMessage'[c] = deltaMessage[c]
        \/ deltaMessage'[c] = -1
    OBVIOUS
  <1>. QED  BY <1>3, <1>4, <1>5, ClientStep

\* Dropping a client keeps the invariant.
LEMMA DropClientStep ==
    ASSUME SnapshotsAssumption, IInv, NEW c \in Clients, SV_DropClient(c)
    PROVE  IInv'
  <1>1. TypeOK /\ baseline <= tick /\ CounterOK /\ \A d \in Clients : ClientOK(d)
    BY DEF IInv
  <1>2. /\ phase = "running"
        /\ state' = [state EXCEPT ![c] = "zombie"]
        /\ queue' = [queue EXCEPT ![c] = <<>>]
        /\ UNCHANGED <<phase, game, ring, sent, gamestateMessageNum, deltaMessage, uncaught,
                       frames, outgoingSequence, sending, message, client>>
    BY DEF SV_DropClient
  <1>3. /\ state \in [Clients -> {"free", "zombie", "connected", "primed", "active"}]
        /\ queue \in [Clients -> Seq(Body)]
    BY <1>1 DEF TypeOK
  <1>4. UNCHANGED <<level, baseline, phase, nextSnapshotEntities, sent>>
    BY <1>2 DEF game, ring
  <1>5. ASSUME NEW d \in Clients
        PROVE  ClientOK(d)'
    <2>1. ChannelSame(d) \/ QueueFreed(d)
      BY <1>2, <1>3 DEF ChannelSame, QueueFreed, Out
    <2>2. state'[d] = "zombie" \/ state'[d] = state[d]
      BY <1>2, <1>3
    <2>3. InUse(d)' => InUse(d)
      BY <2>2 DEF InUse
    <2>4. deltaMessage'[d] = deltaMessage[d]
      BY <1>2
    <2>. QED  BY <1>1, <1>2, <1>4, <2>1, <2>2, <2>3, <2>4, SessionStep
  <1>6. TypeOK'
    <2>1. ChannelType'
      <3>1. queue' \in [Clients -> Seq(Body)]
        BY <1>2, <1>3
      <3>. QED  BY <1>1, <1>2, <3>1 DEF TypeOK, ChannelType
    <2>2. /\ state' \in [Clients -> {"free", "zombie", "connected", "primed", "active"}]
          /\ gamestateMessageNum' \in [Clients -> Nat \cup {-1}]
          /\ deltaMessage' \in [Clients -> Nat \cup {-1}]
          /\ uncaught' \in [Clients -> Nat]
          /\ client' \in [Clients ->
                [level : Nat, gamestate : Nat, baseline : Nat, sequence : Nat,
                 snap : Nat, snapshots : [0..(PACKET_BACKUP - 1) -> Snapshot]]]
      BY <1>1, <1>2, <1>3 DEF TypeOK
    <2>. QED  BY <1>1, <1>2, <2>1, <2>2, TypeRest, Zenon DEF TypeOK, ChannelType
  <1>7. CounterOK' /\ (baseline <= tick)'
    BY <1>1, <1>2, <1>4, CounterSame, TypeRest
  <1>. QED  BY <1>5, <1>6, <1>7 DEF IInv

\* A game that starts again within its level keeps the invariant: who is put
\* into the world without the level acknowledges nothing.
LEMMA MapRestartStep ==
    ASSUME SnapshotsAssumption, IInv, SV_MapRestart_f
    PROVE  IInv'
  <1>1. TypeOK /\ baseline <= tick /\ CounterOK /\ \A d \in Clients : ClientOK(d)
    BY DEF IInv
  <1>2. /\ phase = "running" /\ tick < MaxTick /\ tick' = tick + 1
        /\ uncaught' = outgoingSequence
        /\ version' = [e \in Entities |-> tick + 1]
        /\ UNCHANGED <<phase, level, baseline, ring, sent, gamestateMessageNum, frames,
                       outgoingSequence, sending, message, client>>
    BY DEF SV_MapRestart_f
  <1>3. PICK denied \in SUBSET {c \in Clients : InUse(c)},
             overrun \in SUBSET {c \in Clients : InUse(c)} :
          /\ state' = [c \in Clients |-> IF c \in denied THEN "zombie"
                                        ELSE IF InUse(c) THEN "active"
                                        ELSE state[c]]
          /\ deltaMessage' = [c \in Clients |->
                 IF InUse(c) /\ c \notin denied THEN -1 ELSE deltaMessage[c]]
          /\ queue' = [c \in Clients |->
                 IF c \in denied \cup overrun THEN <<>> ELSE queue[c]]
    BY DEF SV_MapRestart_f
  <1>4. ASSUME NEW d \in Clients
        PROVE  ClientOK(d)'
    <2>1. ChannelSame(d) \/ QueueFreed(d)
      BY <1>2, <1>3 DEF ChannelSame, QueueFreed, Out
    <2>2. CASE d \in denied
      <3>1. state'[d] = "zombie" /\ deltaMessage'[d] = deltaMessage[d]
        BY <1>3, <2>2
      <3>2. ~InUse(d)'
        BY <3>1 DEF InUse
      <3>. QED  BY <1>1, <1>2, <2>1, <3>1, <3>2, SessionStep
    <2>3. CASE InUse(d) /\ d \notin denied
      <3>1. deltaMessage'[d] = -1
        BY <1>3, <2>3
      <3>. QED  BY <1>1, <1>2, <2>1, <2>3, <3>1, SessionStep
    <2>4. CASE ~InUse(d)
      <3>1. state'[d] = state[d] /\ deltaMessage'[d] = deltaMessage[d]
        BY <1>3, <2>4
      <3>2. ~InUse(d)'
        BY <2>4, <3>1 DEF InUse
      <3>. QED  BY <1>1, <1>2, <2>1, <3>1, <3>2, SessionStep
    <2>. QED  BY <2>2, <2>3, <2>4
  <1>5. /\ level' \in Nat /\ tick' \in 0..MaxTick /\ baseline' \in 0..MaxTick
        /\ (baseline <= tick)'
    BY <1>1, <1>2 DEF TypeOK, SnapshotsAssumption
  <1>6. version' \in [Entities -> 0..MaxTick]
    BY <1>2, <1>5
  <1>7. /\ state' \in [Clients -> {"free", "zombie", "connected", "primed", "active"}]
        /\ deltaMessage' \in [Clients -> Nat \cup {-1}]
        /\ queue' \in [Clients -> Seq(Body)]
    <2>1. /\ state \in [Clients -> {"free", "zombie", "connected", "primed", "active"}]
          /\ deltaMessage \in [Clients -> Nat \cup {-1}]
          /\ queue \in [Clients -> Seq(Body)] /\ <<>> \in Seq(Body)
      BY <1>1 DEF TypeOK
    <2>. QED  BY <1>3, <2>1
  <1>8. /\ phase' \in {"running", "final"} /\ sent' \in [Clients -> 0..2]
        /\ snapshotEntities' \in [0..(NumSnapshotEntities - 1) -> EntityState]
        /\ nextSnapshotEntities' \in Nat
        /\ gamestateMessageNum' \in [Clients -> Nat \cup {-1}]
        /\ uncaught' \in [Clients -> Nat]
        /\ frames' \in Slots(Frame)
        /\ outgoingSequence' \in [Clients -> Nat \ {0}]
        /\ sending' \in [Clients -> Seq(Body)]
        /\ \A c \in Clients : Len(sending'[c]) <= 1
        /\ message' \in [Clients -> [number : Nat, body : Body]]
        /\ client' \in [Clients ->
              [level : Nat, gamestate : Nat, baseline : Nat, sequence : Nat,
               snap : Nat, snapshots : [0..(PACKET_BACKUP - 1) -> Snapshot]]]
    BY <1>1, <1>2 DEF TypeOK, ring
  <1>9. TypeOK'
    BY <1>5, <1>6, <1>7, <1>8, Zenon DEF TypeOK
  <1>10. CounterOK'
    <2>1. UNCHANGED <<phase, nextSnapshotEntities, sent>>
      BY <1>2 DEF ring
    <2>. QED  BY <1>1, <2>1, CounterSame
  <1>. QED  BY <1>4, <1>5, <1>9, <1>10 DEF IInv

-----------------------------------------------------------------------------
(* A client reads a message *)

\* The snapshot CL_ParseSnapshot keeps of message m.
Parsed(c, m) ==
    LET b == m.body
        old == ClientBase(c, m)
    IN  [number |-> m.number,
         entities |-> CL_ParsePacketEntities(
            SV_EmitPacketEntities(b.from, b.to, b.baseline),
            old.entities, client[c].baseline),
         ps |-> Apply(b.psFrom, b.ps, old.ps),
         to |-> b.to, psTo |-> b.ps, ready |-> b.level = client[c].level]

\* The fields of a snapshot on its way.
LEMMA SnapshotBodyType ==
    ASSUME SnapshotsAssumption, NEW b \in Body, b.kind = "snapshot"
    PROVE  /\ b.delta \in Nat
           /\ b.from \in Seq(EntityState) /\ b.to \in Seq(EntityState)
           /\ b.psFrom \in Nat /\ b.ps \in Nat
           /\ b.level \in Nat /\ b.baseline \in Nat
  <1>1. b \in [kind : {"snapshot"}, level : Nat, delta : Nat,
               from : Seq(EntityState), to : Seq(EntityState),
               psFrom : 0..MaxTick, ps : 0..MaxTick, baseline : Nat]
    BY DEF Body, Nothing, MapChange, Cleared
  <1>2. \A t \in 0..MaxTick : t \in Nat
    BY DEF SnapshotsAssumption
  <1>. QED  BY <1>1, <1>2

\* What a client makes of differences has the type of entities, whatever it
\* had.
LEMMA EntitiesType ==
    ASSUME SnapshotsAssumption, NEW ops \in SUBSET Op,
           NEW old \in SUBSET [number : Nat, version : Nat], NEW base \in Nat
    PROVE  CL_ParsePacketEntities(ops, old, base) \in SUBSET [number : Nat, version : Nat]
  <1>1. \A from, to, own : to \in Nat => Apply(from, to, own) \in Nat
    BY DEF Apply, Wrong, SnapshotsAssumption
  <1>2. ASSUME NEW o \in ops, o.op \in {"new", "delta"}
        PROVE  o.number \in Nat /\ o.to \in Nat
    BY <1>2 DEF Op
  <1>3. ASSUME NEW o \in ops, o.op \in {"new", "delta"}, NEW own
        PROVE  [number |-> o.number, version |-> Apply(o.from, o.to, own)]
                  \in [number : Nat, version : Nat]
    BY <1>1, <1>2, <1>3
  <1>. QED  BY <1>3 DEF CL_ParsePacketEntities

\* A client that holds a snapshot's base reads what the server wrote.
LEMMA SnapshotRead ==
    ASSUME SnapshotsAssumption, TypeOK, NEW c \in Clients, ClientOK(c),
           NEW m, m = message[c], m.body.kind = "snapshot", BaseHeld(c, m),
           NEW s, s = Parsed(c, m)
    PROVE  s \in Snapshot /\ s.number = m.number /\ s.number # 0 /\ Keeps(c, s)
  <1>1. /\ NumbersOK(c) /\ OrderOK(c) /\ HeldOK(c) /\ FramesOK(c) /\ BasesOK(c)
    BY DEF ClientOK
  <1>2. PICK b : b = m.body
    OBVIOUS
  <1>3. /\ b \in Body /\ b.kind = "snapshot" /\ b # Nothing /\ m.number \in Nat
        /\ client[c].baseline \in Nat /\ client[c].sequence \in Nat
        /\ client[c].gamestate \in Nat
    BY <1>2, ClientType DEF Nothing
  <1>4. /\ b.delta \in Nat
        /\ b.from \in Seq(EntityState) /\ b.to \in Seq(EntityState)
        /\ b.psFrom \in Nat /\ b.ps \in Nat
        /\ b.level \in Nat /\ b.baseline \in Nat
    BY <1>3, SnapshotBodyType
  <1>5. BaseOK(c, m)
    BY <1>1 DEF BasesOK, Coming
  <1>6. SortedList(b.to)
    BY <1>2, <1>5 DEF BaseOK
  <1>7. PICK old : old = ClientBase(c, m)
    OBVIOUS
  \* The base it has is the one the snapshot was encoded from.
  <1>8. /\ old \in Snapshot /\ SortedList(b.from)
        /\ old.entities = Members(b.from) /\ old.ps = b.psFrom
    <2>1. CASE b.delta = 0
      <3>1. old = NoSnapshot /\ b.from = <<>> /\ b.psFrom = 0
        BY <1>2, <1>5, <1>7, <2>1 DEF BaseOK, ClientBase
      <3>2. NoSnapshot \in Snapshot /\ Members(<<>>) = {} /\ SortedList(<<>>)
        BY DEF NoSnapshot, Snapshot, Members, SortedList
      <3>. QED  BY <3>1, <3>2 DEF NoSnapshot
    <2>2. CASE b.delta # 0
      <3>. DEFINE d == m.number - b.delta
                  i == Slot(d)
      <3>1. 0 < d /\ d \in Nat
        BY <1>2, <1>3, <1>4, <1>5, <2>2 DEF BaseOK
      <3>2. old = client[c].snapshots[i] /\ old.number = d
        BY <1>2, <1>7, <2>2 DEF ClientBase, BaseHeld
      <3>3. i \in 0..(PACKET_BACKUP - 1)
        <4>. HIDE DEF d
        <4>1. d \in Int
          BY <3>1
        <4>. QED  BY <4>1, SlotRange
      <3>4. ~(client[c].gamestate > d)
        BY <1>1, <1>3, <3>1, <3>2, <3>3 DEF NumbersOK
      <3>5. old.to = b.from /\ old.psTo = b.psFrom /\ Right(old)
        BY <1>2, <1>5, <2>2, <3>2, <3>4 DEF BaseOK
      <3>6. old \in Snapshot /\ SortedList(old.to)
        BY <1>1, <3>2, <3>3, ClientType DEF HeldOK, Keeps
      <3>. QED  BY <3>5, <3>6 DEF Right
    <2>. QED  BY <2>1, <2>2
  <1>9. PICK entities, ps :
           /\ entities = CL_ParsePacketEntities(SV_EmitPacketEntities(b.from, b.to, b.baseline),
                                                old.entities, client[c].baseline)
           /\ ps = Apply(b.psFrom, b.ps, old.ps)
    OBVIOUS
  <1>10. s = [number |-> m.number, entities |-> entities, ps |-> ps,
              to |-> b.to, psTo |-> b.ps, ready |-> b.level = client[c].level]
    BY <1>2, <1>7, <1>9 DEF Parsed
  <1>11. entities \in SUBSET [number : Nat, version : Nat] /\ ps \in Nat
    <2>1. old.entities \in SUBSET [number : Nat, version : Nat]
      BY <1>8 DEF Snapshot
    <2>2. SV_EmitPacketEntities(b.from, b.to, b.baseline) \in SUBSET Op
      BY <1>4, <1>6, <1>8, MergeWritten
    <2>3. entities \in SUBSET [number : Nat, version : Nat]
      BY <1>3, <1>9, <2>1, <2>2, EntitiesType
    <2>4. ps \in Nat
      BY <1>4, <1>8, <1>9 DEF Apply
    <2>. QED  BY <2>3, <2>4
  <1>12. s \in Snapshot
    BY <1>3, <1>4, <1>10, <1>11 DEF Snapshot
  <1>13. m.number # 0
    BY <1>1, <1>2, <1>3 DEF NumbersOK
  \* With the level's baselines, what it reads is what was built.
  <1>14. client[c].baseline = b.baseline => entities = Members(b.to) /\ ps = b.ps
    BY <1>4, <1>6, <1>8, <1>9, MergeReadsBack DEF Apply
  <1>15. Known(Loaded(c)) /\ Follows(Loaded(c), b)
    BY <1>1, <1>2 DEF OrderOK, InOrder
  <1>16. b.level = client[c].level => client[c].baseline = b.baseline
    BY <1>3, <1>15 DEF Follows, Loaded
  <1>17. client[c].level = level => client[c].baseline = b.baseline /\ Fresh(b)
    BY <1>3, <1>15 DEF Known, Follows, Fresh, Loaded
  <1>18. Fresh(b) => FrameHolds(c, m.number, b.to, b.ps)
    BY <1>1, <1>2, <1>3 DEF FramesOK
  <1>19. /\ s.number = m.number /\ s.entities = entities /\ s.ps = ps /\ s.to = b.to
         /\ s.psTo = b.ps /\ s.ready = (b.level = client[c].level)
    BY <1>10
  <1>20. /\ SortedList(s.to)
         /\ client[c].baseline = b.baseline => Right(s)
    BY <1>6, <1>14, <1>19 DEF Right
  <1>21. s.ready => Right(s)
    BY <1>16, <1>19, <1>20
  <1>22. client[c].level = level => Right(s) /\ FrameHolds(c, s.number, s.to, s.psTo)
    BY <1>17, <1>18, <1>19, <1>20
  <1>. QED  BY <1>12, <1>13, <1>19, <1>20, <1>21, <1>22 DEF Keeps

\* What c has after message n of its server: a gamestate makes a new client of
\* it, a snapshot s it can read is kept, and of others it notes the number.
Became(c, n, s) ==
    LET k == client'[c]
        old == client[c]
    IN  \/ /\ message[c].body.kind = "gamestate"
           /\ k = NewClient(message[c].body.level, message[c].body.baseline, n)
        \/ /\ s \in Snapshot /\ s.number = n /\ Keeps(c, s)
           /\ k = [old EXCEPT !.sequence = n, !.snap = n, !.snapshots[Slot(n)] = s]
        \/ k = [old EXCEPT !.sequence = n]

\* The fields of it.
LEMMA BecameFields ==
    ASSUME SnapshotsAssumption, TypeOK, NEW c \in Clients, NEW n \in Nat, NEW s, Became(c, n, s)
    PROVE  LET k == client'[c]
               old == client[c]
           IN  /\ k.sequence = n
               /\ k \in [level : Nat, gamestate : Nat, baseline : Nat,
                         sequence : Nat, snap : Nat,
                         snapshots : [0..(PACKET_BACKUP - 1) -> Snapshot]]
               /\ \/ /\ message[c].body.kind = "gamestate"
                     /\ k.level = message[c].body.level
                     /\ k.baseline = message[c].body.baseline
                     /\ k.gamestate = n /\ k.snap = 0
                     /\ \A i \in 0..(PACKET_BACKUP - 1) : k.snapshots[i] = NoSnapshot
                  \/ /\ k.level = old.level /\ k.baseline = old.baseline
                     /\ k.gamestate = old.gamestate
                     /\ \/ /\ k.snap = old.snap /\ k.snapshots = old.snapshots
                        \/ /\ k.snap = n /\ k.snapshots[Slot(n)] = s
                           /\ s.number = n /\ Keeps(c, s)
                           /\ \A i \in 0..(PACKET_BACKUP - 1) :
                                 i # Slot(n) => k.snapshots[i] = old.snapshots[i]
  <1>. DEFINE k == client'[c]
              old == client[c]
              Type == [level : Nat, gamestate : Nat, baseline : Nat,
                       sequence : Nat, snap : Nat,
                       snapshots : [0..(PACKET_BACKUP - 1) -> Snapshot]]
  <1>1. /\ old \in Type /\ old.snapshots \in [0..(PACKET_BACKUP - 1) -> Snapshot]
        /\ Slot(n) \in 0..(PACKET_BACKUP - 1)
    <2>1. Slot(n) \in 0..(PACKET_BACKUP - 1)
      BY SlotRange
    <2>. QED  BY <2>1, ClientType
  <1>2. CASE /\ message[c].body.kind = "gamestate"
             /\ k = NewClient(message[c].body.level, message[c].body.baseline, n)
    <2>1. message[c].body.level \in Nat /\ message[c].body.baseline \in Nat
      <3>1. message[c].body \in Body
        BY ClientType
      <3>. QED  BY <1>2, <3>1 DEF Body, Nothing, MapChange, Cleared
    <2>2. NoSnapshot \in Snapshot
      BY DEF NoSnapshot, Snapshot
    <2>3. [i \in 0..(PACKET_BACKUP - 1) |-> NoSnapshot]
             \in [0..(PACKET_BACKUP - 1) -> Snapshot]
      BY <2>2
    <2>. HIDE DEF k
    <2>4. k \in Type
      BY <1>2, <2>1, <2>3 DEF NewClient
    <2>5. /\ k.sequence = n /\ k.level = message[c].body.level
          /\ k.baseline = message[c].body.baseline /\ k.gamestate = n /\ k.snap = 0
          /\ \A i \in 0..(PACKET_BACKUP - 1) : k.snapshots[i] = NoSnapshot
      BY <1>2 DEF NewClient
    <2>. QED  BY <1>2, <2>4, <2>5 DEF k
  <1>3. CASE /\ s \in Snapshot /\ s.number = n /\ Keeps(c, s)
             /\ k = [old EXCEPT !.sequence = n, !.snap = n, !.snapshots[Slot(n)] = s]
    <2>. DEFINE after == [old.snapshots EXCEPT ![Slot(n)] = s]
    <2>1. after \in [0..(PACKET_BACKUP - 1) -> Snapshot]
      BY <1>1, <1>3
    <2>. HIDE DEF k, old
    <2>2. k = [level |-> old.level, gamestate |-> old.gamestate, baseline |-> old.baseline,
               sequence |-> n, snap |-> n, snapshots |-> after]
      BY <1>1, <1>3
    <2>3. /\ k.sequence = n /\ k.level = old.level /\ k.baseline = old.baseline
          /\ k.gamestate = old.gamestate /\ k.snap = n
          /\ k.snapshots[Slot(n)] = s
          /\ \A i \in 0..(PACKET_BACKUP - 1) : i # Slot(n) => k.snapshots[i] = old.snapshots[i]
      BY <1>1, <2>2
    <2>. HIDE DEF after
    <2>4. k \in Type
      BY <1>1, <2>1, <2>2
    <2>. QED  BY <1>3, <2>3, <2>4 DEF k, old
  <1>4. CASE k = [old EXCEPT !.sequence = n]
    <2>. HIDE DEF k, old
    <2>. QED  BY <1>1, <1>4 DEF k, old
  <1>. QED  BY <1>2, <1>3, <1>4 DEF Became

\* A message that arrives and makes the client what CL_ParseServerMessage makes
\* it keeps the invariant.
LEMMA ReadsClient ==
    ASSUME SnapshotsAssumption, TypeOK, NEW c \in Clients, ClientOK(c),
           message[c].body # Nothing,
           NEW n, n = message[c].number, NEW s, Became(c, n, s),
           message'[c] = [number |-> 0, body |-> Nothing],
           UNCHANGED <<phase, level, baseline, ring, state, deltaMessage, frames,
                       outgoingSequence, sending, queue>>
    PROVE  ClientOK(c)'
  <1>. DEFINE k == client'[c]
              old == client[c]
              Slots0 == 0..(PACKET_BACKUP - 1)
              New0 == /\ message[c].body.kind = "gamestate"
                      /\ k.level = message[c].body.level
                      /\ k.baseline = message[c].body.baseline
                      /\ k.gamestate = n /\ k.snap = 0
                      /\ \A i \in Slots0 : k.snapshots[i] = NoSnapshot
              Same0 == /\ k.level = old.level /\ k.baseline = old.baseline
                       /\ k.gamestate = old.gamestate
                       /\ \/ /\ k.snap = old.snap /\ k.snapshots = old.snapshots
                          \/ /\ k.snap = n /\ k.snapshots[Slot(n)] = s
                             /\ s.number = n /\ Keeps(c, s)
                             /\ \A i \in Slots0 :
                                   i # Slot(n) => k.snapshots[i] = old.snapshots[i]
  <1>1. /\ NumbersOK(c) /\ OrderOK(c) /\ HeldOK(c) /\ FramesOK(c)
        /\ AcknowledgedOK(c) /\ BasesOK(c)
    BY DEF ClientOK
  <1>2. /\ n \in Nat /\ Out(c) \in Nat /\ old.sequence \in Nat /\ old.gamestate \in Nat
        /\ deltaMessage[c] \in Int /\ PACKET_BACKUP \in Nat
        /\ Slot(n) \in Slots0 /\ \A i \in Slots0 : old.snapshots[i].number \in Nat
    <2>1. n \in Nat
      BY ClientType
    <2>2. Slot(n) \in Slots0
      BY <2>1, SlotRange
    <2>3. \A i \in Slots0 : old.snapshots[i].number \in Nat
      BY ClientType
    <2>. QED  BY <2>1, <2>2, <2>3, ClientType, RingSize
  <1>3. /\ k.sequence = n
        /\ New0 \/ Same0
    BY <1>2, BecameFields
  <1>4. old.sequence < n /\ n < Out(c) /\ old.gamestate <= old.sequence
        /\ deltaMessage[c] <= old.sequence
    BY <1>1 DEF NumbersOK
  <1>5. Out(c)' = Out(c) /\ (InUse(c)' <=> InUse(c)) /\ message'[c].body = Nothing
    BY DEF Out, InUse
  <1>6. n # 0 /\ NoSnapshot.number = 0
    BY <1>2, <1>4 DEF NoSnapshot
  <1>7. \A i \in Slots0 :
           old.snapshots[i].number # 0 =>
              /\ Slot(old.snapshots[i].number) = i
              /\ old.gamestate < old.snapshots[i].number
              /\ old.snapshots[i].number <= old.sequence
    BY <1>1 DEF NumbersOK
  <1>8. NumbersOK(c)'
    <2>. HIDE DEF New0, Same0
    <2>1. k.gamestate <= k.sequence /\ k.snap <= k.sequence
      <3>1. old.snap \in Nat /\ old.snap <= old.sequence
        BY <1>1, ClientType DEF NumbersOK
      <3>2. CASE New0
        BY <1>2, <1>3, <3>2 DEF New0
      <3>3. CASE Same0
        <4>1. k.gamestate = old.gamestate /\ (k.snap = old.snap \/ k.snap = n)
          BY <3>3 DEF Same0
        <4>. HIDE DEF k, old
        <4>. QED  BY <1>2, <1>3, <1>4, <3>1, <4>1
      <3>. QED  BY <1>3, <3>2, <3>3
    <2>2. ASSUME NEW i \in Slots0, NEW t, t = k.snapshots[i], t.number # 0
          PROVE  Slot(t.number) = i /\ k.gamestate < t.number /\ t.number <= n
      <3>1. ~New0
        BY <1>6, <2>2 DEF New0
      <3>2. Same0
        BY <1>3, <3>1
      <3>3. CASE t = old.snapshots[i]
        <4>1. /\ Slot(t.number) = i /\ old.gamestate < t.number /\ t.number <= old.sequence
              /\ t.number \in Nat
          BY <1>2, <1>7, <2>2, <3>3
        <4>2. k.gamestate = old.gamestate
          BY <3>2 DEF Same0
        <4>. QED  BY <1>2, <1>4, <4>1, <4>2
      <3>4. CASE t # old.snapshots[i]
        <4>1. i = Slot(n) /\ t = s /\ s.number = n /\ k.gamestate = old.gamestate
          BY <2>2, <3>2, <3>4 DEF Same0
        <4>. QED  BY <1>2, <1>4, <4>1
      <3>. QED  BY <3>3, <3>4
    <2>3. k.snap # 0 => k.snapshots[Slot(k.snap)].number = k.snap
      <3>1. CASE New0
        BY <3>1 DEF New0
      <3>2. CASE Same0
        <4>1. old.snap # 0 => old.snapshots[Slot(old.snap)].number = old.snap
          BY <1>1 DEF NumbersOK
        <4>. QED  BY <3>2, <4>1 DEF Same0
      <3>. QED  BY <1>3, <3>1, <3>2
    <2>4. k.sequence < Out(c) /\ deltaMessage[c] <= k.sequence
      BY <1>2, <1>3, <1>4
    <2>5. /\ deltaMessage'[c] = deltaMessage[c]
      OBVIOUS
    <2>6. \A j : Slot(j)' = Slot(j)
      BY DEF Slot
    <2>. QED  BY <1>3, <1>5, <2>1, <2>2, <2>3, <2>4, <2>5 DEF NumbersOK, Slot
  <1>9. OrderOK(c)'
    <2>1. InOrder(Loaded(c), message[c].body, sending[c], queue[c])
      BY <1>1 DEF OrderOK
    <2>2. PICK x : x = Loaded(c)'
      OBVIOUS
    <2>3. /\ InOrder(x, Nothing, sending[c], queue[c])
          /\ state[c] = "active" /\ deltaMessage[c] > 0 => k.level = level
      <3>1. CASE New0
        <4>1. message[c].body \in [kind : {"gamestate"}, level : Nat, baseline : Nat]
          <5>1. message[c].body \in Body
            BY ClientType
          <5>. QED  BY <3>1, <5>1 DEF Body, Nothing, MapChange, Cleared
        <4>2. x = message[c].body
          BY <2>2, <3>1, <4>1 DEF Loaded
        <4>3. state[c] = "active" /\ deltaMessage[c] > 0 => message[c].body.level = level
          <5>1. Follows(Loaded(c), message[c].body)
            BY <2>1 DEF InOrder
          <5>2. state[c] = "active" /\ deltaMessage[c] > 0 => Loaded(c).level = level
            BY <1>1 DEF OrderOK, Loaded
          <5>. QED  BY <3>1, <5>1, <5>2 DEF Follows, Fresh, Loaded
        <4>. QED  BY <2>1, <3>1, <4>2, <4>3, OrderReceived
      <3>2. CASE Same0
        <4>1. x = Loaded(c)
          BY <2>2, <3>2 DEF Loaded
        <4>. QED  BY <1>1, <2>1, <3>2, <4>1, OrderReceived DEF OrderOK
      <3>. QED  BY <1>3, <3>1, <3>2
    <2>4. InOrder(x, Nothing, sending[c], queue[c])'
      BY <2>3 DEF InOrder, Known, Follows, Fresh
    <2>. HIDE DEF New0, Same0
    <2>. QED  BY <1>1, <1>5, <2>2, <2>3, <2>4 DEF OrderOK
  <1>10. HeldOK(c)'
    <2>. HIDE DEF New0, Same0
    <2>1. ASSUME NEW i \in Slots0, NEW t, t = k.snapshots[i]
          PROVE  Keeps(c, t)'
      <3>1. CASE New0
        <4>1. t = NoSnapshot
          BY <2>1, <3>1 DEF New0
        <4>. QED  BY <4>1 DEF Keeps, NoSnapshot, SortedList
      <3>2. CASE Same0
        <4>1. Keeps(c, t)
          <5>1. t = old.snapshots[i] \/ (t = s /\ Keeps(c, s))
            BY <2>1, <3>2 DEF Same0
          <5>. QED  BY <1>1, <5>1 DEF HeldOK
        <4>2. k.level = old.level
          BY <3>2 DEF Same0
        <4>3. \A number, to, ps : FrameHolds(c, number, to, ps)
                                     => FrameHolds(c, number, to, ps)'
          BY <1>5 DEF FrameHolds, Holds, Read, ring, Slot
        <4>. QED  BY <4>1, <4>2, <4>3 DEF Keeps, Right
      <3>. QED  BY <1>3, <3>1, <3>2
    <2>. QED  BY <2>1 DEF HeldOK
  <1>11. FramesOK(c)'
    <2>1. \A number, to, ps : FrameHolds(c, number, to, ps) => FrameHolds(c, number, to, ps)'
      BY <1>5 DEF FrameHolds, Holds, Read, ring, Slot
    <2>2. ASSUME NEW i \in DOMAIN sending[c], NEW y, y = sending[c][i],
                 phase = "running", y.kind = "snapshot", Fresh(y)
          PROVE  \A number : number = Out(c) => FrameHolds(c, number, y.to, y.ps)'
      BY <1>1, <2>1, <2>2 DEF FramesOK
    <2>3. \A y : Fresh(y)' <=> Fresh(y)
      BY DEF Fresh
    <2>. QED  BY <1>5, <2>2, <2>3 DEF FramesOK, Nothing
  \* A message that c has had within the backup is where it was, or too old for
  \* a new gamestate's client.
  <1>12. ASSUME NEW d \in Int, d <= old.sequence, n < d + PACKET_BACKUP
         PROVE  \/ k.gamestate > d
                \/ /\ k.gamestate = old.gamestate
                   /\ k.snapshots[Slot(d)] = old.snapshots[Slot(d)]
    <2>1. d < n /\ Slot(d) # Slot(n) /\ Slot(d) \in Slots0
      <3>1. d < n
        BY <1>2, <1>4, <1>12
      <3>. QED  BY <1>2, <1>12, <3>1, SlotsDiffer, SlotRange
    <2>2. CASE New0
      BY <1>2, <2>1, <2>2
    <2>3. CASE Same0
      BY <2>1, <2>3
    <2>. HIDE DEF New0, Same0
    <2>. QED  BY <1>3, <2>2, <2>3
  <1>. HIDE DEF New0, Same0
  <1>13. AcknowledgedOK(c)'
    <2>1. PICK d \in Int : d = deltaMessage[c]
      BY <1>2
    <2>2. state[c] = "active" /\ d > 0 =>
             k.gamestate > d \/ d <= Out(c) - PACKET_BACKUP \/ k.snapshots[Slot(d)].number = d
      <3>1. SUFFICES ASSUME state[c] = "active", d > 0, ~(d <= Out(c) - PACKET_BACKUP)
                     PROVE  k.gamestate > d \/ k.snapshots[Slot(d)].number = d
        OBVIOUS
      <3>2. old.gamestate > d \/ old.snapshots[Slot(d)].number = d
        BY <1>1, <2>1, <3>1 DEF AcknowledgedOK
      <3>3. d <= old.sequence /\ n < d + PACKET_BACKUP
        BY <1>2, <1>4, <2>1, <3>1
      <3>. QED  BY <1>12, <3>2, <3>3
    <2>3. Slot(deltaMessage[c])' = Slot(d)
      BY <2>1 DEF Slot
    <2>. QED  BY <1>5, <2>1, <2>2, <2>3 DEF AcknowledgedOK
  <1>14. BasesOK(c)'
    <2>1. SUFFICES ASSUME NEW m, m \in Coming(c)'
                   PROVE  BaseOK(c, m)'
      BY DEF BasesOK
    <2>2. PICK i \in DOMAIN sending[c] : m = [number |-> Out(c), body |-> sending[c][i]]
      BY <1>5, <2>1 DEF Coming, Out, Nothing
    <2>3. m.body.kind = "snapshot"
      BY <2>1 DEF Coming
    <2>4. BaseOK(c, m)
      BY <1>1, <2>2, <2>3 DEF BasesOK, Coming
    <2>5. PICK delta, d : delta = m.body.delta /\ d = m.number - delta
      OBVIOUS
    <2>6. delta \in Nat /\ m.number = Out(c)
      BY <2>2, <2>3, <2>5, ClientType, SnapshotBodyType
    <2>7. CASE delta = 0
      BY <2>4, <2>5, <2>7 DEF BaseOK
    <2>8. CASE delta # 0
      <3>1. /\ 0 < d /\ d <= old.sequence /\ delta < PACKET_BACKUP
            /\ \/ old.gamestate > d
               \/ LET t == old.snapshots[Slot(d)]
                  IN  /\ t.number = d /\ t.to = m.body.from /\ t.psTo = m.body.psFrom
                      /\ Right(t)
        BY <2>4, <2>5, <2>8 DEF BaseOK
      <3>2. d \in Int /\ n < d + PACKET_BACKUP
        BY <1>2, <1>4, <2>5, <2>6, <3>1
      <3>3. \/ k.gamestate > d
            \/ LET t == k.snapshots[Slot(d)]
               IN  /\ t.number = d /\ t.to = m.body.from /\ t.psTo = m.body.psFrom
                   /\ Right(t)
        BY <1>12, <3>1, <3>2
      <3>4. d <= k.sequence
        BY <1>2, <1>3, <1>4, <3>1, <3>2
      <3>5. SortedList(m.body.to)
        BY <2>4 DEF BaseOK
      <3>. QED  BY <2>5, <2>8, <3>1, <3>3, <3>4, <3>5 DEF BaseOK, Right, Slot
    <2>. QED  BY <2>7, <2>8
  <1>. QED  BY <1>5, <1>8, <1>9, <1>10, <1>11, <1>13, <1>14 DEF ClientOK

\* A message that arrives keeps the invariant, whichever it is.
LEMMA ParseServerMessageStep ==
    ASSUME SnapshotsAssumption, IInv, NEW c \in Clients, CL_ParseServerMessage(c)
    PROVE  IInv'
  <1>1. TypeOK /\ baseline <= tick /\ CounterOK /\ \A d \in Clients : ClientOK(d)
    BY DEF IInv
  <1>2. PICK m : m = message[c]
    OBVIOUS
  <1>3. PICK n : n = m.number
    OBVIOUS
  <1>4. /\ m.body # Nothing /\ m.body \in Body /\ n \in Nat
        /\ message \in [Clients -> [number : Nat, body : Body]]
    BY <1>1, <1>2, <1>3, ClientType DEF CL_ParseServerMessage, TypeOK
  <1>5. /\ message' = [message EXCEPT ![c] = [number |-> 0, body |-> Nothing]]
        /\ UNCHANGED <<phase, game, ring, sent, session, frames,
                       outgoingSequence, sending, queue>>
    BY DEF CL_ParseServerMessage
  <1>6. UNCHANGED <<level, baseline, phase, state, deltaMessage, gamestateMessageNum,
                    uncaught, nextSnapshotEntities>>
    BY <1>5 DEF game, session, ring
  <1>7. PICK k : /\ client' = [client EXCEPT ![c] = k]
                 /\ k = CASE m.body.kind = "gamestate" ->
                                 NewClient(m.body.level, m.body.baseline, n)
                          [] m.body.kind = "snapshot" -> CL_ParseSnapshot(c, m)
                          [] OTHER -> [client[c] EXCEPT !.sequence = n]
    BY <1>2, <1>3 DEF CL_ParseServerMessage
  <1>8. /\ client'[c] = k
        /\ \A d \in Clients \ {c} : client'[d] = client[d] /\ message'[d] = message[d]
        /\ message'[c] = [number |-> 0, body |-> Nothing]
    BY <1>1, <1>4, <1>5, <1>7 DEF TypeOK
  <1>9. PICK s : s = Parsed(c, m)
    OBVIOUS
  <1>10. Became(c, n, s)
    <2>1. CASE m.body.kind = "gamestate"
      BY <1>2, <1>7, <1>8, <2>1 DEF Became
    <2>2. CASE m.body.kind = "snapshot" /\ BaseHeld(c, m)
      <3>1. k = [client[c] EXCEPT !.sequence = n, !.snap = n, !.snapshots[Slot(n)] = s]
        BY <1>3, <1>7, <1>9, <2>2 DEF CL_ParseSnapshot, Parsed
      <3>2. s \in Snapshot /\ s.number = n /\ Keeps(c, s)
        BY <1>1, <1>2, <1>3, <1>9, <2>2, SnapshotRead
      <3>. QED  BY <1>8, <3>1, <3>2 DEF Became
    <2>3. CASE m.body.kind = "snapshot" /\ ~BaseHeld(c, m)
      <3>1. k = [client[c] EXCEPT !.sequence = n]
        BY <1>3, <1>7, <2>3 DEF CL_ParseSnapshot
      <3>. QED  BY <1>8, <3>1 DEF Became
    <2>4. CASE m.body.kind \notin {"gamestate", "snapshot"}
      BY <1>7, <1>8, <2>4 DEF Became
    <2>. QED  BY <2>1, <2>2, <2>3, <2>4
  <1>11. ClientOK(c)'
    <2>1. UNCHANGED <<phase, level, baseline, ring, state, deltaMessage, frames,
                      outgoingSequence, sending, queue>>
      BY <1>5, <1>6
    <2>. QED  BY <1>1, <1>2, <1>3, <1>4, <1>8, <1>10, <2>1, ReadsClient
  <1>12. ASSUME NEW d \in Clients, d # c
         PROVE  ClientOK(d)'
    <2>1. ChannelSame(d)
      BY <1>5, <1>8, <1>12 DEF ChannelSame, Out
    <2>2. client'[d] = client[d] /\ frames'[d] = frames[d]
          /\ state'[d] = state[d] /\ deltaMessage'[d] = deltaMessage[d]
      BY <1>5, <1>6, <1>8, <1>12
    <2>. QED  BY <1>1, <1>5, <1>6, <2>1, <2>2, OtherClient
  <1>13. ChannelType'
    <2>1. [number |-> 0, body |-> Nothing] \in [number : Nat, body : Body]
      BY DEF Body
    <2>2. message' \in [Clients -> [number : Nat, body : Body]]
      BY <1>4, <1>5, <2>1
    <2>. QED  BY <1>1, <1>5, <2>2 DEF TypeOK, ChannelType
  <1>14. TypeOK'
    <2>. DEFINE Type == [level : Nat, gamestate : Nat, baseline : Nat, sequence : Nat,
                         snap : Nat, snapshots : [0..(PACKET_BACKUP - 1) -> Snapshot]]
    <2>1. k \in Type
      BY <1>1, <1>4, <1>8, <1>10, BecameFields
    <2>2. client' \in [Clients -> Type]
      <3>1. client \in [Clients -> Type]
        BY <1>1 DEF TypeOK
      <3>. HIDE DEF Type
      <3>. QED  BY <1>7, <2>1, <3>1
    <2>3. /\ state' \in [Clients -> {"free", "zombie", "connected", "primed", "active"}]
          /\ gamestateMessageNum' \in [Clients -> Nat \cup {-1}]
          /\ deltaMessage' \in [Clients -> Nat \cup {-1}]
          /\ uncaught' \in [Clients -> Nat]
      BY <1>1, <1>6 DEF TypeOK
    <2>. QED  BY <1>1, <1>5, <1>13, <2>2, <2>3, TypeRest, Zenon DEF TypeOK, ChannelType
  <1>15. CounterOK' /\ (baseline <= tick)'
    BY <1>1, <1>5, <1>6, CounterSame, TypeRest
  <1>. QED  BY <1>11, <1>12, <1>14, <1>15 DEF IInv

-----------------------------------------------------------------------------
(* The theorems *)

\* The initial states are well typed.
LEMMA InitType ==
    ASSUME SnapshotsAssumption, Init
    PROVE  TypeOK
  <1>1. /\ phase \in {"running", "final"} /\ level \in Nat
        /\ sent \in [Clients -> 0..2]
        /\ state \in [Clients -> {"free", "zombie", "connected", "primed", "active"}]
        /\ outgoingSequence \in [Clients -> Nat \ {0}]
        /\ gamestateMessageNum \in [Clients -> Nat \cup {-1}]
        /\ deltaMessage \in [Clients -> Nat \cup {-1}]
        /\ uncaught \in [Clients -> Nat]
        /\ nextSnapshotEntities \in Nat
    BY DEF Init, None
  <1>2. /\ tick \in 0..MaxTick /\ baseline \in 0..MaxTick
        /\ version \in [Entities -> 0..MaxTick]
    BY DEF Init, SnapshotsAssumption
  <1>3. snapshotEntities \in [0..(NumSnapshotEntities - 1) -> EntityState]
    BY DEF Init, NoEntity, EntityState, SnapshotsAssumption
  <1>4. frames \in Slots(Frame)
    <2>1. [first |-> 0, num |-> 0, ps |-> 0] \in Frame
      BY DEF Frame, SnapshotsAssumption
    <2>. QED  BY <2>1 DEF Init, Slots
  <1>5. ChannelType
    BY DEF Init, ChannelType, Body
  <1>6. client \in [Clients ->
              [level : Nat, gamestate : Nat, baseline : Nat, sequence : Nat,
               snap : Nat, snapshots : [0..(PACKET_BACKUP - 1) -> Snapshot]]]
    BY DEF Init, NewClient, NoSnapshot, Snapshot
  <1>. QED  BY <1>1, <1>2, <1>3, <1>4, <1>5, <1>6, Zenon DEF TypeOK, ChannelType

\* The initial states satisfy the invariant.
LEMMA InitInvariant ==
    ASSUME SnapshotsAssumption, Init
    PROVE  IInv
  <1>1. TypeOK
    BY InitType
  <1>2. CounterOK
    <2>1. sent \in [Clients -> 0..2] /\ \A c \in Clients : sent[c] = 0
      BY DEF Init, None
    <2>2. Total = 0
      BY <2>1, TotalBound
    <2>3. Total * MAX_SNAPSHOT_ENTITIES = 0
      BY <2>2, RingSize
    <2>4. CounterBound \in Nat
      BY DEF CounterBound, Init, SnapshotsAssumption
    <2>. QED  BY <2>1, <2>3, <2>4 DEF CounterOK, Init
  <1>3. ASSUME NEW c \in Clients
        PROVE  ClientOK(c)
    <2>1. /\ level = 1 /\ baseline = 1 /\ Out(c) = 1
          /\ state[c] = "connected" /\ deltaMessage[c] = 0
          /\ sending[c] = <<>> /\ queue[c] = <<>>
          /\ message[c] = [number |-> 0, body |-> Nothing]
          /\ client[c] = NewClient(0, 0, 0)
      BY DEF Init, Out, None
    <2>2. /\ client[c].level = 0 /\ client[c].gamestate = 0 /\ client[c].baseline = 0
          /\ client[c].sequence = 0 /\ client[c].snap = 0
          /\ \A i \in 0..(PACKET_BACKUP - 1) : client[c].snapshots[i] = NoSnapshot
          /\ message[c].body = Nothing
      BY <2>1 DEF NewClient
    <2>3. NumbersOK(c)
      BY <2>1, <2>2 DEF NumbersOK, NoSnapshot
    <2>4. OrderOK(c)
      <3>1. Known(Loaded(c))
        BY <2>1, <2>2 DEF Known, Loaded
      <3>2. Known(Nothing) /\ \A x : Follows(x, Nothing)
        BY NothingFollows DEF Nothing
      <3>. QED  BY <2>1, <2>2, <3>1, <3>2 DEF OrderOK, InOrder
    <2>5. HeldOK(c)
      BY <2>2 DEF HeldOK, Keeps, NoSnapshot, SortedList
    <2>6. FramesOK(c) /\ AcknowledgedOK(c) /\ BasesOK(c)
      BY <2>1, <2>2 DEF FramesOK, AcknowledgedOK, BasesOK, Coming, Nothing
    <2>. QED  BY <2>3, <2>4, <2>5, <2>6 DEF ClientOK
  <1>4. baseline <= tick
    BY DEF Init
  <1>. QED  BY <1>1, <1>2, <1>3, <1>4 DEF IInv

\* Every step keeps the invariant; one case per action.
LEMMA NextInvariant ==
    ASSUME SnapshotsAssumption, IInv, [Next]_vars
    PROVE  IInv'
  <1>1. CASE UNCHANGED vars
    <2>1. IInv
      OBVIOUS
    <2>2. UNCHANGED <<phase, level, tick, version, baseline, snapshotEntities,
                      nextSnapshotEntities, sent, state, gamestateMessageNum, deltaMessage,
                      uncaught, frames, outgoingSequence, sending, queue, message, client>>
      BY <1>1 DEF vars, game, ring, session, channel
    <2>3. TypeOK /\ baseline <= tick /\ CounterOK /\ \A d \in Clients : ClientOK(d)
      BY <2>1 DEF IInv
    <2>4. TypeOK' /\ (baseline <= tick)'
      BY <2>2, <2>3 DEF TypeOK
    <2>5. CounterOK'
      BY <2>2, <2>3, CounterSame
    <2>6. \A d \in Clients : ClientOK(d)'
      BY <2>2, <2>3, FrameClients DEF ring, session, channel
    <2>. QED  BY <2>4, <2>5, <2>6 DEF IInv
  <1>2. CASE \E S \in Changes : SV_Frame(S)
    BY <1>2, FrameStep
  <1>3. CASE SV_FrameWrapping
    BY <1>3, FrameWrappingStep
  <1>4. CASE SV_SpawnServer
    BY <1>4, SpawnServerStep
  <1>5. ASSUME NEW c \in Clients, SV_SendClientMessages(c)
        PROVE  IInv'
    BY <1>5, SendClientMessagesStep
  <1>6. ASSUME NEW c \in Clients, SV_FinalMessage(c)
        PROVE  IInv'
    BY <1>6, FinalMessageStep
  <1>7. ASSUME NEW c \in Clients, SV_Netchan_TransmitNextFragment(c)
        PROVE  IInv'
    BY <1>7, TransmitNextFragmentStep
  <1>8. ASSUME NEW c \in Clients, NEW p \in Packets(c), SV_ExecuteClientMessage(c, p)
        PROVE  IInv'
    BY <1>8, ExecuteClientMessageStep
  <1>9. ASSUME NEW c \in Clients, CL_ParseServerMessage(c)
        PROVE  IInv'
    BY <1>9, ParseServerMessageStep
  <1>10. CASE SV_MapRestart_f
    BY <1>10, MapRestartStep
  <1>11. ASSUME NEW c \in Clients, SV_DropClient(c)
         PROVE  IInv'
    BY <1>11, DropClientStep
  <1>. QED  BY <1>1, <1>2, <1>3, <1>4, <1>5, <1>6, <1>7, <1>8, <1>9, <1>10, <1>11
            DEF Next, Server, Environment

\* The inductive invariant holds of every reachable state.
LEMMA InvariantHolds == Spec => []IInv
  <1>1. Init => IInv
    BY SnapshotsAssumption, InitInvariant
  <1>2. IInv /\ [Next]_vars => IInv'
    BY SnapshotsAssumption, NextInvariant
  <1>. QED  BY <1>1, <1>2, PTL DEF Spec

\* Every reachable state is well typed: no frame points outside the rings, and
\* at most one message of a client is being fragmented.
THEOREM TypeCorrect == Spec => []TypeOK
  <1>1. IInv => TypeOK
    BY DEF IInv
  <1>. QED  BY <1>1, InvariantHolds, PTL

\* svs.nextSnapshotEntities never reaches the limit at which its sign or its
\* slots would go wrong: SV_Frame tests it in time, with the margin of the
\* assumption, for any number of clients.
THEOREM CounterStaysBelowLimit == Spec => []CounterBelowLimit
  <1>1. IInv => CounterBelowLimit
    BY SnapshotsAssumption, CounterSmall DEF IInv
  <1>. QED  BY <1>1, InvariantHolds, PTL

\* In every state of the invariant the base of a snapshot under way is held by
\* its client, and the server's frames still read the entities they were sent
\* with.
LEMMA BasesIntact ==
    ASSUME SnapshotsAssumption, IInv
    PROVE  DeltaBaseIntact
  <1>1. SUFFICES ASSUME NEW c \in Clients, NEW m \in Coming(c), m.body.delta # 0,
                        ~(client[c].gamestate > m.number - m.body.delta)
                 PROVE  /\ BaseHeld(c, m)
                        /\ ClientBase(c, m).to = m.body.from
                        /\ ClientBase(c, m).psTo = m.body.psFrom
    BY DEF DeltaBaseIntact
  <1>2. BaseOK(c, m)
    BY DEF IInv, ClientOK, BasesOK
  <1>. QED  BY <1>1, <1>2 DEF BaseOK, BaseHeld, ClientBase

\* SV_WriteSnapshotToClient never writes a snapshot from a frame its client
\* does not have, or whose entities in the shared ring were overwritten by
\* other clients' snapshots, for a client that was sent its gamestate once in a
\* level.
THEOREM BaseIsIntact == Spec => []DeltaBaseIntact
  <1>1. IInv => DeltaBaseIntact
    BY SnapshotsAssumption, BasesIntact
  <1>. QED  BY <1>1, InvariantHolds, PTL

\* In every state of the invariant what the client has decoded is what the
\* server built.
LEMMA SnapshotsRight ==
    ASSUME SnapshotsAssumption, IInv
    PROVE  ClientSeesGame
  <1>1. SUFFICES ASSUME NEW c \in Clients, NEW s, s = client[c].snapshots[Slot(client[c].snap)],
                        client[c].snap # 0, s.ready
                 PROVE  /\ s.entities = {s.to[i] : i \in DOMAIN s.to}
                        /\ s.ps = s.psTo
    BY DEF ClientSeesGame
  <1>2. TypeOK /\ HeldOK(c)
    BY DEF IInv, ClientOK
  <1>3. client[c].snap \in Int
    BY <1>2, ClientType
  <1>4. Slot(client[c].snap) \in 0..(PACKET_BACKUP - 1)
    BY <1>3, SlotRange
  <1>5. Keeps(c, s)
    BY <1>1, <1>2, <1>4 DEF HeldOK
  <1>. QED  BY <1>1, <1>5 DEF Keeps, Right, Members

\* What CL_ParseServerMessage decodes of a snapshot of the level the client has
\* loaded is the entities and the player state SV_BuildClientSnapshot collected
\* for the message of that number, through map changes and through map_restarts
\* that put into the world clients that have not loaded the level.
THEOREM ClientsSeeGame == Spec => []ClientSeesGame
  <1>1. IInv => ClientSeesGame
    BY SnapshotsAssumption, SnapshotsRight
  <1>. QED  BY <1>1, InvariantHolds, PTL
=============================================================================
