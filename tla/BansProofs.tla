--------------------------- MODULE BansProofs ---------------------------
(***************************************************************************)
(* Proofs about Bans: what the commands do to the list and to who is       *)
(* banned, for every length of address and of list.                        *)
(***************************************************************************)
EXTENDS Bans, FiniteSetTheorems, TLAPS

\* The first k entries of bans, without those of gone: each in its place, and
\* none twice.
Places(kept, bans, k) ==
    {at \in [DOMAIN kept -> 1..k] :
        /\ \A i \in DOMAIN kept : kept[i] = bans[at[i]]
        /\ \A i, j \in DOMAIN kept : at[i] = at[j] => i = j}

Remains(kept, bans, k, gone) ==
    /\ kept \in Seq(Entries)
    /\ Len(kept) <= k
    /\ Places(kept, bans, k) # {}
    /\ \A i \in DOMAIN kept : kept[i] \notin gone
    /\ \A j \in 1..k : bans[j] \notin gone => \E i \in DOMAIN kept : kept[i] = bans[j]

-----------------------------------------------------------------------------
(* Naturals and recursion *)

\* A set of naturals that is not empty has a least element: the intervals up
\* to its elements have one that no other is strictly included in.
LEMMA LeastNatural ==
    ASSUME NEW T, T \subseteq Nat, T # {}
    PROVE  \E x \in T : \A y \in T : x <= y
  <1>. DEFINE I == {0..x : x \in T}
  <1>1. I \subseteq FiniteSubsetsOf(Nat)
    <2>1. \A x \in T : IsFiniteSet(0..x) /\ 0..x \subseteq Nat
      BY FS_Interval
    <2>. QED  BY <2>1 DEF FiniteSubsetsOf
  <1>2. I # {}
    OBVIOUS
  <1>3. PICK s \in I : \A t \in I : <<t, s>> \notin StrictSubsetOrdering(Nat)
    <2>. HIDE DEF I
    <2>. QED  BY <1>1, <1>2, FS_StrictSubsetOrderingWellFounded, WFMin
  <1>4. PICK x \in T : s = 0..x
    BY <1>3
  <1>5. ASSUME NEW y \in T
        PROVE  x <= y
    <2>1. <<0..y, 0..x>> \notin StrictSubsetOrdering(Nat)
      BY <1>3, <1>4
    <2>2. ~(0..y \subseteq 0..x /\ 0..y # 0..x)
      BY <2>1 DEF StrictSubsetOrdering
    <2>3. y < x => 0..y \subseteq 0..x /\ x \in 0..x /\ x \notin 0..y
      OBVIOUS
    <2>4. y < x => 0..y # 0..x
      BY <2>3, Zenon
    <2>. QED  BY <2>2, <2>3, <2>4
  <1>. QED  BY <1>5

\* Induction: a set with 0 and the successors of its naturals has them all.
LEMMA SetInduction ==
    ASSUME NEW T, 0 \in T, \A n \in Nat : n \in T => n + 1 \in T
    PROVE  Nat \subseteq T
  <1>1. SUFFICES ASSUME Nat \ T # {}
                 PROVE  FALSE
    OBVIOUS
  <1>2. PICK x \in Nat \ T : \A y \in Nat \ T : x <= y
    BY <1>1, LeastNatural
  <1>3. x - 1 \in Nat
    BY <1>2
  <1>4. x - 1 \in T
    BY <1>2, <1>3
  <1>. QED  BY <1>2, <1>3, <1>4

\* What n steps come to, one after the other, from base.
StepsFrom(n, D, base, step) ==
    {g \in [0..n -> D] :
        g[0] = base /\ \A i \in 1..n : g[i] = step[i][g[i - 1]]}

\* Recursion: a step from D to D can be taken n times.
LEMMA StepsDefine ==
    ASSUME NEW n \in Nat, NEW D, NEW base \in D,
           NEW step \in [1..n -> [D -> D]]
    PROVE  StepsFrom(n, D, base, step) # {}
  <1>. DEFINE P(k) == \E g \in [0..k -> D] :
                        g[0] = base /\ \A i \in 1..k : g[i] = step[i][g[i - 1]]
              T == {k \in Nat : k <= n => P(k)}
  <1>1. 0 \in T
    <2>. DEFINE g == [i \in 0..0 |-> base]
    <2>1. g \in [0..0 -> D] /\ g[0] = base /\ 1..0 = {}
      OBVIOUS
    <2>2. P(0)
      <3>. HIDE DEF g
      <3>. QED  BY <2>1
    <2>. QED  BY <2>2
  <1>2. ASSUME NEW k \in Nat, k \in T
        PROVE  k + 1 \in T
    <2>1. SUFFICES ASSUME k + 1 <= n
                   PROVE  P(k + 1)
      OBVIOUS
    <2>2. PICK g \in [0..k -> D] :
              g[0] = base /\ \A i \in 1..k : g[i] = step[i][g[i - 1]]
      BY <1>2, <2>1
    <2>. DEFINE h == [i \in 0..(k + 1) |-> IF i = k + 1 THEN step[i][g[k]] ELSE g[i]]
    <2>3. k + 1 \in 1..n /\ k \in 0..k /\ g[k] \in D
      BY <2>1
    <2>4. h \in [0..(k + 1) -> D] /\ h[0] = base
      BY <2>2, <2>3
    <2>5. ASSUME NEW i \in 1..(k + 1)
          PROVE  h[i] = step[i][h[i - 1]]
      <3>1. CASE i = k + 1
        <4>1. h[i] = step[i][g[k]] /\ h[k] = g[k]
          BY <3>1
        <4>. QED  BY <3>1, <4>1
      <3>2. CASE i \in 1..k
        <4>1. h[i] = g[i] /\ h[i - 1] = g[i - 1]
          BY <3>2
        <4>2. g[i] = step[i][g[i - 1]]
          BY <2>2, <3>2
        <4>. QED  BY <4>1, <4>2
      <3>. QED  BY <3>1, <3>2
    <2>. HIDE DEF h
    <2>. QED  BY <2>4, <2>5
  <1>3. Nat \subseteq T
    <2>. HIDE DEF T
    <2>. QED  BY <1>1, <1>2, SetInduction
  <1>. QED  BY <1>3 DEF StepsFrom

-----------------------------------------------------------------------------
(* The operators on lists *)

\* One entry more, and it goes.
LEMMA RemainsSkipped ==
    ASSUME NEW bans \in Seq(Entries), NEW gone, NEW k \in Nat, k + 1 <= Len(bans),
           NEW kept, Remains(kept, bans, k, gone), bans[k + 1] \in gone
    PROVE  Remains(kept, bans, k + 1, gone)
  <1>1. PICK at \in Places(kept, bans, k) : TRUE
    BY DEF Remains
  <1>2. at \in Places(kept, bans, k + 1)
    BY <1>1 DEF Places
  <1>3. kept \in Seq(Entries) /\ Len(kept) <= k + 1
    BY DEF Remains
  <1>4. ASSUME NEW j \in 1..(k + 1), bans[j] \notin gone
        PROVE  \E i \in DOMAIN kept : kept[i] = bans[j]
    <2>1. j \in 1..k
      BY <1>4
    <2>. QED  BY <1>4, <2>1 DEF Remains
  <1>. QED  BY <1>2, <1>3, <1>4 DEF Remains

\* One entry more, and it stays.
LEMMA RemainsKept ==
    ASSUME NEW bans \in Seq(Entries), NEW gone, NEW k \in Nat, k + 1 <= Len(bans),
           NEW kept, Remains(kept, bans, k, gone), bans[k + 1] \notin gone
    PROVE  Remains(Append(kept, bans[k + 1]), bans, k + 1, gone)
  <1>. DEFINE new == Append(kept, bans[k + 1])
              n == Len(kept)
  <1>1. PICK at \in Places(kept, bans, k) : TRUE
    BY DEF Remains
  <1>2. kept \in Seq(Entries) /\ n \in Nat /\ n <= k /\ DOMAIN kept = 1..n
    BY DEF Remains
  <1>3. bans[k + 1] \in Entries
    OBVIOUS
  <1>4. /\ new \in Seq(Entries) /\ Len(new) = n + 1 /\ DOMAIN new = 1..(n + 1)
        /\ \A i \in 1..n : new[i] = kept[i]
        /\ new[n + 1] = bans[k + 1]
    BY <1>2, <1>3
  <1>. HIDE DEF new, n
  <1>5. Places(new, bans, k + 1) # {}
    <2>. DEFINE to == [i \in 1..(n + 1) |-> IF i = n + 1 THEN k + 1 ELSE at[i]]
    <2>1. \A i \in 1..n : /\ at[i] \in 1..k
                          /\ kept[i] = bans[at[i]]
                          /\ \A j \in 1..n : at[i] = at[j] => i = j
      BY <1>1, <1>2 DEF Places
    <2>2. to \in [1..(n + 1) -> 1..(k + 1)]
      BY <1>2, <2>1
    <2>3. \A i \in 1..(n + 1) : new[i] = bans[to[i]]
      BY <1>2, <1>4, <2>1
    <2>4. \A i, j \in 1..(n + 1) : to[i] = to[j] => i = j
      BY <1>2, <2>1
    <2>. HIDE DEF to
    <2>5. to \in Places(new, bans, k + 1)
      BY <1>4, <2>2, <2>3, <2>4 DEF Places
    <2>. QED  BY <2>5
  <1>6. ASSUME NEW i \in 1..(n + 1)
        PROVE  new[i] \notin gone
    BY <1>2, <1>4 DEF Remains
  <1>7. ASSUME NEW j \in 1..(k + 1), bans[j] \notin gone
        PROVE  \E i \in 1..(n + 1) : new[i] = bans[j]
    <2>1. CASE j = k + 1
      BY <1>2, <1>4, <2>1
    <2>2. CASE j \in 1..k
      <3>1. PICK i \in 1..n : kept[i] = bans[j]
        BY <1>2, <1>7, <2>2 DEF Remains
      <3>. QED  BY <1>2, <1>4, <3>1
    <2>. QED  BY <2>1, <2>2
  <1>8. Remains(new, bans, k + 1, gone)
    BY <1>2, <1>4, <1>5, <1>6, <1>7 DEF Remains
  <1>. QED  BY <1>8 DEF new

\* What is left of a list.
LEMMA WithoutRemains ==
    ASSUME NEW bans \in Seq(Entries), NEW gone
    PROVE  Remains(Without(bans, gone), bans, Len(bans), gone)
  <1>. DEFINE n == Len(bans)
              next(i, s) == IF bans[i] \in gone THEN s ELSE Append(s, bans[i])
              step == [i \in 1..n |-> [s \in Seq(Entries) |-> next(i, s)]]
              Steps(f) == f = [i \in 0..n |->
                                  IF i = 0 THEN <<>>
                                  ELSE IF bans[i] \in gone THEN f[i - 1]
                                       ELSE Append(f[i - 1], bans[i])]
              after == CHOOSE f : Steps(f)
  <1>1. n \in Nat /\ <<>> \in Seq(Entries) /\ \A i \in 1..n : bans[i] \in Entries
    OBVIOUS
  <1>2. \A i \in 1..n : \A s \in Seq(Entries) : next(i, s) \in Seq(Entries)
    BY <1>1
  <1>3. PICK f : f \in StepsFrom(n, Seq(Entries), <<>>, step)
    <2>1. step \in [1..n -> [Seq(Entries) -> Seq(Entries)]]
      BY <1>2
    <2>. HIDE DEF step, n
    <2>. QED  BY <1>1, <2>1, StepsDefine
  <1>4. Steps(f)
    <2>1. \A i \in 1..n : \A s \in Seq(Entries) : step[i][s] = next(i, s)
      OBVIOUS
    <2>. HIDE DEF step, n
    <2>2. ASSUME NEW i \in 0..n
          PROVE  f[i] = IF i = 0 THEN <<>>
                        ELSE IF bans[i] \in gone THEN f[i - 1]
                             ELSE Append(f[i - 1], bans[i])
      <3>1. CASE i = 0
        BY <1>3, <3>1 DEF StepsFrom
      <3>2. CASE i # 0
        <4>1. i \in 1..n /\ i - 1 \in 0..n
          BY <1>1, <3>2
        <4>2. f[i] = step[i][f[i - 1]] /\ f[i - 1] \in Seq(Entries)
          BY <1>3, <4>1 DEF StepsFrom
        <4>. QED  BY <2>1, <3>2, <4>1, <4>2
      <3>. QED  BY <3>1, <3>2
    <2>3. f = [i \in 0..n |-> f[i]]
      BY <1>3 DEF StepsFrom
    <2>. QED  BY <2>2, <2>3
  <1>5. Steps(after)
    <2>. HIDE DEF Steps
    <2>. QED  BY <1>4
  <1>6. /\ after[0] = <<>>
        /\ \A i \in 1..n : after[i] = IF bans[i] \in gone THEN after[i - 1]
                                      ELSE Append(after[i - 1], bans[i])
    <2>. HIDE DEF after, n
    <2>1. after[0] = <<>>
      BY <1>1, <1>5
    <2>2. ASSUME NEW i \in 1..n
          PROVE  after[i] = IF bans[i] \in gone THEN after[i - 1]
                            ELSE Append(after[i - 1], bans[i])
      <3>1. i \in 0..n /\ i # 0
        BY <1>1
      <3>. QED  BY <1>5, <3>1
    <2>. QED  BY <2>1, <2>2
  <1>7. Without(bans, gone) = after[n]
    BY DEF Without
  <1>. DEFINE T == {k \in Nat : k <= n => Remains(after[k], bans, k, gone)}
  <1>8. 0 \in T
    <2>1. Places(<<>>, bans, 0) # {}
      <3>1. [i \in {} |-> 0] \in Places(<<>>, bans, 0)
        BY DEF Places
      <3>. QED  BY <3>1
    <2>2. Remains(<<>>, bans, 0, gone)
      BY <2>1 DEF Remains
    <2>. QED  BY <1>6, <2>2
  <1>9. ASSUME NEW k \in Nat, k \in T
        PROVE  k + 1 \in T
    <2>. HIDE DEF after
    <2>1. SUFFICES ASSUME k + 1 <= n
                   PROVE  Remains(after[k + 1], bans, k + 1, gone)
      OBVIOUS
    <2>2. Remains(after[k], bans, k, gone)
      BY <1>1, <1>9, <2>1
    <2>3. after[k + 1] = IF bans[k + 1] \in gone THEN after[k]
                         ELSE Append(after[k], bans[k + 1])
      BY <1>1, <1>6, <2>1
    <2>. QED  BY <2>1, <2>2, <2>3, RemainsSkipped, RemainsKept
  <1>10. Nat \subseteq T
    <2>. HIDE DEF T
    <2>. QED  BY <1>8, <1>9, SetInduction
  <1>. HIDE DEF after
  <1>. QED  BY <1>1, <1>7, <1>10

-----------------------------------------------------------------------------
(* Addresses *)

\* An address has a family and the bits of that family.
LEMMA AddressType ==
    ASSUME BansAssumption, NEW a \in Address
    PROVE  /\ a.type \in DOMAIN Bits
           /\ Bits[a.type] \in Nat \ {0}
           /\ a.ip \in [1..Bits[a.type] -> {0, 1}]
  BY DEF Address, BansAssumption

\* An entry names an address and a subnet of at least one bit.
LEMMA EntryType ==
    ASSUME BansAssumption, NEW e \in Entries
    PROVE  /\ e.ip \in Address
           /\ e.subnet \in 1..Bits[e.ip.type]
           /\ e.isexception \in BOOLEAN
  BY DEF Entries

\* SV_AddBanToList turns any mask it is given into an entry of the list's type:
\* a mask out of range becomes the whole address.
LEMMA NewEntry ==
    ASSUME BansAssumption, NEW isexception \in BOOLEAN, NEW ip \in Address, NEW mask
    PROVE  Entry(ip, mask, isexception) \in Entries
  <1>. DEFINE S(a) == [ip : {a}, subnet : 1..Bits[a.type], isexception : BOOLEAN]
  <1>1. Mask(ip, mask) \in 1..Bits[ip.type]
    BY AddressType DEF Mask
  <1>2. Entry(ip, mask, isexception) \in S(ip)
    BY <1>1 DEF Entry
  <1>. QED  BY <1>2 DEF Entries

\* Two addresses are equal in their first mask bits.
Agree(a, b, mask) == a.type = b.type /\ \A i \in 1..mask : a.ip[i] = b.ip[i]

\* NET_CompareBaseAdrMask compares beginnings of the addresses: bit by bit, they
\* agree.
LEMMA CompareIsAgree ==
    ASSUME BansAssumption, NEW a \in Address, NEW b \in Address,
           NEW mask \in Nat, mask <= Bits[a.type]
    PROVE  NET_CompareBaseAdrMask(a, b, mask) <=> Agree(a, b, mask)
  <1>1. SUFFICES ASSUME a.type = b.type
                 PROVE  SubSeq(a.ip, 1, mask) = SubSeq(b.ip, 1, mask)
                           <=> \A i \in 1..mask : a.ip[i] = b.ip[i]
    BY DEF NET_CompareBaseAdrMask, Agree
  <1>. DEFINE n == Bits[a.type]
              p == a.ip
              q == b.ip
  <1>2. n \in Nat /\ mask <= n /\ p \in [1..n -> {0, 1}] /\ q \in [1..n -> {0, 1}]
    BY <1>1, AddressType
  <1>. HIDE DEF n, p, q
  <1>3. p \in Seq({0, 1}) /\ q \in Seq({0, 1}) /\ Len(p) = n /\ Len(q) = n
    BY <1>2
  <1>4. SubSeq(p, 1, mask) = [i \in 1..mask |-> p[i]]
    BY <1>2, <1>3
  <1>5. SubSeq(q, 1, mask) = [i \in 1..mask |-> q[i]]
    BY <1>2, <1>3
  <1>6. SubSeq(p, 1, mask) = SubSeq(q, 1, mask) <=> \A i \in 1..mask : p[i] = q[i]
    BY <1>4, <1>5
  <1>. QED  BY <1>6 DEF p, q

-----------------------------------------------------------------------------
(* Lists in which no entry is idle *)

NoneIdle(bans) ==
    \A i, j \in DOMAIN bans :
        (i # j /\ Within(bans[i], bans[j])) => bans[i].isexception /\ ~bans[j].isexception

Good(bans) ==
    /\ bans \in Seq(Entries)
    /\ Len(bans) <= SERVER_MAXBANS
    /\ NoneIdle(bans)

\* So is what is left of one.
LEMMA PlacesGood ==
    ASSUME BansAssumption, NEW bans, Good(bans), NEW kept \in Seq(Entries),
           Len(kept) <= Len(bans), Places(kept, bans, Len(bans)) # {}
    PROVE  Good(kept)
  <1>1. PICK at \in Places(kept, bans, Len(bans)) : TRUE
    OBVIOUS
  <1>2. bans \in Seq(Entries) /\ Len(bans) <= SERVER_MAXBANS /\ NoneIdle(bans)
    BY DEF Good
  <1>3. Len(kept) <= SERVER_MAXBANS
    <2>1. Len(kept) \in Nat /\ Len(bans) \in Nat /\ SERVER_MAXBANS \in Nat
      BY <1>2 DEF BansAssumption
    <2>. QED  BY <1>2, <2>1
  <1>4. ASSUME NEW i \in DOMAIN kept, NEW j \in DOMAIN kept, i # j,
               Within(kept[i], kept[j])
        PROVE  kept[i].isexception /\ ~kept[j].isexception
    <2>1. /\ at[i] \in DOMAIN bans /\ at[j] \in DOMAIN bans /\ at[i] # at[j]
          /\ kept[i] = bans[at[i]] /\ kept[j] = bans[at[j]]
      BY <1>1, <1>2, <1>4 DEF Places
    <2>. QED  BY <1>2, <1>4, <2>1 DEF NoneIdle
  <1>. QED  BY <1>3, <1>4 DEF Good, NoneIdle

\* Removing any set of entries from a good list leaves a good list: no entry
\* becomes superseded by one that stays.
LEMMA WithoutGood ==
    ASSUME BansAssumption, NEW bans, Good(bans), NEW gone
    PROVE  Good(Without(bans, gone))
  <1>1. Remains(Without(bans, gone), bans, Len(bans), gone)
    BY WithoutRemains DEF Good
  <1>. QED  BY <1>1, PlacesGood DEF Remains

\* A beginning of a good list is good, as after a file is read in part.
LEMMA PrefixGood ==
    ASSUME BansAssumption, NEW bans, Good(bans), NEW k \in 0..Len(bans)
    PROVE  Good(SubSeq(bans, 1, k))
  <1>. DEFINE kept == SubSeq(bans, 1, k)
              at == [i \in 1..k |-> i]
  <1>1. bans \in Seq(Entries) /\ Len(bans) \in Nat /\ k \in Nat /\ k <= Len(bans)
    BY DEF Good
  <1>2. /\ kept \in Seq(Entries) /\ Len(kept) = k /\ DOMAIN kept = 1..k
        /\ \A i \in 1..k : kept[i] = bans[i]
    BY <1>1
  <1>. HIDE DEF kept
  <1>3. at \in Places(kept, bans, Len(bans))
    BY <1>1, <1>2 DEF Places
  <1>4. Good(kept)
    BY <1>1, <1>2, <1>3, PlacesGood
  <1>. QED  BY <1>4 DEF kept

\* Removing one entry by its place, as bandel with a number does, leaves a good
\* list.
LEMMA WithoutAtGood ==
    ASSUME BansAssumption, NEW bans, Good(bans), NEW k \in DOMAIN bans
    PROVE  Good(WithoutAt(bans, k))
  <1>. DEFINE kept == WithoutAt(bans, k)
              n == Len(bans)
              at == [i \in 1..(n - 1) |-> IF i < k THEN i ELSE i + 1]
              before == SubSeq(bans, 1, k - 1)
              after == SubSeq(bans, k + 1, n)
  <1>1. bans \in Seq(Entries) /\ n \in Nat /\ k \in 1..n /\ DOMAIN bans = 1..n
    BY DEF Good
  <1>. HIDE DEF n
  <1>2. /\ before \in Seq(Entries) /\ Len(before) = k - 1
        /\ \A i \in 1..(k - 1) : before[i] = bans[i]
    BY <1>1 DEF n
  <1>3. /\ after \in Seq(Entries) /\ Len(after) = n - k
        /\ \A i \in 1..(n - k) : after[i] = bans[k + i]
    BY <1>1 DEF n
  <1>4. kept = before \o after
    BY DEF WithoutAt, n
  <1>. HIDE DEF before, after, kept
  <1>5. kept \in Seq(Entries) /\ Len(kept) = n - 1
    <2>1. before \in Seq(Entries) /\ after \in Seq(Entries)
      BY <1>2, <1>3
    <2>2. kept \in Seq(Entries)
      BY <1>4, <2>1
    <2>3. Len(kept) = Len(before) + Len(after)
      BY <1>4, <2>1
    <2>. QED  BY <1>1, <1>2, <1>3, <2>2, <2>3
  <1>6. \A i \in 1..(n - 1) : kept[i] = bans[at[i]]
    <2>1. ASSUME NEW i \in 1..(n - 1), i < k
          PROVE  kept[i] = bans[i]
      BY <1>1, <1>2, <1>3, <1>4, <2>1
    <2>2. ASSUME NEW i \in 1..(n - 1), i >= k
          PROVE  kept[i] = bans[i + 1]
      <3>1. kept[i] = after[i - (k - 1)]
        BY <1>1, <1>2, <1>3, <1>4, <2>2
      <3>2. i - (k - 1) \in 1..(n - k) /\ k + (i - (k - 1)) = i + 1
        BY <1>1, <2>2
      <3>. QED  BY <1>3, <3>1, <3>2
    <2>. QED  BY <1>1, <2>1, <2>2
  <1>7. at \in [1..(n - 1) -> 1..n] /\ \A i, j \in 1..(n - 1) : at[i] = at[j] => i = j
    BY <1>1
  <1>. HIDE DEF at
  <1>8. at \in Places(kept, bans, n)
    BY <1>5, <1>6, <1>7 DEF Places
  <1>9. Good(kept)
    <2>1. Len(kept) <= n
      BY <1>1, <1>5
    <2>. QED  BY <1>5, <1>8, <2>1, PlacesGood DEF n
  <1>. QED  BY <1>9 DEF kept

\* An entry neither kept away by one of the list nor replacing one is idle
\* only as an exception from a ban, and makes only an exception from it idle.
LEMMA NewNotIdle ==
    ASSUME BansAssumption, NEW e \in Entries, NEW new \in Entries,
           ~Conflicts(e, new), ~Superseded(e, new)
    PROVE  /\ Within(e, new) => e.isexception /\ ~new.isexception
           /\ Within(new, e) => new.isexception /\ ~e.isexception
  <1>1. /\ e.ip \in Address /\ e.subnet \in Nat /\ e.subnet <= Bits[e.ip.type]
        /\ new.ip \in Address /\ new.subnet \in Nat /\ new.subnet <= Bits[new.ip.type]
    <2>1. Bits[e.ip.type] \in Nat /\ Bits[new.ip.type] \in Nat
      BY EntryType, AddressType
    <2>. QED  BY <2>1, EntryType
  <1>2. ASSUME Within(e, new)
        PROVE  e.isexception /\ ~new.isexception
    <2>1. e.subnet = new.subnet => NET_CompareBaseAdrMask(e.ip, new.ip, e.subnet)
      BY <1>2 DEF Within
    <2>. QED  BY <1>1, <1>2, <2>1, EntryType DEF Within, Conflicts, Superseded
  <1>3. ASSUME Within(new, e)
        PROVE  new.isexception /\ ~e.isexception
    <2>1. NET_CompareBaseAdrMask(e.ip, new.ip, e.subnet)
      <3>1. NET_CompareBaseAdrMask(new.ip, e.ip, e.subnet)
        BY <1>3 DEF Within
      <3>. QED  BY <3>1 DEF NET_CompareBaseAdrMask
    <2>. QED  BY <1>1, <1>3, <2>1, EntryType DEF Within, Conflicts
  <1>. QED  BY <1>2, <1>3

\* An entry that conflicts with none of a good list, added after those it
\* supersedes are removed, gives a good list: the whole of SV_AddBanToList's
\* two loops.
LEMMA AddedGood ==
    ASSUME BansAssumption, NEW bans, Good(bans), Len(bans) < SERVER_MAXBANS,
           NEW new \in Entries,
           \A i \in DOMAIN bans : ~Conflicts(bans[i], new)
    PROVE  Good(Append(Without(bans, {e \in Entries : Superseded(e, new)}), new))
  <1>. DEFINE gone == {e \in Entries : Superseded(e, new)}
              kept == Without(bans, gone)
              n == Len(kept)
              added == Append(kept, new)
  <1>1. Good(kept) /\ Remains(kept, bans, Len(bans), gone)
    BY WithoutGood, WithoutRemains DEF Good
  <1>. HIDE DEF gone, kept
  <1>2. /\ kept \in Seq(Entries) /\ n \in Nat /\ n <= Len(bans)
        /\ bans \in Seq(Entries) /\ DOMAIN kept = 1..n
    BY <1>1 DEF Good, Remains
  <1>. HIDE DEF n
  <1>3. /\ added \in Seq(Entries) /\ Len(added) = n + 1 /\ DOMAIN added = 1..(n + 1)
        /\ \A i \in 1..n : added[i] = kept[i]
        /\ added[n + 1] = new
    BY <1>2 DEF n
  <1>4. ASSUME NEW i \in 1..n
        PROVE  kept[i] \in Entries /\ ~Conflicts(kept[i], new) /\ ~Superseded(kept[i], new)
    <2>1. kept[i] \in Entries /\ kept[i] \notin gone
      BY <1>1, <1>2 DEF Remains
    <2>2. PICK at \in Places(kept, bans, Len(bans)) : TRUE
      BY <1>1 DEF Remains
    <2>3. i \in DOMAIN kept /\ DOMAIN bans = 1..Len(bans)
      BY <1>2
    <2>4. at[i] \in DOMAIN bans /\ kept[i] = bans[at[i]]
      BY <2>2, <2>3 DEF Places
    <2>. QED  BY <2>1, <2>4 DEF gone
  <1>. HIDE DEF added
  <1>5. Len(added) <= SERVER_MAXBANS
    <2>1. Len(bans) \in Nat /\ SERVER_MAXBANS \in Nat
      BY <1>2 DEF BansAssumption
    <2>. QED  BY <1>2, <1>3, <2>1
  <1>6. ASSUME NEW i \in 1..(n + 1), NEW j \in 1..(n + 1), i # j,
               Within(added[i], added[j])
        PROVE  added[i].isexception /\ ~added[j].isexception
    <2>1. CASE i \in 1..n /\ j \in 1..n
      BY <1>1, <1>2, <1>3, <1>6, <2>1 DEF Good, NoneIdle
    <2>2. CASE i \in 1..n /\ j = n + 1
      <3>1. added[i] = kept[i] /\ added[j] = new
        BY <1>3, <2>2
      <3>. QED  BY <1>4, <1>6, <2>2, <3>1, NewNotIdle
    <2>3. CASE j \in 1..n /\ i = n + 1
      <3>1. added[j] = kept[j] /\ added[i] = new
        BY <1>3, <2>3
      <3>. QED  BY <1>4, <1>6, <2>3, <3>1, NewNotIdle
    <2>. QED  BY <1>2, <1>6, <2>1, <2>2, <2>3
  <1>7. Good(added)
    BY <1>3, <1>5, <1>6 DEF Good, NoneIdle
  <1>. QED  BY <1>7 DEF added, kept, gone

-----------------------------------------------------------------------------
(* The inductive invariant *)

\* The list and the file are good, and so every command and every reading of
\* the file leaves them.
IInv ==
    /\ server \in {"down", "starting", "idle", "running"}
    /\ faults \in 0..MaxFaults
    /\ Good(serverBans)
    /\ Good(file)

\* The empty list is good.
LEMMA EmptyGood ==
    ASSUME BansAssumption
    PROVE  Good(<<>>)
  BY DEF Good, NoneIdle, BansAssumption

\* A change to a good list keeps the invariant, whether its file is written or
\* not.
LEMMA ChangeInv ==
    ASSUME BansAssumption, IInv, NEW bans, Good(bans), Change(bans)
    PROVE  IInv'
  <1>1. server' \in {"down", "starting", "idle", "running"}
    BY DEF IInv, Change
  <1>2. faults' \in 0..MaxFaults
    BY DEF IInv, Change, SV_WriteBans, Fault, BansAssumption
  <1>3. Good(serverBans')
    BY EmptyGood DEF Change
  <1>4. Good(file')
    BY PrefixGood DEF IInv, Change, SV_WriteBans
  <1>. QED  BY <1>1, <1>2, <1>3, <1>4 DEF IInv

\* banaddr and exceptaddr keep the invariant, whatever the arguments.
LEMMA AddBanInv ==
    ASSUME BansAssumption, IInv, NEW isexception \in BOOLEAN, NEW ip \in Address,
           NEW mask, SV_AddBanToList(isexception, ip, mask)
    PROVE  IInv'
  <1>. DEFINE new == Entry(ip, mask, isexception)
              bans == Append(Without(serverBans, {e \in Entries : Superseded(e, new)}), new)
  <1>1. new \in Entries
    BY NewEntry
  <1>2. /\ Len(serverBans) < SERVER_MAXBANS
        /\ \A i \in DOMAIN serverBans : ~Conflicts(serverBans[i], new)
        /\ Change(bans)
    BY DEF SV_AddBanToList
  <1>. HIDE DEF new
  <1>3. Good(bans)
    BY <1>1, <1>2, AddedGood DEF IInv
  <1>. HIDE DEF bans
  <1>. QED  BY <1>2, <1>3, ChangeInv

\* bandel and exceptdel keep the invariant, by number and by range.
LEMMA DelBanInv ==
    ASSUME BansAssumption, IInv, NEW isexception \in BOOLEAN,
           SV_DelBanFromList(isexception)
    PROVE  IInv'
  <1>1. ASSUME NEW gone, Change(Without(serverBans, gone))
        PROVE  IInv'
    BY <1>1, WithoutGood, ChangeInv DEF IInv
  <1>2. ASSUME NEW ip \in Address, NEW mask \in Masks(ip),
               DelWithin(isexception, ip, mask)
        PROVE  IInv'
    BY <1>1, <1>2 DEF DelWithin
  <1>3. ASSUME NEW todel \in 1..SERVER_MAXBANS, DelNumber(isexception, todel)
        PROVE  IInv'
    <2>1. PICK chosen \in SUBSET DOMAIN serverBans :
             Change(IF chosen = {} THEN serverBans
                    ELSE WithoutAt(serverBans, CHOOSE i \in chosen : TRUE))
      BY <1>3 DEF DelNumber
    <2>2. CASE chosen = {}
      BY <2>1, <2>2, ChangeInv DEF IInv
    <2>3. CASE chosen # {}
      <3>1. PICK k \in DOMAIN serverBans : Change(WithoutAt(serverBans, k))
        BY <2>1, <2>3
      <3>. QED  BY <3>1, WithoutAtGood, ChangeInv DEF IInv
    <2>. QED  BY <2>2, <2>3
  <1>. QED  BY <1>2, <1>3 DEF SV_DelBanFromList

\* The server starts without bans.
LEMMA InitInv ==
    ASSUME BansAssumption, Init
    PROVE  IInv
  BY EmptyGood DEF Init, IInv, BansAssumption

\* Every command, restart and failure keeps the invariant.
LEMMA StepInv ==
    ASSUME BansAssumption, IInv, [Next]_vars
    PROVE  IInv'
  <1>1. ASSUME NEW isexception \in BOOLEAN, NEW ip \in Address,
               NEW mask \in Masks(ip), SV_AddBanToList(isexception, ip, mask)
        PROVE  IInv'
    BY <1>1, AddBanInv
  <1>2. ASSUME NEW isexception \in BOOLEAN, SV_DelBanFromList(isexception)
        PROVE  IInv'
    BY <1>2, DelBanInv
  <1>3. CASE SV_FlushBans_f
    BY <1>3, EmptyGood, ChangeInv DEF SV_FlushBans_f
  <1>4. CASE SV_RehashBans_f
    BY <1>4, EmptyGood DEF SV_RehashBans_f, IInv
  <1>5. CASE SV_Init \/ SV_SpawnServer \/ SV_Shutdown \/ Quit
    BY <1>5, EmptyGood DEF SV_Init, SV_SpawnServer, SV_Shutdown, Quit, IInv
  <1>6. CASE UNCHANGED vars
    BY <1>6 DEF vars, IInv
  <1>. QED  BY <1>1, <1>2, <1>3, <1>4, <1>5, <1>6 DEF Next

\* The list and the file are always good.
LEMMA Invariant == Spec => []IInv
  BY InitInv, StepInv, BansAssumption, PTL DEF Spec

\* Every variable has its type: neither the list nor the file has more entries
\* than the server's array.
THEOREM TypeCorrect == Spec => []TypeOK
  <1>1. IInv => TypeOK
    BY DEF IInv, Good, TypeOK
  <1>. QED  BY <1>1, Invariant, PTL

\* Whatever is added, deleted, cut off by a crash or loaded again, one entry
\* lies within another only as an exception from a ban (SV_AddBanToList).
THEOREM NoEntryIdle == Spec => []NothingIdle
  <1>1. IInv => NothingIdle
    BY DEF IInv, Good, NoneIdle, NothingIdle
  <1>. QED  BY <1>1, Invariant, PTL

-----------------------------------------------------------------------------
(* Who is banned *)

\* An address of an entry within a subnet is in the subnet.
LEMMA InsideOfWithin ==
    ASSUME BansAssumption, NEW e \in Entries, NEW ip \in Address,
           NEW mask \in 1..Bits[ip.type], e.subnet >= mask,
           NET_CompareBaseAdrMask(e.ip, ip, mask),
           NEW a \in Address, NET_CompareBaseAdrMask(e.ip, a, e.subnet)
    PROVE  NET_CompareBaseAdrMask(a, ip, mask)
  <1>1. /\ e.ip \in Address /\ e.subnet \in Nat /\ e.subnet <= Bits[e.ip.type]
        /\ mask \in Nat /\ mask <= Bits[ip.type]
    <2>1. Bits[e.ip.type] \in Nat /\ Bits[ip.type] \in Nat
      BY EntryType, AddressType
    <2>. QED  BY <2>1, EntryType
  <1>2. e.ip.type = ip.type /\ e.ip.type = a.type
    BY DEF NET_CompareBaseAdrMask
  <1>3. Agree(e.ip, ip, mask)
    BY <1>1, <1>2, CompareIsAgree
  <1>4. Agree(e.ip, a, e.subnet)
    BY <1>1, CompareIsAgree
  <1>5. Agree(a, ip, mask)
    BY <1>1, <1>3, <1>4 DEF Agree
  <1>. QED  BY <1>1, <1>2, <1>5, CompareIsAgree

\* An address is an entry's still unless the entry was taken out.
LEMMA WithoutLists ==
    ASSUME NEW bans \in Seq(Entries), NEW gone, NEW a, NEW isexception,
           \A e \in Entries \cap gone :
               ~(e.isexception = isexception /\ NET_CompareBaseAdrMask(e.ip, a, e.subnet))
    PROVE  Listed(Without(bans, gone), a, isexception) <=> Listed(bans, a, isexception)
  <1>. DEFINE kept == Without(bans, gone)
              lists(e) == /\ e.isexception = isexception
                          /\ NET_CompareBaseAdrMask(e.ip, a, e.subnet)
  <1>1. Remains(kept, bans, Len(bans), gone)
    BY WithoutRemains
  <1>2. DOMAIN bans = 1..Len(bans) /\ \A i \in DOMAIN bans : bans[i] \in Entries
    OBVIOUS
  <1>. HIDE DEF kept
  <1>3. PICK at \in Places(kept, bans, Len(bans)) : TRUE
    BY <1>1 DEF Remains
  <1>4. ASSUME NEW i \in DOMAIN kept, lists(kept[i])
        PROVE  Listed(bans, a, isexception)
    <2>1. at[i] \in DOMAIN bans /\ kept[i] = bans[at[i]]
      BY <1>2, <1>3 DEF Places
    <2>. QED  BY <1>4, <2>1 DEF Listed
  <1>5. ASSUME NEW j \in DOMAIN bans, lists(bans[j])
        PROVE  Listed(kept, a, isexception)
    <2>1. bans[j] \notin gone
      BY <1>2, <1>5
    <2>2. PICK i \in DOMAIN kept : kept[i] = bans[j]
      BY <1>1, <1>2, <2>1 DEF Remains
    <2>. QED  BY <1>5, <2>2 DEF Listed
  <1>. QED  BY <1>4, <1>5 DEF Listed, kept

\* An entry added to a list lists an address exactly if it did before or the
\* new entry matches it.
LEMMA AppendLists ==
    ASSUME NEW bans \in Seq(Entries), NEW new \in Entries, NEW a, NEW isexception
    PROVE  Listed(Append(bans, new), a, isexception)
              <=> \/ Listed(bans, a, isexception)
                  \/ /\ new.isexception = isexception
                     /\ NET_CompareBaseAdrMask(new.ip, a, new.subnet)
  <1>. DEFINE added == Append(bans, new)
              n == Len(bans)
  <1>1. /\ n \in Nat /\ DOMAIN bans = 1..n /\ DOMAIN added = 1..(n + 1)
        /\ \A i \in 1..n : added[i] = bans[i]
        /\ added[n + 1] = new
    OBVIOUS
  <1>. HIDE DEF added, n
  <1>2. \A i : i \in 1..(n + 1) <=> i \in 1..n \/ i = n + 1
    BY <1>1
  <1>3. Listed(added, a, isexception)
              <=> \/ Listed(bans, a, isexception)
                  \/ /\ new.isexception = isexception
                     /\ NET_CompareBaseAdrMask(new.ip, a, new.subnet)
    BY <1>1, <1>2 DEF Listed
  <1>. QED  BY <1>3 DEF added

\* What an addition leaves of the list and adds to it.
LEMMA AddedLists ==
    ASSUME BansAssumption, IInv, NEW isexception \in BOOLEAN, NEW ip \in Address,
           NEW mask \in 1..Bits[ip.type], SV_AddBanToList(isexception, ip, mask),
           server' = "running", NEW a \in Address
    PROVE  SV_IsBanned(serverBans', a) =
              IF ~NET_CompareBaseAdrMask(a, ip, mask) THEN SV_IsBanned(serverBans, a)
              ELSE ~isexception /\ ~Listed(serverBans, a, TRUE)
  <1>. DEFINE new == Entry(ip, mask, isexception)
              gone == {e \in Entries : Superseded(e, new)}
              kept == Without(serverBans, gone)
              inside == NET_CompareBaseAdrMask(a, ip, mask)
  <1>1. /\ new \in Entries
        /\ new.ip = ip /\ new.subnet = mask /\ new.isexception = isexception
    BY NewEntry DEF Entry, Mask
  <1>2. serverBans' = Append(kept, new)
    BY DEF SV_AddBanToList, Change
  <1>3. serverBans \in Seq(Entries) /\ kept \in Seq(Entries)
    BY WithoutRemains DEF IInv, Good, Remains
  <1>. HIDE DEF new
  <1>4. NET_CompareBaseAdrMask(new.ip, a, new.subnet) <=> inside
    BY <1>1 DEF NET_CompareBaseAdrMask
  <1>5. \A e \in gone : \A x \in BOOLEAN :
            (e.isexception = x /\ NET_CompareBaseAdrMask(e.ip, a, e.subnet))
               => inside /\ (x => isexception)
    <2>1. SUFFICES ASSUME NEW e \in gone, NET_CompareBaseAdrMask(e.ip, a, e.subnet)
                   PROVE  inside /\ (e.isexception => isexception)
      OBVIOUS
    <2>2. /\ e \in Entries /\ e.subnet > mask
          /\ ~e.isexception \/ isexception
          /\ NET_CompareBaseAdrMask(e.ip, ip, mask)
      BY <1>1 DEF Superseded
    <2>3. e.subnet >= mask
      <3>1. Bits[e.ip.type] \in Nat /\ Bits[ip.type] \in Nat
        BY <2>2, EntryType, AddressType
      <3>. QED  BY <2>2, <3>1, EntryType
    <2>4. inside
      BY <2>1, <2>2, <2>3, InsideOfWithin
    <2>. QED  BY <2>2, <2>4
  <1>. HIDE DEF kept, gone, inside
  <1>6. \A x \in BOOLEAN :
            Listed(serverBans', a, x) <=> Listed(kept, a, x) \/ (isexception = x /\ inside)
    BY <1>1, <1>2, <1>3, <1>4, AppendLists
  <1>7. ASSUME NEW x \in BOOLEAN, ~inside \/ (x /\ ~isexception)
        PROVE  Listed(kept, a, x) <=> Listed(serverBans, a, x)
    BY <1>3, <1>5, <1>7, WithoutLists DEF kept
  <1>8. CASE ~inside
    <2>1. \A x \in BOOLEAN : Listed(serverBans', a, x) <=> Listed(serverBans, a, x)
      BY <1>6, <1>7, <1>8
    <2>. QED  BY <1>8, <2>1 DEF SV_IsBanned, inside
  <1>9. CASE inside
    <2>1. CASE isexception
      <3>1. Listed(serverBans', a, TRUE)
        BY <1>6, <1>9, <2>1
      <3>. QED  BY <1>9, <2>1, <3>1 DEF SV_IsBanned, inside
    <2>2. CASE ~isexception
      <3>1. Listed(serverBans', a, FALSE)
        BY <1>6, <1>9, <2>2
      <3>2. Listed(serverBans', a, TRUE) <=> Listed(serverBans, a, TRUE)
        BY <1>6, <1>7, <2>2
      <3>. QED  BY <1>9, <2>2, <3>1, <3>2 DEF SV_IsBanned, inside
    <2>. QED  BY <2>1, <2>2
  <1>. QED  BY <1>8, <1>9

\* What a deletion leaves of it.
LEMMA DeletedLists ==
    ASSUME BansAssumption, IInv, NEW isexception \in BOOLEAN, NEW ip \in Address,
           NEW mask \in 1..Bits[ip.type], DelWithin(isexception, ip, mask),
           server' = "running", NEW a \in Address, ~NET_CompareBaseAdrMask(a, ip, mask)
    PROVE  SV_IsBanned(serverBans', a) = SV_IsBanned(serverBans, a)
  <1>. DEFINE gone == {e \in Entries : /\ e.isexception = isexception
                                        /\ e.subnet >= mask
                                        /\ NET_CompareBaseAdrMask(e.ip, ip, mask)}
  <1>1. serverBans' = Without(serverBans, gone)
    BY DEF DelWithin, Change, Mask
  <1>2. serverBans \in Seq(Entries)
    BY DEF IInv, Good
  <1>3. \A e \in gone : ~NET_CompareBaseAdrMask(e.ip, a, e.subnet)
    BY InsideOfWithin
  <1>. HIDE DEF gone
  <1>4. \A x \in BOOLEAN : Listed(serverBans', a, x) <=> Listed(serverBans, a, x)
    BY <1>1, <1>2, <1>3, WithoutLists
  <1>. QED  BY <1>4 DEF SV_IsBanned

\* A ban that is added refuses all its addresses but those excepted before, an
\* exception lets all of its in, and neither changes anything for another
\* address; a deletion changes nothing outside of what it names (SV_IsBanned,
\* SV_AddBanToList, SV_DelBanFromList).
THEOREM ListMeansWhatWasSaid == Spec => CommandsDoWhatTheySay
  <1>. DEFINE A ==
         server' = "running" =>
           \A isexception \in BOOLEAN : \A ip \in Address : \A mask \in 1..Bits[ip.type] :
              LET inside(a) == NET_CompareBaseAdrMask(a, ip, mask)
              IN  /\ SV_AddBanToList(isexception, ip, mask) =>
                        \A a \in Address :
                           SV_IsBanned(serverBans', a) =
                              IF ~inside(a) THEN SV_IsBanned(serverBans, a)
                              ELSE ~isexception /\ ~Listed(serverBans, a, TRUE)
                  /\ DelWithin(isexception, ip, mask) =>
                        \A a \in Address : ~inside(a) =>
                           SV_IsBanned(serverBans', a) = SV_IsBanned(serverBans, a)
  <1>1. IInv => A
    BY AddedLists, DeletedLists, BansAssumption
  <1>2. IInv /\ [Next]_vars => [A]_vars
    BY <1>1
  <1>. QED  BY <1>2, Invariant, PTL DEF Spec, CommandsDoWhatTheySay
=============================================================================
