------------------------ MODULE RateLimitProofs ------------------------
(***************************************************************************)
(* Proofs about RateLimit, for any addresses and hash function, any size   *)
(* of the table, any burst and period, and any width of the clock.         *)
(***************************************************************************)
EXTENDS RateLimit, FiniteSetTheorems, TLAPS

-----------------------------------------------------------------------------
(* The inductive invariant *)

\* Ticks since the start, of a time not later than now.
Clock(t) == IF t >= 0 THEN t ELSE t + 2 * (IntMax + 1)
Age(t) == Clock(now) - Clock(t)

\* The chain of hash h has the n buckets of s: each leads to the next one and
\* back, and they are those of the addresses with that hash.
List(t, h, n, s) ==
    /\ s \in [1..n -> Bucket]
    /\ \A j, k \in 1..n : s[j] = s[k] => j = k
    /\ t.hashes[h] = IF n = 0 THEN Null ELSE s[1]
    /\ \A k \in 1..n :
          /\ t.buckets[s[k]].next = IF k = n THEN Null ELSE s[k + 1]
          /\ t.buckets[s[k]].prev = IF k = 1 THEN Null ELSE s[k - 1]
    /\ \A b \in Bucket :
          (\E k \in 1..n : s[k] = b) <=>
              /\ t.buckets[b].address # NA_BAD
              /\ Hash(t.buckets[b].address) = h

Hashes == 0..(MAX_HASHES - 1)

Tables ==
    [buckets : [Bucket -> LeakyBucket], hashes : [Hashes -> Bucket \cup {Null}]]

\* Every hash has such a chain; a bucket without an address is clear, one with
\* an address has its hash, and no other bucket has the address.
SoundTable(t) ==
    /\ t \in Tables
    /\ \A h \in Hashes : \E n \in Nat : \E s : List(t, h, n, s)
    /\ \A b \in Bucket :
          IF t.buckets[b].address = NA_BAD THEN t.buckets[b] = Cleared
          ELSE t.buckets[b].hash = Hash(t.buckets[b].address)
    /\ \A b, c \in Bucket :
          t.buckets[b].address = t.buckets[c].address
          => b = c \/ t.buckets[b].address = NA_BAD

\* Of what was let through in the last t ticks, all but the bucket's level has
\* run out since, one in each period until the bucket's time, of that age.
Fits(recent, level, age, period) ==
    \A t \in 0..Window :
        recent[t] = 0 \/ period * (recent[t] - level) <= t - age + period - 1

\* An address's requests fit its bucket, or an empty one of now if it has
\* none; a bucket's time is not later than its last use.
AddressesFit ==
    /\ \A b \in Bucket :
          buckets[b].address # NA_BAD =>
              /\ used[b] <= Age(buckets[b].lastTime)
              /\ Fits(admitted[buckets[b].address], buckets[b].burst,
                      Age(buckets[b].lastTime), Period)
    /\ \A a \in Address :
          (\A b \in Bucket : buckets[b].address # a)
          => Fits(admitted[a], 0, 0, Period)

RepliesFit ==
    /\ 0 <= Age(outboundLeakyBucket.lastTime)
    /\ Fits(replies, outboundLeakyBucket.burst,
            Age(outboundLeakyBucket.lastTime), OutPeriod)

IInv == TypeOK /\ SoundTable(Table) /\ AddressesFit /\ RepliesFit

-----------------------------------------------------------------------------
(* Naturals *)

\* A set of naturals that is not empty has a least element: the intervals up
\* to its elements have one that no other is strictly included in.
LEMMA LeastNatural ==
    ASSUME NEW T, T \subseteq Nat, T # {}
    PROVE  Min(T) \in T /\ \A y \in T : Min(T) <= y
  <1>. DEFINE I == {0..x : x \in T}
  <1>1. I \subseteq FiniteSubsetsOf(Nat)
    <2>1. \A x \in T : IsFiniteSet(0..x) /\ 0..x \subseteq Nat
      BY FS_Interval
    <2>. QED  BY <2>1 DEF FiniteSubsetsOf
  <1>2. I # {}
    OBVIOUS
  <1>3. PICK s \in I : \A t \in I : <<t, s>> \notin StrictSubsetOrdering(Nat)
    <2>. HIDE DEF I
    <2>. QED  BY <1>1, <1>2, FS_StrictSubsetOrderingWellFounded, WFMin
  <1>4. PICK x \in T : s = 0..x
    BY <1>3
  <1>5. ASSUME NEW y \in T
        PROVE  x <= y
    <2>1. <<0..y, 0..x>> \notin StrictSubsetOrdering(Nat)
      BY <1>3, <1>4
    <2>2. ~(0..y \subseteq 0..x /\ 0..y # 0..x)
      BY <2>1 DEF StrictSubsetOrdering
    <2>3. y < x => 0..y \subseteq 0..x /\ x \in 0..x /\ x \notin 0..y
      OBVIOUS
    <2>4. y < x => 0..y # 0..x
      BY <2>3, Zenon
    <2>. QED  BY <2>2, <2>3, <2>4
  <1>. QED  BY <1>5 DEF Min

\* No more different buckets than there are.
LEMMA ChainLength ==
    ASSUME NEW n \in Nat, NEW s \in [1..n -> Bucket],
           \A j, k \in 1..n : s[j] = s[k] => j = k
    PROVE  n <= MAX_BUCKETS
  <1>1. MAX_BUCKETS \in Nat
    BY RateLimitAssumption
  <1>2. /\ IsFiniteSet(Bucket) /\ Cardinality(Bucket) = MAX_BUCKETS
        /\ IsFiniteSet(1..n) /\ Cardinality(1..n) = n
    BY <1>1, FS_Interval DEF Bucket
  <1>3. s \in Injection(1..n, Bucket)
    BY DEF Injection, IsInjective
  <1>. QED  BY <1>2, <1>3, FS_Injection

-----------------------------------------------------------------------------
(* Time *)

\* A remainder, of a number at most one divisor off.
LEMMA Remainders ==
    ASSUME NEW m \in Nat \ {0}, NEW x \in Int
    PROVE  /\ x \in 0..(m - 1) => x % m = x
           /\ x \in -m..-1 => x % m = x + m
           /\ x \in m..(2 * m - 1) => x % m = x - m
  <1>. DEFINE q == x \div m
              r == x % m
  <1>1. q \in Int /\ r \in 0..(m - 1) /\ x = m * q + r
    OBVIOUS
  <1>. HIDE DEF q, r
  <1>2. q >= 2 => m * q >= 2 * m
    <2>1. m * (q - 2) = m * q - 2 * m
      BY <1>1
    <2>2. q >= 2 => m * (q - 2) >= 0
      BY <1>1
    <2>. QED  BY <1>1, <2>1, <2>2
  <1>3. q <= -2 => m * q <= -2 * m
    <2>1. m * (-2 - q) = -2 * m - m * q
      BY <1>1
    <2>2. q <= -2 => m * (-2 - q) >= 0
      BY <1>1
    <2>. QED  BY <1>1, <2>1, <2>2
  <1>4. q = 0 => m * q = 0
    OBVIOUS
  <1>5. q = 1 => m * q = m
    OBVIOUS
  <1>6. q = -1 => m * q = -m
    OBVIOUS
  <1>7. m * q \in Int
    BY <1>1
  <1>8. x \in 0..(m - 1) => r = x
    BY <1>1, <1>2, <1>3, <1>4, <1>5, <1>6, <1>7
  <1>9. x \in -m..-1 => r = x + m
    BY <1>1, <1>2, <1>3, <1>4, <1>5, <1>6, <1>7
  <1>10. x \in m..(2 * m - 1) => r = x - m
    BY <1>1, <1>2, <1>3, <1>4, <1>5, <1>6, <1>7
  <1>. QED  BY <1>8, <1>9, <1>10 DEF r

\* The clock of a time is between 0 and the last tick before it is 0 again.
LEMMA ClockRange ==
    ASSUME NEW t \in Time
    PROVE  Clock(t) \in 0..(2 * IntMax + 1)
  BY RateLimitAssumption DEF Clock, Time, IntMin

\* The difference of two times, the first not before the second: their
\* distance, or negative if that is no int.
LEMMA WrapInterval ==
    ASSUME NEW t \in Time, NEW u \in Time, Clock(u) <= Clock(t)
    PROVE  LET e == Clock(t) - Clock(u)
           IN  Wrap(t - u) = IF e <= IntMax THEN e ELSE e - 2 * (IntMax + 1)
  <1>. DEFINE m == 2 * (IntMax + 1)
              x == (t - u) - IntMin
              e == Clock(t) - Clock(u)
  <1>1. /\ IntMax \in Nat /\ m \in Nat \ {0} /\ x \in Int /\ e \in Int
        /\ t \in Int /\ u \in Int
        /\ -IntMax - 1 <= t /\ t <= IntMax /\ -IntMax - 1 <= u /\ u <= IntMax
        /\ x = t - u + IntMax + 1
    BY RateLimitAssumption DEF Time, IntMin, Clock
  <1>2. Wrap(t - u) = (x % m) - IntMax - 1
    BY <1>1 DEF Wrap, IntMin
  <1>3. e = (IF t >= 0 THEN t ELSE t + m) - (IF u >= 0 THEN u ELSE u + m)
    BY DEF Clock
  <1>4. e >= 0
    BY <1>1, ClockRange
  <1>5. /\ x \in 0..(m - 1) => x % m = x
        /\ x \in -m..-1 => x % m = x + m
        /\ x \in m..(2 * m - 1) => x % m = x - m
    <2>. HIDE DEF m, x
    <2>. QED  BY <1>1, Remainders
  <1>. QED  BY <1>1, <1>2, <1>3, <1>4, <1>5

\* The time some ticks before.
LEMMA WrapBack ==
    ASSUME NEW t \in Time, NEW d \in 0..Clock(t)
    PROVE  Wrap(t - d) \in Time /\ Clock(Wrap(t - d)) = Clock(t) - d
  <1>. DEFINE m == 2 * (IntMax + 1)
              x == (t - d) - IntMin
  <1>1. /\ IntMax \in Nat /\ m \in Nat \ {0} /\ x \in Int
        /\ t \in Int /\ -IntMax - 1 <= t /\ t <= IntMax
        /\ x = t - d + IntMax + 1
        /\ d \in Nat /\ d <= IF t >= 0 THEN t ELSE t + m
    BY RateLimitAssumption, ClockRange DEF Time, IntMin, Clock
  <1>2. Wrap(t - d) = (x % m) - IntMax - 1
    BY <1>1 DEF Wrap, IntMin
  <1>3. /\ x \in 0..(m - 1) => x % m = x
        /\ x \in -m..-1 => x % m = x + m
    <2>. HIDE DEF m, x
    <2>. QED  BY <1>1, Remainders
  <1>4. CASE x >= 0
    <2>1. Wrap(t - d) = t - d
      <3>1. x \in 0..(m - 1)
        BY <1>1, <1>4
      <3>2. x % m = x
        BY <1>3, <3>1
      <3>. HIDE DEF m
      <3>. QED  BY <1>1, <1>2, <3>2
    <2>. QED  BY <1>1, <1>4, <2>1 DEF Time, IntMin, Clock
  <1>5. CASE x < 0
    <2>1. Wrap(t - d) = t - d + m
      BY <1>1, <1>2, <1>3, <1>5
    <2>. QED  BY <1>1, <1>5, <2>1 DEF Time, IntMin, Clock
  <1>. QED  BY <1>1, <1>4, <1>5

\* The next time, until it is 0 again.
LEMMA WrapNext ==
    ASSUME NEW t \in Time, t # -1
    PROVE  Wrap(t + 1) \in Time /\ Clock(Wrap(t + 1)) = Clock(t) + 1
  <1>. DEFINE m == 2 * (IntMax + 1)
              x == (t + 1) - IntMin
  <1>1. /\ IntMax \in Nat /\ m \in Nat \ {0} /\ x \in Int
        /\ t \in Int /\ -IntMax - 1 <= t /\ t <= IntMax
        /\ x = t + 1 + IntMax + 1
    BY RateLimitAssumption DEF Time, IntMin
  <1>2. Wrap(t + 1) = (x % m) - IntMax - 1
    BY <1>1 DEF Wrap, IntMin
  <1>3. /\ x \in 0..(m - 1) => x % m = x
        /\ x \in m..(2 * m - 1) => x % m = x - m
    <2>. HIDE DEF m, x
    <2>. QED  BY <1>1, Remainders
  <1>4. Wrap(t + 1) = IF t = IntMax THEN -IntMax - 1 ELSE t + 1
    BY <1>1, <1>2, <1>3
  <1>. QED  BY <1>1, <1>4 DEF Time, IntMin, Clock
-----------------------------------------------------------------------------
(* Leaking *)

\* Products are monotone.
LEMMA Products ==
    ASSUME NEW p \in Nat, NEW a \in Int, NEW b \in Int, a <= b
    PROVE  /\ p * a \in Int /\ p * b \in Int
           /\ p * a <= p * b
           /\ p * (b - a) = p * b - p * a
  <1>1. p * (b - a) = p * b - p * a /\ p * a \in Int /\ p * b \in Int
    OBVIOUS
  <1>2. p * (b - a) >= 0
    OBVIOUS
  <1>. QED  BY <1>1, <1>2

\* A number is a quotient and a remainder.
LEMMA Quotient ==
    ASSUME NEW p \in Nat \ {0}, NEW x \in Nat
    PROVE  /\ x \div p \in Nat /\ x % p \in 0..(p - 1)
           /\ x = p * (x \div p) + (x % p)
  <1>. DEFINE q == x \div p
              r == x % p
  <1>1. q \in Int /\ r \in 0..(p - 1) /\ x = p * q + r
    OBVIOUS
  <1>. HIDE DEF q, r
  <1>2. q < 0 => p * q + p <= 0
    <2>1. q < 0 => p * (q + 1) <= p * 0
      BY <1>1, Products
    <2>2. p * (q + 1) = p * q + p /\ p * 0 = 0 /\ p * q \in Int
      BY <1>1
    <2>. QED  BY <2>1, <2>2
  <1>3. q \in Nat
    BY <1>1, <1>2
  <1>4. q \in Nat /\ r \in 0..(p - 1) /\ x = p * q + r
    BY <1>1, <1>3
  <1>. QED  BY <1>4 DEF q, r

\* What SVC_RateLimit does before it decides: as much runs out of the bucket as
\* its time advances, or all of it when no more than that was in it.
LEMMA LeakedFits ==
    ASSUME now \in Time, NEW x, x.lastTime \in Time, 0 <= Age(x.lastTime),
           NEW burst \in Nat, x.burst \in 0..burst,
           NEW period \in Nat \ {0}, burst * period <= IntMax,
           NEW recent \in [0..Window -> Nat],
           Fits(recent, x.burst, Age(x.lastTime), period)
    PROVE  \E level \in 0..burst, time \in Time :
              /\ Leaked(x, period) =
                   [x EXCEPT !.burst = level, !.lastTime = time]
              /\ Age(time) \in 0..(period - 1)
              /\ Fits(recent, level, Age(time), period)
  <1>. DEFINE e == Age(x.lastTime)
              interval == Wrap(now - x.lastTime)
              q == interval \div period
              r == interval % period
  <1>1. /\ IntMax \in Nat /\ Window \in Nat /\ e \in Nat
        /\ interval = IF e <= IntMax THEN e ELSE e - 2 * (IntMax + 1)
        /\ e <= Clock(now) /\ Clock(now) \in 0..(2 * IntMax + 1)
    <2>1. /\ Clock(now) \in 0..(2 * IntMax + 1)
          /\ Clock(x.lastTime) \in 0..(2 * IntMax + 1)
      BY ClockRange
    <2>2. IntMax \in Nat /\ Window \in Nat
      BY RateLimitAssumption
    <2>3. Clock(x.lastTime) <= Clock(now) /\ e = Clock(now) - Clock(x.lastTime)
      BY <2>1, <2>2 DEF Age
    <2>. QED  BY <2>1, <2>2, <2>3, WrapInterval
  <1>2. Leaked(x, period) =
          IF interval < 0 \/ q > x.burst
          THEN [x EXCEPT !.burst = 0, !.lastTime = now]
          ELSE [x EXCEPT !.burst = x.burst - q, !.lastTime = Wrap(now - r)]
    BY DEF Leaked
  <1>3. interval >= 0 =>
           interval = e /\ q \in Nat /\ r \in 0..(period - 1) /\ e = period * q + r
    <2>. HIDE DEF e, interval
    <2>1. interval >= 0 => interval = e
      BY <1>1
    <2>. QED  BY <1>1, <2>1, Quotient
  <1>. HIDE DEF e, interval, q, r
  <1>4. CASE interval < 0 \/ q > x.burst
    <2>1. period * x.burst <= e
      <3>1. CASE interval < 0
        <4>1. e > IntMax
          BY <1>1, <3>1
        <4>2. period * x.burst <= period * burst /\ period * x.burst \in Int
          BY Products
        <4>3. period * burst = burst * period /\ period * burst \in Int
          OBVIOUS
        <4>. QED  BY <1>1, <4>1, <4>2, <4>3
      <3>2. CASE interval >= 0
        <4>1. period * x.burst <= period * q /\ period * x.burst \in Int
              /\ period * q \in Int
          BY <1>3, <1>4, <3>2, Products
        <4>. QED  BY <1>1, <1>3, <3>2, <4>1
      <3>. QED  BY <1>1, <3>1, <3>2
    <2>2. Age(now) = 0
      BY <1>1 DEF Age
    <2>3. ASSUME NEW t \in 0..Window, recent[t] # 0
          PROVE  period * (recent[t] - 0) <= t - 0 + period - 1
      <3>1. period * (recent[t] - x.burst) <= t - e + period - 1
        BY <2>3 DEF Fits, e
      <3>2. period * (recent[t] - x.burst) = period * recent[t] - period * x.burst
            /\ period * recent[t] \in Int /\ period * x.burst \in Int
        OBVIOUS
      <3>3. recent[t] - 0 = recent[t] /\ t \in Nat
        BY <1>1
      <3>4. period * (recent[t] - 0) = period * recent[t]
        BY <3>3
      <3>. HIDE DEF Fits
      <3>5. period * recent[t] <= t + period - 1
        <4>. DEFINE y == period * (recent[t] - x.burst)
                    u == period * recent[t]
                    v == period * x.burst
        <4>1. y <= t - e + period - 1 /\ y = u - v /\ u \in Int /\ v \in Int /\ v <= e
          BY <2>1, <3>1, <3>2
        <4>. HIDE DEF y, u, v
        <4>2. u <= t + period - 1
          BY <1>1, <3>3, <4>1
        <4>. QED  BY <4>2 DEF u
      <3>. QED  BY <3>3, <3>4, <3>5
    <2>4. Fits(recent, 0, Age(now), period)
      BY <2>2, <2>3 DEF Fits
    <2>5. 0 \in 0..burst /\ Age(now) \in 0..(period - 1)
      BY <2>2
    <2>. QED  BY <1>2, <1>4, <2>4, <2>5
  <1>5. CASE ~(interval < 0 \/ q > x.burst)
    <2>. DEFINE time == Wrap(now - r)
                level == x.burst - q
    <2>1. interval >= 0
      BY <1>1, <1>5
    <2>2. /\ q \in Nat /\ q <= x.burst /\ r \in 0..(period - 1)
          /\ e = period * q + r /\ period * q \in Nat
      BY <1>3, <1>5, <2>1
    <2>3. r \in 0..Clock(now)
      BY <1>1, <2>2
    <2>4. time \in Time /\ Clock(time) = Clock(now) - r
      BY <2>3, WrapBack
    <2>. HIDE DEF time
    <2>5. Age(time) = r
      BY <1>1, <2>2, <2>4 DEF Age
    <2>6. level \in 0..burst
      BY <2>2
    <2>7. ASSUME NEW t \in 0..Window, recent[t] # 0
          PROVE  period * (recent[t] - level) <= t - r + period - 1
      <3>1. period * (recent[t] - x.burst) <= t - e + period - 1
        BY <2>7 DEF Fits, e
      <3>2. period * (recent[t] - (x.burst - q)) =
              period * (recent[t] - x.burst) + period * q
            /\ period * (recent[t] - x.burst) \in Int
        BY <2>2
      <3>. QED  BY <1>1, <2>2, <3>1, <3>2
    <2>8. Fits(recent, level, Age(time), period)
      BY <2>5, <2>7 DEF Fits
    <2>9. Leaked(x, period) = [x EXCEPT !.burst = level, !.lastTime = time]
      BY <1>2, <1>5 DEF time
    <2>. QED  BY <2>2, <2>4, <2>5, <2>6, <2>8, <2>9
  <1>. QED  BY <1>4, <1>5

\* One more request, for which the bucket had room.
LEMMA OneMoreFits ==
    ASSUME NEW recent \in [0..Window -> Nat], NEW level \in Nat,
           NEW period \in Nat \ {0}, NEW age \in 0..(period - 1),
           Fits(recent, level, age, period)
    PROVE  /\ OneMore(recent) \in [0..Window -> Nat]
           /\ Fits(OneMore(recent), level + 1, age, period)
  <1>1. OneMore(recent) \in [0..Window -> Nat]
    BY DEF OneMore
  <1>2. ASSUME NEW t \in 0..Window
        PROVE  period * (OneMore(recent)[t] - (level + 1)) <= t - age + period - 1
    <2>1. OneMore(recent)[t] = recent[t] + 1 /\ t \in Nat
      BY RateLimitAssumption DEF OneMore
    <2>2. recent[t] \in Nat /\ (recent[t] + 1) - (level + 1) = recent[t] - level
      OBVIOUS
    <2>3. CASE recent[t] = 0
      <3>1. period * (0 - level) <= period * 0
        BY Products
      <3>2. period * 0 = 0 /\ period * (0 - level) \in Int
        OBVIOUS
      <3>3. period * (OneMore(recent)[t] - (level + 1)) = period * (0 - level)
        BY <2>1, <2>2, <2>3
      <3>. QED  BY <2>1, <3>1, <3>2, <3>3
    <2>4. CASE recent[t] # 0
      BY <2>1, <2>2, <2>4 DEF Fits
    <2>. QED  BY <2>3, <2>4
  <1>. QED  BY <1>1, <1>2 DEF Fits

\* A bucket that is emptied when all in it has run out, or a new one.
LEMMA EmptyFits ==
    ASSUME NEW recent \in [0..Window -> Nat], NEW level \in Nat,
           NEW period \in Nat \ {0}, NEW age \in Nat, period * level <= age,
           Fits(recent, level, age, period)
    PROVE  Fits(recent, 0, 0, period)
  <1>1. ASSUME NEW t \in 0..Window, recent[t] # 0
        PROVE  period * (recent[t] - 0) <= t - 0 + period - 1
    <2>1. period * (recent[t] - level) <= t - age + period - 1
      BY <1>1 DEF Fits
    <2>2. period * (recent[t] - level) = period * recent[t] - period * level
          /\ period * recent[t] \in Int /\ period * level \in Int
      OBVIOUS
    <2>3. t \in Nat
      BY RateLimitAssumption
    <2>. QED  BY <2>1, <2>2, <2>3
  <1>. QED  BY <1>1 DEF Fits

\* What fits a bucket fits it a tick later.
LEMMA OlderFits ==
    ASSUME NEW recent \in [0..Window -> Nat], NEW level \in Nat,
           NEW period \in Nat \ {0}, NEW age \in Int,
           Fits(recent, level, age, period)
    PROVE  /\ Older(recent) \in [0..Window -> Nat]
           /\ Fits(Older(recent), level, age + 1, period)
  <1>1. ASSUME NEW t \in 0..Window
        PROVE  /\ Older(recent)[t] = IF t = 0 THEN 0 ELSE recent[t - 1]
               /\ t # 0 => t - 1 \in 0..Window
    BY RateLimitAssumption DEF Older
  <1>2. Older(recent) \in [0..Window -> Nat]
    BY <1>1 DEF Older
  <1>3. ASSUME NEW t \in 0..Window, Older(recent)[t] # 0
        PROVE  period * (Older(recent)[t] - level) <= t - (age + 1) + period - 1
    <2>1. t # 0 /\ Older(recent)[t] = recent[t - 1] /\ t - 1 \in 0..Window
      BY <1>1, <1>3
    <2>2. period * (recent[t - 1] - level) <= (t - 1) - age + period - 1
      BY <1>3, <2>1 DEF Fits
    <2>3. t \in Nat
      BY RateLimitAssumption
    <2>4. recent[t - 1] \in Nat
      BY <2>1
    <2>5. period * (recent[t - 1] - level) \in Int
      BY <2>4
    <2>. QED  BY <2>1, <2>2, <2>3, <2>5
  <1>. QED  BY <1>2, <1>3 DEF Fits

\* What fits a bucket is within the limit.
LEMMA FitsIsWithin ==
    ASSUME NEW recent \in [0..Window -> Nat], NEW burst \in Nat,
           NEW level \in 0..burst, NEW period \in Nat \ {0}, NEW age \in Nat,
           Fits(recent, level, age, period)
    PROVE  WithinLimit(recent, burst, period)
  <1>1. ASSUME NEW t \in 0..Window
        PROVE  recent[t] <= burst + (t + period - 1) \div period
    <2>. DEFINE x == t + period - 1
                q == x \div period
    <2>1. t \in Nat /\ x \in Nat /\ recent[t] \in Nat
      BY RateLimitAssumption
    <2>2. q \in Nat /\ x < period * (q + 1)
      <3>. HIDE DEF x
      <3>1. q \in Nat /\ x % period \in 0..(period - 1) /\ x = period * q + (x % period)
        BY <2>1, Quotient
      <3>. HIDE DEF q
      <3>2. period * (q + 1) = period * q + period /\ period * q \in Int
        BY <3>1
      <3>. QED  BY <2>1, <3>1, <3>2
    <2>. HIDE DEF q
    <2>3. CASE recent[t] = 0
      BY <2>2, <2>3 DEF q
    <2>4. CASE recent[t] # 0
      <3>1. period * (recent[t] - level) <= x
        <4>1. period * (recent[t] - level) <= t - age + period - 1
          BY <2>1, <2>4 DEF Fits
        <4>2. period * (recent[t] - level) \in Int
          BY <2>1
        <4>. QED  BY <2>1, <4>1, <4>2
      <3>2. recent[t] - level <= q
        <4>1. SUFFICES ASSUME q + 1 <= recent[t] - level  PROVE FALSE
          BY <2>1, <2>2
        <4>2. period * (q + 1) <= period * (recent[t] - level)
          BY <2>1, <2>2, <4>1, Products
        <4>3. period * (q + 1) \in Int /\ period * (recent[t] - level) \in Int
          BY <2>1, <2>2
        <4>. HIDE DEF x
        <4>. QED  BY <2>1, <2>2, <3>1, <4>2, <4>3
      <3>. QED  BY <2>1, <2>2, <3>2 DEF q
    <2>. QED  BY <2>3, <2>4
  <1>. QED  BY <1>1 DEF WithinLimit
-----------------------------------------------------------------------------
(* Chains *)

\* Walking a chain that is a list finds its buckets.
LEMMA WalkIs ==
    ASSUME NEW t, NEW h, NEW n \in Nat, NEW s, List(t, h, n, s)
    PROVE  Walk(t, h) = s
  <1>. DEFINE Steps(f) ==
                f = [k \in 0..MAX_BUCKETS |->
                        IF k = 0 THEN t.hashes[h]
                        ELSE LET b == f[k - 1]
                             IN  IF b = Null THEN Null ELSE t.buckets[b].next]
              step == CHOOSE f : Steps(f)
              g == [k \in 0..MAX_BUCKETS |-> IF k < n THEN s[k + 1] ELSE Null]
              ends == {k \in 0..MAX_BUCKETS : step[k] = Null} \cup {MAX_BUCKETS + 1}
  <1>1. /\ s \in [1..n -> Bucket]
        /\ t.hashes[h] = IF n = 0 THEN Null ELSE s[1]
        /\ \A k \in 1..n : t.buckets[s[k]].next = IF k = n THEN Null ELSE s[k + 1]
        /\ MAX_BUCKETS \in Nat /\ n <= MAX_BUCKETS
    BY RateLimitAssumption, ChainLength DEF List
  <1>2. \A k \in 1..n : s[k] # Null
    BY <1>1 DEF Bucket, Null
  <1>3. ASSUME NEW k \in 0..MAX_BUCKETS
        PROVE  g[k] = IF k = 0 THEN t.hashes[h]
                      ELSE LET b == g[k - 1]
                           IN  IF b = Null THEN Null ELSE t.buckets[b].next
    <2>1. CASE k = 0
      BY <1>1, <2>1
    <2>2. CASE k # 0
      <3>1. k - 1 \in 0..MAX_BUCKETS /\ g[k] = IF k < n THEN s[k + 1] ELSE Null
        BY <1>1, <2>2
      <3>2. g[k - 1] = IF k - 1 < n THEN s[k] ELSE Null
        BY <1>1, <3>1
      <3>. HIDE DEF g
      <3>3. k - 1 < n => k \in 1..n
        BY <1>1, <2>2
      <3>. QED  BY <1>1, <1>2, <2>2, <3>1, <3>2, <3>3
    <2>. QED  BY <2>1, <2>2
  <1>4. Steps(step)
    <2>1. Steps(g)
      BY <1>3
    <2>. HIDE DEF Steps
    <2>. QED  BY <2>1
  <1>. HIDE DEF step
  <1>5. \A k \in 0..MAX_BUCKETS :
           step[k] = IF k = 0 THEN t.hashes[h]
                     ELSE LET b == step[k - 1]
                          IN  IF b = Null THEN Null ELSE t.buckets[b].next
    BY <1>4
  <1>6. ASSUME NEW k \in 0..MAX_BUCKETS
        PROVE  step[k] = g[k]
    <2>. DEFINE T == {j \in 0..MAX_BUCKETS : step[j] # g[j]}
    <2>. HIDE DEF g
    <2>1. SUFFICES ASSUME T # {}
                   PROVE  FALSE
      BY <1>1
    <2>2. PICK j \in T : \A i \in T : j <= i
      <3>1. T \subseteq Nat
        BY <1>1
      <3>. HIDE DEF T
      <3>. QED  BY <2>1, <3>1, LeastNatural
    <2>3. j \in 0..MAX_BUCKETS /\ step[j] # g[j]
      OBVIOUS
    <2>4. j # 0 => j - 1 \in 0..MAX_BUCKETS /\ step[j - 1] = g[j - 1]
      BY <1>1, <2>2, <2>3
    <2>. HIDE DEF T
    <2>. QED  BY <1>3, <1>5, <2>3, <2>4
  <1>7. /\ \A k \in 0..MAX_BUCKETS : step[k] = Null <=> k >= n
        /\ \A k \in 1..n : step[k - 1] = s[k]
    <2>1. \A k \in 0..MAX_BUCKETS : step[k] = IF k < n THEN s[k + 1] ELSE Null
      BY <1>6
    <2>2. \A k \in 0..MAX_BUCKETS : k < n => k + 1 \in 1..n
      BY <1>1
    <2>3. \A k \in 1..n : k - 1 \in 0..MAX_BUCKETS /\ k - 1 < n /\ (k - 1) + 1 = k
      BY <1>1
    <2>. HIDE DEF g
    <2>4. \A k \in 0..MAX_BUCKETS : step[k] = Null <=> k >= n
      BY <1>1, <1>2, <2>1, <2>2
    <2>5. \A k \in 1..n : step[k - 1] = s[k]
      BY <2>1, <2>3
    <2>. QED  BY <2>4, <2>5
  <1>8. Min(ends) = n
    <2>1. ends \subseteq Nat /\ n \in ends
      BY <1>1, <1>7
    <2>2. \A k \in ends : k >= n
      BY <1>1, <1>7
    <2>. HIDE DEF ends
    <2>3. Min(ends) \in ends /\ \A y \in ends : Min(ends) <= y
      BY <2>1, LeastNatural
    <2>4. Min(ends) \in Nat /\ Min(ends) >= n /\ Min(ends) <= n
      BY <2>1, <2>2, <2>3
    <2>. QED  BY <2>4
  <1>9. Walk(t, h) = [k \in 1..Min(ends) |-> step[k - 1]]
    BY DEF Walk, step
  <1>. QED  BY <1>1, <1>7, <1>8, <1>9
-----------------------------------------------------------------------------
(* Reclaiming a bucket *)

\* An address has a hash.
LEMMA HashOf ==
    ASSUME NEW t \in Tables, NEW b \in Bucket, t.buckets[b].address # NA_BAD
    PROVE  t.buckets[b].address \in Address /\ Hash(t.buckets[b].address) \in Hashes
  <1>1. t.buckets[b].address \in Address
    BY DEF Tables, LeakyBucket
  <1>. QED  BY <1>1, RateLimitAssumption DEF Hashes

\* A clear bucket is a bucket.
LEMMA ClearedType ==
    Cleared \in LeakyBucket
  <1>1. 0 \in Time /\ 0 \in 0..Burst /\ 0 \in 0..(MAX_HASHES - 1)
    BY RateLimitAssumption DEF Time, IntMin
  <1>. QED  BY <1>1 DEF Cleared, LeakyBucket, Null

\* What taking out a bucket does to each field.
LEMMA UnlinkFields ==
    ASSUME NEW t \in Tables, NEW b \in Bucket
    PROVE  LET old == t.buckets[b]
               u == Unlink(t, b)
           IN  /\ u \in Tables
               /\ u.buckets[b] = Cleared
               /\ \A c \in Bucket \ {b} :
                     /\ u.buckets[c].address = t.buckets[c].address
                     /\ u.buckets[c].lastTime = t.buckets[c].lastTime
                     /\ u.buckets[c].burst = t.buckets[c].burst
                     /\ u.buckets[c].hash = t.buckets[c].hash
                     /\ u.buckets[c].next =
                          IF c = old.prev THEN old.next ELSE t.buckets[c].next
                     /\ u.buckets[c].prev =
                          IF c # old.prev /\ c = old.next THEN old.prev
                          ELSE t.buckets[c].prev
               /\ u.hashes = IF old.prev = Null
                             THEN [t.hashes EXCEPT ![old.hash] = old.next]
                             ELSE t.hashes
  <1>. DEFINE old == t.buckets[b]
              v(x) == IF x = b THEN Cleared
                      ELSE IF x = old.prev
                      THEN [t.buckets[x] EXCEPT !.next = old.next]
                      ELSE IF x = old.next
                      THEN [t.buckets[x] EXCEPT !.prev = old.prev]
                      ELSE t.buckets[x]
              w == IF old.prev = Null THEN [t.hashes EXCEPT ![old.hash] = old.next]
                   ELSE t.hashes
  <1>1. Unlink(t, b) = [buckets |-> [x \in Bucket |-> v(x)], hashes |-> w]
    BY DEF Unlink
  <1>2. /\ \A x \in Bucket : t.buckets[x] \in LeakyBucket
        /\ t.hashes \in [Hashes -> Bucket \cup {Null}]
        /\ old.next \in Bucket \cup {Null} /\ old.prev \in Bucket \cup {Null}
    BY DEF Tables, LeakyBucket
  <1>3. ASSUME NEW x \in Bucket
        PROVE  /\ v(x) \in LeakyBucket
               /\ x = b => v(x) = Cleared
               /\ x # b =>
                     /\ v(x).address = t.buckets[x].address
                     /\ v(x).lastTime = t.buckets[x].lastTime
                     /\ v(x).burst = t.buckets[x].burst
                     /\ v(x).hash = t.buckets[x].hash
                     /\ v(x).next =
                          IF x = old.prev THEN old.next ELSE t.buckets[x].next
                     /\ v(x).prev =
                          IF x # old.prev /\ x = old.next THEN old.prev
                          ELSE t.buckets[x].prev
    <2>. HIDE DEF old
    <2>1. CASE x = b
      BY <2>1, ClearedType
    <2>2. CASE x # b /\ x = old.prev
      BY <1>2, <2>2 DEF LeakyBucket
    <2>3. CASE x # b /\ x # old.prev /\ x = old.next
      BY <1>2, <2>3 DEF LeakyBucket
    <2>4. CASE x # b /\ x # old.prev /\ x # old.next
      BY <1>2, <2>4
    <2>. QED  BY <2>1, <2>2, <2>3, <2>4
  <1>4. w \in [Hashes -> Bucket \cup {Null}]
    BY <1>2
  <1>. HIDE DEF v, w
  <1>5. Unlink(t, b) \in Tables
    BY <1>1, <1>3, <1>4 DEF Tables
  <1>6. \A x \in Bucket : Unlink(t, b).buckets[x] = v(x)
    BY <1>1
  <1>7. Unlink(t, b).hashes = w
    BY <1>1
  <1>. QED  BY <1>3, <1>5, <1>6, <1>7 DEF w

\* The other chains are as they were.
LEMMA UnlinkOther ==
    ASSUME NEW t \in Tables, NEW b \in Bucket, t.buckets[b].address # NA_BAD,
           t.buckets[b].hash = Hash(t.buckets[b].address),
           NEW i \in Nat, NEW r, List(t, Hash(t.buckets[b].address), i, r),
           NEW h \in Hashes, h # Hash(t.buckets[b].address),
           NEW n \in Nat, NEW s, List(t, h, n, s)
    PROVE  List(Unlink(t, b), h, n, s)
  <1>. DEFINE old == t.buckets[b]
              u == Unlink(t, b)
  <1>1. PICK j \in 1..i : r[j] = b
    BY DEF List
  <1>2. /\ old.next = IF j = i THEN Null ELSE r[j + 1]
        /\ old.prev = IF j = 1 THEN Null ELSE r[j - 1]
    BY <1>1 DEF List
  <1>3. /\ j # i => j + 1 \in 1..i
        /\ j # 1 => j - 1 \in 1..i
    OBVIOUS
  <1>4. \A x \in Bucket :
           x \in {b, old.next, old.prev} =>
               t.buckets[x].address # NA_BAD /\ Hash(t.buckets[x].address) # h
    <2>1. \A k \in 1..i : /\ t.buckets[r[k]].address # NA_BAD
                          /\ Hash(t.buckets[r[k]].address) = Hash(old.address)
      BY DEF List
    <2>2. Null \notin Bucket
      BY DEF Null, Bucket
    <2>. HIDE DEF old
    <2>. QED  BY <1>1, <1>2, <1>3, <2>1, <2>2
  <1>5. \A k \in 1..n : s[k] \in Bucket /\ s[k] \notin {b, old.next, old.prev}
    <2>. HIDE DEF old
    <2>. QED  BY <1>4 DEF List
  <1>6. \A x \in Bucket \ {b} :
           /\ u.buckets[x].address = t.buckets[x].address
           /\ u.buckets[x].next = IF x = old.prev THEN old.next ELSE t.buckets[x].next
           /\ u.buckets[x].prev = IF x # old.prev /\ x = old.next THEN old.prev
                                  ELSE t.buckets[x].prev
    <2>1. ASSUME NEW x \in Bucket \ {b}
          PROVE  u.buckets[x].address = t.buckets[x].address
      BY UnlinkFields
    <2>2. ASSUME NEW x \in Bucket \ {b}
          PROVE  u.buckets[x].next = IF x = old.prev THEN old.next ELSE t.buckets[x].next
      BY UnlinkFields
    <2>3. ASSUME NEW x \in Bucket \ {b}
          PROVE  u.buckets[x].prev = IF x # old.prev /\ x = old.next THEN old.prev
                                     ELSE t.buckets[x].prev
      BY UnlinkFields
    <2>. HIDE DEF u, old
    <2>. QED  BY <2>1, <2>2, <2>3
  <1>7. u.buckets[b].address = NA_BAD
    <2>1. u.buckets[b] = Cleared
      BY UnlinkFields, Zenon
    <2>. QED  BY <2>1 DEF Cleared
  <1>8. u.hashes[h] = t.hashes[h]
    BY UnlinkFields DEF Tables
  <1>. HIDE DEF u, old
  <1>9. \A k \in 1..n :
           /\ u.buckets[s[k]].next = t.buckets[s[k]].next
           /\ u.buckets[s[k]].prev = t.buckets[s[k]].prev
    BY <1>5, <1>6
  <1>10. \A x \in Bucket :
            (u.buckets[x].address # NA_BAD /\ Hash(u.buckets[x].address) = h)
            <=> (t.buckets[x].address # NA_BAD /\ Hash(t.buckets[x].address) = h)
    BY <1>4, <1>6, <1>7
  <1>11. List(u, h, n, s)
    BY <1>8, <1>9, <1>10 DEF List
  <1>. QED  BY <1>11 DEF u

\* Its own chain closes over it.
LEMMA UnlinkOwn ==
    ASSUME NEW t \in Tables, NEW b \in Bucket, t.buckets[b].address # NA_BAD,
           t.buckets[b].hash = Hash(t.buckets[b].address),
           NEW n \in Nat, NEW s, List(t, Hash(t.buckets[b].address), n, s)
    PROVE  n - 1 \in Nat /\ \E r : List(Unlink(t, b), Hash(t.buckets[b].address), n - 1, r)
  <1>1. PICK h \in Hashes : h = Hash(t.buckets[b].address)
    BY HashOf
  <1>2. PICK old : old = t.buckets[b]
    OBVIOUS
  <1>3. PICK u : u = Unlink(t, b)
    OBVIOUS
  <1>4. /\ s \in [1..n -> Bucket]
        /\ \A j, k \in 1..n : s[j] = s[k] => j = k
        /\ t.hashes[h] = IF n = 0 THEN Null ELSE s[1]
        /\ \A k \in 1..n :
              /\ t.buckets[s[k]].next = IF k = n THEN Null ELSE s[k + 1]
              /\ t.buckets[s[k]].prev = IF k = 1 THEN Null ELSE s[k - 1]
        /\ \A x \in Bucket :
              (\E k \in 1..n : s[k] = x) <=>
                  /\ t.buckets[x].address # NA_BAD
                  /\ Hash(t.buckets[x].address) = h
    BY <1>1 DEF List
  <1>5. PICK i \in 1..n : s[i] = b
    BY <1>1, <1>4
  <1>6. /\ old.next = IF i = n THEN Null ELSE s[i + 1]
        /\ old.prev = IF i = 1 THEN Null ELSE s[i - 1]
        /\ Null \notin Bucket
    <2>1. Null \notin Bucket
      BY DEF Null, Bucket
    <2>. QED  BY <1>2, <1>4, <1>5, <2>1
  <1>7. /\ \A x \in Bucket \ {b} :
              /\ u.buckets[x].address = t.buckets[x].address
              /\ u.buckets[x].next = IF x = old.prev THEN old.next
                                     ELSE t.buckets[x].next
              /\ u.buckets[x].prev = IF x # old.prev /\ x = old.next THEN old.prev
                                     ELSE t.buckets[x].prev
        /\ u.buckets[b].address = NA_BAD
        /\ u.hashes[h] = IF old.prev = Null THEN old.next ELSE t.hashes[h]
    <2>1. t.hashes \in [Hashes -> Bucket \cup {Null}] /\ old.hash = h
      BY <1>1, <1>2 DEF Tables
    <2>2. ASSUME NEW x \in Bucket \ {b}
          PROVE  u.buckets[x].address = t.buckets[x].address
      BY <1>3, UnlinkFields
    <2>3. ASSUME NEW x \in Bucket \ {b}
          PROVE  u.buckets[x].next = IF x = old.prev THEN old.next ELSE t.buckets[x].next
      BY <1>2, <1>3, UnlinkFields
    <2>4. ASSUME NEW x \in Bucket \ {b}
          PROVE  u.buckets[x].prev = IF x # old.prev /\ x = old.next THEN old.prev
                                     ELSE t.buckets[x].prev
      BY <1>2, <1>3, UnlinkFields
    <2>5. u.buckets[b].address = NA_BAD
      <3>1. u.buckets[b] = Cleared
        BY <1>3, UnlinkFields
      <3>. QED  BY <3>1 DEF Cleared
    <2>6. u.hashes[h] = IF old.prev = Null THEN old.next ELSE t.hashes[h]
      <3>1. u.hashes = IF old.prev = Null
                       THEN [t.hashes EXCEPT ![old.hash] = old.next]
                       ELSE t.hashes
        BY <1>2, <1>3, UnlinkFields
      <3>. QED  BY <1>1, <2>1, <3>1
    <2>. QED  BY <2>2, <2>3, <2>4, <2>5, <2>6
  <1>. DEFINE m == n - 1
              r == [k \in 1..m |-> IF k < i THEN s[k] ELSE s[k + 1]]
  <1>8. /\ m \in Nat /\ r \in [1..m -> Bucket]
        /\ \A k \in 1..m : r[k] = IF k < i THEN s[k] ELSE s[k + 1]
    BY <1>4
  <1>. HIDE DEF r
  <1>9. \A j, k \in 1..m : r[j] = r[k] => j = k
    <2>1. \A k \in 1..m : k \in 1..n /\ k + 1 \in 1..n
      OBVIOUS
    <2>. QED  BY <1>4, <1>8, <2>1
  <1>10. \A k \in 1..m : r[k] \in Bucket \ {b}
    <2>1. \A k \in 1..m : k \in 1..n /\ k + 1 \in 1..n
      OBVIOUS
    <2>. QED  BY <1>4, <1>5, <1>8, <2>1
  <1>11. u.hashes[h] = IF m = 0 THEN Null ELSE r[1]
    <2>1. CASE i = 1
      BY <1>4, <1>6, <1>7, <1>8, <2>1
    <2>2. CASE i # 1
      <3>1. i - 1 \in 1..n /\ m # 0 /\ 1 \in 1..m /\ n # 0
        BY <2>2
      <3>2. old.prev # Null
        BY <1>4, <1>6, <2>2, <3>1
      <3>3. r[1] = s[1]
        BY <1>8, <2>2, <3>1
      <3>. QED  BY <1>4, <1>7, <3>1, <3>2, <3>3
    <2>. QED  BY <2>1, <2>2
  <1>12. ASSUME NEW k \in 1..m
         PROVE  /\ u.buckets[r[k]].next = IF k = m THEN Null ELSE r[k + 1]
                /\ u.buckets[r[k]].prev = IF k = 1 THEN Null ELSE r[k - 1]
    <2>1. PICK j \in 1..n : r[k] = s[j] /\ j = IF k < i THEN k ELSE k + 1
      BY <1>8
    <2>2. /\ u.buckets[s[j]].next = IF s[j] = old.prev THEN old.next
                                    ELSE t.buckets[s[j]].next
          /\ u.buckets[s[j]].prev = IF s[j] # old.prev /\ s[j] = old.next
                                    THEN old.prev ELSE t.buckets[s[j]].prev
      BY <1>7, <1>10, <2>1
    <2>3. s[j] = old.prev <=> j = i - 1
      <3>1. i # 1 => i - 1 \in 1..n
        OBVIOUS
      <3>. QED  BY <1>4, <1>6, <3>1
    <2>4. s[j] = old.next <=> j = i + 1
      <3>1. i # n => i + 1 \in 1..n
        OBVIOUS
      <3>. QED  BY <1>4, <1>6, <3>1
    <2>5. u.buckets[s[j]].next =
            IF j = i - 1 THEN IF i = n THEN Null ELSE s[i + 1]
            ELSE IF j = n THEN Null ELSE s[j + 1]
      BY <1>4, <1>6, <2>2, <2>3
    <2>6. u.buckets[s[j]].prev =
            IF j = i + 1 THEN IF i = 1 THEN Null ELSE s[i - 1]
            ELSE IF j = 1 THEN Null ELSE s[j - 1]
      BY <1>4, <1>6, <2>2, <2>3, <2>4
    <2>7. u.buckets[r[k]].next = IF k = m THEN Null ELSE r[k + 1]
      <3>1. k # m => k + 1 \in 1..m
        BY <1>8
      <3>2. k # m => r[k + 1] = IF k + 1 < i THEN s[k + 1] ELSE s[k + 2]
        BY <1>8, <3>1
      <3>. QED  BY <2>1, <2>5, <3>2
    <2>8. u.buckets[r[k]].prev = IF k = 1 THEN Null ELSE r[k - 1]
      <3>1. k # 1 => k - 1 \in 1..m
        BY <1>8
      <3>2. k # 1 => r[k - 1] = IF k - 1 < i THEN s[k - 1] ELSE s[k]
        BY <1>8, <3>1
      <3>. QED  BY <2>1, <2>6, <3>2
    <2>. QED  BY <2>7, <2>8
  <1>13. ASSUME NEW x \in Bucket
         PROVE  (\E k \in 1..m : r[k] = x) <=>
                    /\ u.buckets[x].address # NA_BAD
                    /\ Hash(u.buckets[x].address) = h
    <2>1. CASE x = b
      BY <1>7, <1>10, <2>1
    <2>2. CASE x # b
      <3>1. (\E k \in 1..m : r[k] = x) <=> (\E k \in 1..n : s[k] = x)
        <4>1. ASSUME NEW k \in 1..m, r[k] = x
              PROVE  \E j \in 1..n : s[j] = x
          <5>1. k \in 1..n /\ k + 1 \in 1..n
            OBVIOUS
          <5>. QED  BY <1>8, <4>1, <5>1
        <4>2. ASSUME NEW k \in 1..n, s[k] = x
              PROVE  \E j \in 1..m : r[j] = x
          <5>1. k # i
            BY <1>5, <2>2, <4>2
          <5>2. CASE k < i
            <6>1. k \in 1..m /\ r[k] = s[k]
              BY <1>8, <5>2
            <6>. QED  BY <4>2, <6>1
          <5>3. CASE k > i
            <6>1. k - 1 \in 1..m /\ r[k - 1] = s[k]
              <7>1. k - 1 \in 1..m /\ ~(k - 1 < i) /\ (k - 1) + 1 = k
                BY <5>3
              <7>. QED  BY <1>8, <7>1
            <6>. QED  BY <4>2, <6>1
          <5>. QED  BY <5>1, <5>2, <5>3
        <4>. QED  BY <4>1, <4>2
      <3>. QED  BY <1>4, <1>7, <2>2, <3>1
    <2>. QED  BY <2>1, <2>2
  <1>14. List(u, h, m, r)
    BY <1>8, <1>9, <1>11, <1>12, <1>13 DEF List
  <1>. QED  BY <1>1, <1>3, <1>8, <1>14
\* A bucket with an address is taken out of a sound table and cleared: the
\* table is sound, and the other buckets keep what is in them.
LEMMA UnlinkSound ==
    ASSUME NEW t, SoundTable(t), NEW b \in Bucket, t.buckets[b].address # NA_BAD
    PROVE  /\ SoundTable(Unlink(t, b))
           /\ Unlink(t, b).buckets[b] = Cleared
           /\ \A c \in Bucket \ {b} :
                 /\ Unlink(t, b).buckets[c].address = t.buckets[c].address
                 /\ Unlink(t, b).buckets[c].lastTime = t.buckets[c].lastTime
                 /\ Unlink(t, b).buckets[c].burst = t.buckets[c].burst
  <1>1. t \in Tables /\ t.buckets[b].hash = Hash(t.buckets[b].address)
    BY DEF SoundTable
  <1>2. PICK u : u = Unlink(t, b)
    OBVIOUS
  <1>3. u \in Tables /\ u.buckets[b] = Cleared
    BY <1>1, <1>2, UnlinkFields
  <1>4. ASSUME NEW c \in Bucket \ {b}
        PROVE  u.buckets[c].address = t.buckets[c].address
    BY <1>1, <1>2, UnlinkFields
  <1>5. ASSUME NEW c \in Bucket \ {b}
        PROVE  u.buckets[c].lastTime = t.buckets[c].lastTime
    BY <1>1, <1>2, UnlinkFields
  <1>6. ASSUME NEW c \in Bucket \ {b}
        PROVE  u.buckets[c].burst = t.buckets[c].burst
    BY <1>1, <1>2, UnlinkFields
  <1>7. ASSUME NEW c \in Bucket \ {b}
        PROVE  u.buckets[c].hash = t.buckets[c].hash
    BY <1>1, <1>2, UnlinkFields
  <1>8. ASSUME NEW c \in Bucket \ {b}, t.buckets[c].address = NA_BAD
        PROVE  u.buckets[c] = Cleared
    <2>1. t.buckets[c] = Cleared
      BY <1>8 DEF SoundTable
    <2>2. PICK i \in Nat : \E r : List(t, Hash(t.buckets[b].address), i, r)
      BY <1>1, HashOf DEF SoundTable
    <2>3. PICK r : List(t, Hash(t.buckets[b].address), i, r)
      BY <2>2
    <2>4. ~(\E k \in 1..i : r[k] = c)
      BY <1>8, <2>3 DEF List
    <2>5. c # t.buckets[b].prev /\ c # t.buckets[b].next
      <3>1. PICK j \in 1..i : r[j] = b
        BY <2>3 DEF List
      <3>2. /\ t.buckets[b].next = IF j = i THEN Null ELSE r[j + 1]
            /\ t.buckets[b].prev = IF j = 1 THEN Null ELSE r[j - 1]
        BY <2>3, <3>1 DEF List
      <3>3. (j # i => j + 1 \in 1..i) /\ (j # 1 => j - 1 \in 1..i) /\ Null \notin Bucket
        BY DEF Null, Bucket
      <3>. QED  BY <2>4, <3>2, <3>3
    <2>6. u.buckets[c].next = t.buckets[c].next
      BY <1>1, <1>2, <2>5, UnlinkFields
    <2>7. u.buckets[c].prev = t.buckets[c].prev
      BY <1>1, <1>2, <2>5, UnlinkFields
    <2>8. u.buckets[c] \in LeakyBucket /\ t.buckets[c] \in LeakyBucket
      BY <1>1, <1>3 DEF Tables
    <2>9. u.buckets[c] = t.buckets[c]
      BY <1>4, <1>5, <1>6, <1>7, <2>6, <2>7, <2>8 DEF LeakyBucket
    <2>. QED  BY <2>1, <2>9
  <1>9. ASSUME NEW h \in Hashes
        PROVE  \E n \in Nat : \E s : List(u, h, n, s)
    <2>1. Hash(t.buckets[b].address) \in Hashes
      BY <1>1, HashOf
    <2>2. PICK i \in Nat : \E r : List(t, Hash(t.buckets[b].address), i, r)
      BY <2>1 DEF SoundTable
    <2>3. PICK r : List(t, Hash(t.buckets[b].address), i, r)
      BY <2>2
    <2>4. CASE h = Hash(t.buckets[b].address)
      BY <1>1, <1>2, <2>3, <2>4, UnlinkOwn
    <2>5. CASE h # Hash(t.buckets[b].address)
      <3>1. PICK n \in Nat : \E s : List(t, h, n, s)
        BY DEF SoundTable
      <3>2. PICK s : List(t, h, n, s)
        BY <3>1
      <3>3. List(Unlink(t, b), h, n, s)
        BY <1>1, <2>3, <2>5, <3>2, UnlinkOther
      <3>. QED  BY <1>2, <3>3
    <2>. QED  BY <2>4, <2>5
  <1>10. u.buckets[b].address = NA_BAD
    BY <1>3 DEF Cleared
  <1>11. ASSUME NEW c \in Bucket
         PROVE  IF u.buckets[c].address = NA_BAD THEN u.buckets[c] = Cleared
                ELSE u.buckets[c].hash = Hash(u.buckets[c].address)
    BY <1>3, <1>4, <1>7, <1>8, <1>10 DEF SoundTable
  <1>12. ASSUME NEW c \in Bucket, NEW d \in Bucket,
                u.buckets[c].address = u.buckets[d].address
         PROVE  c = d \/ u.buckets[c].address = NA_BAD
    BY <1>4, <1>10, <1>12 DEF SoundTable
  <1>13. SoundTable(u)
    BY <1>3, <1>9, <1>11, <1>12 DEF SoundTable
  <1>. QED  BY <1>2, <1>3, <1>4, <1>5, <1>6, <1>13

-----------------------------------------------------------------------------
(* A new bucket *)

\* What giving a bucket to an address does to each field.
LEMMA LinkFields ==
    ASSUME now \in Time, NEW t \in Tables, NEW b \in Bucket, NEW a \in Address
    PROVE  LET head == t.hashes[Hash(a)]
               u == Link(t, b, a)
           IN  /\ u \in Tables
               /\ u.buckets[b].address = a
               /\ u.buckets[b].lastTime = now
               /\ u.buckets[b].burst = 0
               /\ u.buckets[b].hash = Hash(a)
               /\ u.buckets[b].next = head
               /\ u.buckets[b].prev = Null
               /\ \A c \in Bucket \ {b} :
                     /\ u.buckets[c].address = t.buckets[c].address
                     /\ u.buckets[c].lastTime = t.buckets[c].lastTime
                     /\ u.buckets[c].burst = t.buckets[c].burst
                     /\ u.buckets[c].hash = t.buckets[c].hash
                     /\ u.buckets[c].next = t.buckets[c].next
                     /\ u.buckets[c].prev = IF c = head THEN b ELSE t.buckets[c].prev
                     /\ c # head => u.buckets[c] = t.buckets[c]
               /\ \A h \in Hashes :
                     u.hashes[h] = IF h = Hash(a) THEN b ELSE t.hashes[h]
  <1>. DEFINE head == t.hashes[Hash(a)]
              new == [address |-> a, lastTime |-> now, burst |-> 0,
                      hash |-> Hash(a), next |-> head, prev |-> Null]
              v(x) == IF x = b THEN new
                      ELSE IF x = head THEN [t.buckets[x] EXCEPT !.prev = b]
                      ELSE t.buckets[x]
              w == [t.hashes EXCEPT ![Hash(a)] = b]
  <1>1. Link(t, b, a) = [buckets |-> [x \in Bucket |-> v(x)], hashes |-> w]
    BY DEF Link
  <1>2. /\ \A x \in Bucket : t.buckets[x] \in LeakyBucket
        /\ t.hashes \in [Hashes -> Bucket \cup {Null}]
        /\ Hash(a) \in Hashes /\ head \in Bucket \cup {Null}
    BY RateLimitAssumption DEF Tables, Hashes
  <1>3. new \in LeakyBucket
    <2>1. 0 \in 0..Burst
      BY RateLimitAssumption
    <2>. HIDE DEF head
    <2>. QED  BY <1>2, <2>1 DEF LeakyBucket, Hashes
  <1>4. ASSUME NEW x \in Bucket
        PROVE  /\ v(x) \in LeakyBucket
               /\ x = b => v(x) = new
               /\ x # b =>
                     /\ v(x).address = t.buckets[x].address
                     /\ v(x).lastTime = t.buckets[x].lastTime
                     /\ v(x).burst = t.buckets[x].burst
                     /\ v(x).hash = t.buckets[x].hash
                     /\ v(x).next = t.buckets[x].next
                     /\ v(x).prev = IF x = head THEN b ELSE t.buckets[x].prev
                     /\ x # head => v(x) = t.buckets[x]
    <2>. HIDE DEF head, new
    <2>1. CASE x = b
      BY <1>3, <2>1
    <2>2. CASE x # b /\ x = head
      BY <1>2, <2>2 DEF LeakyBucket
    <2>3. CASE x # b /\ x # head
      BY <1>2, <2>3
    <2>. QED  BY <2>1, <2>2, <2>3
  <1>5. w \in [Hashes -> Bucket \cup {Null}]
    BY <1>2
  <1>. HIDE DEF v, w
  <1>6. Link(t, b, a) \in Tables
    BY <1>1, <1>4, <1>5 DEF Tables
  <1>7. \A x \in Bucket : Link(t, b, a).buckets[x] = v(x)
    BY <1>1
  <1>8. \A h \in Hashes :
           Link(t, b, a).hashes[h] = IF h = Hash(a) THEN b ELSE t.hashes[h]
    <2>1. Link(t, b, a).hashes = w
      BY <1>1
    <2>2. \A h \in Hashes : w[h] = IF h = Hash(a) THEN b ELSE t.hashes[h]
      BY <1>2 DEF w
    <2>. QED  BY <2>1, <2>2
  <1>. QED  BY <1>4, <1>6, <1>7, <1>8
\* The other chains are as they were.
LEMMA LinkOther ==
    ASSUME now \in Time, NEW t \in Tables, NEW b \in Bucket, NEW a \in Address,
           t.buckets[b].address = NA_BAD,
           NEW i \in Nat, NEW r, List(t, Hash(a), i, r),
           NEW h \in Hashes, h # Hash(a), NEW n \in Nat, NEW s, List(t, h, n, s)
    PROVE  List(Link(t, b, a), h, n, s)
  <1>1. PICK u : u = Link(t, b, a)
    OBVIOUS
  <1>2. PICK head : head = t.hashes[Hash(a)]
    OBVIOUS
  <1>3. ASSUME NEW k \in 1..n
        PROVE  s[k] \in Bucket \ {b} /\ s[k] # head
    <2>1. /\ s[k] \in Bucket /\ t.buckets[s[k]].address # NA_BAD
          /\ Hash(t.buckets[s[k]].address) = h
      BY DEF List
    <2>2. s[k] = head => \E j \in 1..i : r[j] = s[k]
      <3>1. head = IF i = 0 THEN Null ELSE r[1]
        BY <1>2 DEF List
      <3>2. s[k] # Null
        BY <2>1 DEF Null, Bucket
      <3>. QED  BY <3>1, <3>2
    <2>3. s[k] = head => Hash(t.buckets[s[k]].address) = Hash(a)
      BY <2>1, <2>2 DEF List
    <2>. QED  BY <2>1, <2>3
  <1>4. ASSUME NEW x \in Bucket \ {b}
        PROVE  /\ u.buckets[x].address = t.buckets[x].address
               /\ x # head => u.buckets[x] = t.buckets[x]
    <2>1. u.buckets[x].address = t.buckets[x].address
      BY <1>1, LinkFields
    <2>2. x # head => u.buckets[x] = t.buckets[x]
      BY <1>1, <1>2, LinkFields
    <2>. QED  BY <2>1, <2>2
  <1>5. u.buckets[b].address = a
    BY <1>1, LinkFields
  <1>6. u.hashes[h] = t.hashes[h]
    BY <1>1, LinkFields
  <1>7. \A k \in 1..n : u.buckets[s[k]] = t.buckets[s[k]]
    BY <1>3, <1>4
  <1>8. ASSUME NEW x \in Bucket
        PROVE  (u.buckets[x].address # NA_BAD /\ Hash(u.buckets[x].address) = h)
               <=> (t.buckets[x].address # NA_BAD /\ Hash(t.buckets[x].address) = h)
    BY <1>4, <1>5
  <1>9. List(u, h, n, s)
    <2>1. ASSUME NEW k \in 1..n
          PROVE  /\ u.buckets[s[k]].next = IF k = n THEN Null ELSE s[k + 1]
                 /\ u.buckets[s[k]].prev = IF k = 1 THEN Null ELSE s[k - 1]
      BY <1>7 DEF List
    <2>2. ASSUME NEW x \in Bucket
          PROVE  (\E k \in 1..n : s[k] = x) <=>
                     /\ u.buckets[x].address # NA_BAD
                     /\ Hash(u.buckets[x].address) = h
      <3>1. (\E k \in 1..n : s[k] = x) <=>
                /\ t.buckets[x].address # NA_BAD
                /\ Hash(t.buckets[x].address) = h
        BY DEF List
      <3>. QED  BY <1>8, <3>1
    <2>3. /\ s \in [1..n -> Bucket]
          /\ \A j, k \in 1..n : s[j] = s[k] => j = k
          /\ t.hashes[h] = IF n = 0 THEN Null ELSE s[1]
      BY DEF List
    <2>. QED  BY <1>6, <2>1, <2>2, <2>3 DEF List
  <1>. QED  BY <1>1, <1>9

\* The bucket is the first of its own chain.
LEMMA LinkOwn ==
    ASSUME now \in Time, NEW t \in Tables, NEW b \in Bucket, NEW a \in Address,
           t.buckets[b].address = NA_BAD,
           NEW n \in Nat, NEW s, List(t, Hash(a), n, s)
    PROVE  \E r : List(Link(t, b, a), Hash(a), n + 1, r)
  <1>1. PICK h \in Hashes : h = Hash(a)
    BY RateLimitAssumption DEF Hashes
  <1>2. PICK u : u = Link(t, b, a)
    OBVIOUS
  <1>3. /\ s \in [1..n -> Bucket]
        /\ \A j, k \in 1..n : s[j] = s[k] => j = k
        /\ t.hashes[h] = IF n = 0 THEN Null ELSE s[1]
        /\ \A k \in 1..n :
              /\ t.buckets[s[k]].next = IF k = n THEN Null ELSE s[k + 1]
              /\ t.buckets[s[k]].prev = IF k = 1 THEN Null ELSE s[k - 1]
        /\ \A x \in Bucket :
              (\E k \in 1..n : s[k] = x) <=>
                  /\ t.buckets[x].address # NA_BAD
                  /\ Hash(t.buckets[x].address) = h
    BY <1>1 DEF List
  <1>4. PICK head : head = t.hashes[h]
    OBVIOUS
  <1>5. ASSUME NEW x \in Bucket \ {b}
        PROVE  /\ u.buckets[x].address = t.buckets[x].address
               /\ u.buckets[x].next = t.buckets[x].next
               /\ u.buckets[x].prev = IF x = head THEN b ELSE t.buckets[x].prev
    <2>1. u.buckets[x].address = t.buckets[x].address
      BY <1>2, LinkFields
    <2>2. u.buckets[x].next = t.buckets[x].next
      BY <1>2, LinkFields
    <2>3. u.buckets[x].prev = IF x = head THEN b ELSE t.buckets[x].prev
      BY <1>1, <1>2, <1>4, LinkFields
    <2>. QED  BY <2>1, <2>2, <2>3
  <1>6. /\ u.buckets[b].address = a /\ u.buckets[b].next = head
        /\ u.buckets[b].prev = Null /\ a # NA_BAD
    BY <1>1, <1>2, <1>4, LinkFields, RateLimitAssumption
  <1>7. u.hashes[h] = b
    BY <1>1, <1>2, LinkFields
  <1>. DEFINE m == n + 1
              r == [k \in 1..m |-> IF k = 1 THEN b ELSE s[k - 1]]
  <1>8. /\ m \in Nat /\ r \in [1..m -> Bucket] /\ 1 \in 1..m /\ r[1] = b
        /\ \A k \in 1..m : k # 1 => r[k] = s[k - 1] /\ k - 1 \in 1..n
    BY <1>3
  <1>. HIDE DEF r
  <1>9. \A k \in 1..n : s[k] \in Bucket \ {b}
    BY <1>3
  <1>10. \A j, k \in 1..m : r[j] = r[k] => j = k
    BY <1>3, <1>8, <1>9
  <1>11. ASSUME NEW k \in 1..m
         PROVE  /\ u.buckets[r[k]].next = IF k = m THEN Null ELSE r[k + 1]
                /\ u.buckets[r[k]].prev = IF k = 1 THEN Null ELSE r[k - 1]
    <2>1. CASE k = 1
      <3>1. k # m => r[2] = s[1] /\ n # 0
        <4>1. k # m => 2 \in 1..m /\ n # 0
          BY <2>1
        <4>. QED  BY <1>8, <4>1
      <3>2. k = m => n = 0
        BY <2>1
      <3>. QED  BY <1>3, <1>4, <1>6, <1>8, <2>1, <3>1, <3>2
    <2>2. CASE k # 1
      <3>1. PICK j \in 1..n : j = k - 1 /\ r[k] = s[j] /\ s[j] \in Bucket \ {b}
        BY <1>8, <1>9, <2>2
      <3>2. s[j] = head <=> j = 1
        <4>1. n # 0 /\ 1 \in 1..n
          BY <3>1
        <4>. QED  BY <1>3, <1>4, <3>1, <4>1
      <3>3. u.buckets[r[k]].next = IF k = m THEN Null ELSE r[k + 1]
        <4>1. k # m => k + 1 \in 1..m /\ k + 1 # 1 /\ (k + 1) - 1 = j + 1
          BY <3>1
        <4>2. k # m => r[k + 1] = s[j + 1]
          BY <1>8, <4>1
        <4>3. u.buckets[s[j]].next = IF j = n THEN Null ELSE s[j + 1]
          BY <1>3, <1>5, <3>1
        <4>4. k = m <=> j = n
          BY <3>1
        <4>. QED  BY <3>1, <4>2, <4>3, <4>4
      <3>4. u.buckets[r[k]].prev = IF k = 1 THEN Null ELSE r[k - 1]
        <4>1. u.buckets[s[j]].prev = IF j = 1 THEN b ELSE s[j - 1]
          BY <1>3, <1>5, <3>1, <3>2
        <4>2. k - 1 \in 1..m /\ (j = 1 <=> k - 1 = 1)
          BY <3>1
        <4>3. j # 1 => r[k - 1] = s[j - 1]
          BY <1>8, <3>1, <4>2
        <4>. QED  BY <1>8, <2>2, <3>1, <4>1, <4>2, <4>3
      <3>. QED  BY <3>3, <3>4
    <2>. QED  BY <2>1, <2>2
  <1>12. ASSUME NEW x \in Bucket
         PROVE  (\E k \in 1..m : r[k] = x) <=>
                    /\ u.buckets[x].address # NA_BAD
                    /\ Hash(u.buckets[x].address) = h
    <2>1. CASE x = b
      BY <1>1, <1>6, <1>8, <2>1
    <2>2. CASE x # b
      <3>1. (\E k \in 1..m : r[k] = x) <=> (\E k \in 1..n : s[k] = x)
        <4>1. ASSUME NEW k \in 1..n
              PROVE  k + 1 \in 1..m /\ r[k + 1] = s[k]
          <5>1. k + 1 \in 1..m /\ k + 1 # 1 /\ (k + 1) - 1 = k
            OBVIOUS
          <5>. QED  BY <1>8, <5>1
        <4>2. ASSUME NEW k \in 1..m, r[k] = x
              PROVE  k - 1 \in 1..n /\ s[k - 1] = x
          BY <1>8, <2>2, <4>2
        <4>. QED  BY <4>1, <4>2
      <3>. QED  BY <1>3, <1>5, <2>2, <3>1
    <2>. QED  BY <2>1, <2>2
  <1>13. List(u, h, m, r)
    <2>1. u.hashes[h] = IF m = 0 THEN Null ELSE r[1]
      BY <1>7, <1>8
    <2>. QED  BY <1>8, <1>10, <1>11, <1>12, <2>1 DEF List
  <1>. QED  BY <1>1, <1>2, <1>13

\* A clear bucket is given to an address that has none in a sound table: the
\* table is sound, and the other buckets keep what is in them.
LEMMA LinkSound ==
    ASSUME now \in Time, NEW t, SoundTable(t), NEW b \in Bucket, NEW a \in Address,
           t.buckets[b].address = NA_BAD,
           \A c \in Bucket : t.buckets[c].address # a
    PROVE  /\ SoundTable(Link(t, b, a))
           /\ Link(t, b, a).buckets[b].address = a
           /\ Link(t, b, a).buckets[b].lastTime = now
           /\ Link(t, b, a).buckets[b].burst = 0
           /\ \A c \in Bucket \ {b} :
                 /\ Link(t, b, a).buckets[c].address = t.buckets[c].address
                 /\ Link(t, b, a).buckets[c].lastTime = t.buckets[c].lastTime
                 /\ Link(t, b, a).buckets[c].burst = t.buckets[c].burst
  <1>1. t \in Tables /\ a # NA_BAD /\ Hash(a) \in Hashes
    BY RateLimitAssumption DEF SoundTable, Hashes
  <1>2. PICK u : u = Link(t, b, a)
    OBVIOUS
  <1>3. PICK head : head = t.hashes[Hash(a)]
    OBVIOUS
  <1>4. PICK i \in Nat : \E r : List(t, Hash(a), i, r)
    BY <1>1 DEF SoundTable
  <1>5. PICK r : List(t, Hash(a), i, r)
    BY <1>4
  <1>6. u \in Tables
    BY <1>1, <1>2, LinkFields
  <1>7. /\ u.buckets[b].address = a /\ u.buckets[b].lastTime = now
        /\ u.buckets[b].burst = 0 /\ u.buckets[b].hash = Hash(a)
    BY <1>1, <1>2, LinkFields
  <1>8. ASSUME NEW c \in Bucket \ {b}
        PROVE  u.buckets[c].address = t.buckets[c].address
    BY <1>1, <1>2, LinkFields
  <1>9. ASSUME NEW c \in Bucket \ {b}
        PROVE  u.buckets[c].lastTime = t.buckets[c].lastTime
    BY <1>1, <1>2, LinkFields
  <1>10. ASSUME NEW c \in Bucket \ {b}
         PROVE  u.buckets[c].burst = t.buckets[c].burst
    BY <1>1, <1>2, LinkFields
  <1>11. ASSUME NEW c \in Bucket \ {b}
         PROVE  u.buckets[c].hash = t.buckets[c].hash
    BY <1>1, <1>2, LinkFields
  <1>12. ASSUME NEW c \in Bucket \ {b}, t.buckets[c].address = NA_BAD
         PROVE  u.buckets[c] = Cleared
    <2>1. t.buckets[c] = Cleared
      BY <1>12 DEF SoundTable
    <2>2. c # head
      <3>1. head = IF i = 0 THEN Null ELSE r[1]
        BY <1>3, <1>5 DEF List
      <3>2. i # 0 => t.buckets[r[1]].address # NA_BAD
        <4>1. i # 0 => 1 \in 1..i
          OBVIOUS
        <4>. QED  BY <1>5, <4>1 DEF List
      <3>3. c # Null
        BY DEF Null, Bucket
      <3>. QED  BY <1>12, <3>1, <3>2, <3>3
    <2>3. u.buckets[c] = t.buckets[c]
      BY <1>1, <1>2, <1>3, <2>2, LinkFields
    <2>. QED  BY <2>1, <2>3
  <1>13. ASSUME NEW h \in Hashes
         PROVE  \E n \in Nat : \E s : List(u, h, n, s)
    <2>1. CASE h = Hash(a)
      <3>1. \E s : List(Link(t, b, a), Hash(a), i + 1, s)
        BY <1>1, <1>5, LinkOwn
      <3>. QED  BY <1>2, <2>1, <3>1
    <2>2. CASE h # Hash(a)
      <3>1. PICK n \in Nat : \E s : List(t, h, n, s)
        BY DEF SoundTable
      <3>2. PICK s : List(t, h, n, s)
        BY <3>1
      <3>3. List(Link(t, b, a), h, n, s)
        BY <1>1, <1>5, <2>2, <3>2, LinkOther
      <3>. QED  BY <1>2, <3>3
    <2>. QED  BY <2>1, <2>2
  <1>14. ASSUME NEW c \in Bucket
         PROVE  IF u.buckets[c].address = NA_BAD THEN u.buckets[c] = Cleared
                ELSE u.buckets[c].hash = Hash(u.buckets[c].address)
    BY <1>1, <1>7, <1>8, <1>11, <1>12 DEF SoundTable
  <1>15. ASSUME NEW c \in Bucket, NEW d \in Bucket,
                u.buckets[c].address = u.buckets[d].address
         PROVE  c = d \/ u.buckets[c].address = NA_BAD
    BY <1>7, <1>8, <1>15 DEF SoundTable
  <1>16. SoundTable(u)
    BY <1>6, <1>13, <1>14, <1>15 DEF SoundTable
  <1>. QED  BY <1>2, <1>7, <1>8, <1>9, <1>10, <1>16
-----------------------------------------------------------------------------
(* The bucket of an address *)

\* The buckets of an address's chain are those with an address of its hash, so
\* its own bucket is among them.
LEMMA OwnBucket ==
    ASSUME SoundTable(Table), NEW a \in Address
    PROVE  \E s :
              /\ Walk(Table, Hash(a)) = s /\ DOMAIN s \subseteq Nat
              /\ \A k \in DOMAIN s : s[k] \in Bucket
              /\ \A b \in Bucket :
                    buckets[b].address = a => \E k \in DOMAIN s : s[k] = b
  <1>1. Hash(a) \in Hashes /\ a # NA_BAD
    BY RateLimitAssumption DEF Hashes
  <1>2. PICK n \in Nat : \E s : List(Table, Hash(a), n, s)
    BY <1>1 DEF SoundTable
  <1>3. PICK s : List(Table, Hash(a), n, s)
    BY <1>2
  <1>4. Walk(Table, Hash(a)) = s
    BY <1>3, WalkIs
  <1>5. Table.buckets = buckets
    BY DEF Table
  <1>6. s \in [1..n -> Bucket]
    BY <1>3 DEF List
  <1>7. ASSUME NEW b \in Bucket, buckets[b].address = a
        PROVE  \E k \in 1..n : s[k] = b
    BY <1>1, <1>3, <1>5, <1>7 DEF List
  <1>. QED  BY <1>4, <1>6, <1>7

\* A time's age, when the time is not later than now.
LEMMA AgeRange ==
    ASSUME now \in Time, NEW t \in Time
    PROVE  /\ Age(t) \in Int
           /\ Clock(t) <= Clock(now) <=> 0 <= Age(t)
           /\ 0 <= Age(t) => Age(t) <= 2 * IntMax + 1
           /\ Age(now) = 0
  <1>1. /\ Clock(now) \in 0..(2 * IntMax + 1) /\ Clock(t) \in 0..(2 * IntMax + 1)
        /\ IntMax \in Nat
    BY ClockRange, RateLimitAssumption
  <1>. QED  BY <1>1 DEF Age

\* A bucket that may be reclaimed has run dry; one that may not was used lately
\* or at a time that is not counted as one.
LEMMA ExpiredAge ==
    ASSUME TypeOK, NEW b \in Bucket, 0 <= Age(buckets[b].lastTime)
    PROVE  /\ Expired(b) => Burst * Period < Age(buckets[b].lastTime)
           /\ ~Expired(b) => \/ buckets[b].lastTime <= 0
                             \/ Age(buckets[b].lastTime) <= Burst * Period
  <1>1. PICK t \in Time : t = buckets[b].lastTime
    BY DEF TypeOK, LeakyBucket
  <1>2. now \in Time
    BY DEF TypeOK
  <1>3. /\ Wrap(now - t) = IF Age(t) <= IntMax THEN Age(t)
                           ELSE Age(t) - 2 * (IntMax + 1)
        /\ Age(t) \in 0..(2 * IntMax + 1)
    <2>1. Clock(t) <= Clock(now) /\ Age(t) \in Int /\ Age(t) <= 2 * IntMax + 1
      BY <1>1, <1>2, AgeRange
    <2>2. Age(t) = Clock(now) - Clock(t)
      BY DEF Age
    <2>3. 0 <= Age(t)
      BY <1>1
    <2>4. Wrap(now - t) = IF Age(t) <= IntMax THEN Age(t)
                          ELSE Age(t) - 2 * (IntMax + 1)
      BY <1>2, <2>1, <2>2, WrapInterval
    <2>. QED  BY <2>1, <2>3, <2>4, RateLimitAssumption
  <1>4. /\ IntMax \in Nat /\ Burst * Period \in 0..IntMax /\ t \in Int
    BY <1>1, RateLimitAssumption DEF Time, IntMin
  <1>5. Expired(b) <=>
          t > 0 /\ (Wrap(now - t) > Burst * Period \/ Wrap(now - t) < 0)
    BY <1>1 DEF Expired
  <1>. DEFINE limit == Burst * Period
              age == Age(t)
              interval == Wrap(now - t)
  <1>6. /\ interval = IF age <= IntMax THEN age ELSE age - 2 * (IntMax + 1)
        /\ age \in 0..(2 * IntMax + 1) /\ limit \in 0..IntMax
        /\ Expired(b) <=> t > 0 /\ (interval > limit \/ interval < 0)
    BY <1>3, <1>4, <1>5
  <1>. HIDE DEF limit, age, interval
  <1>7. /\ Expired(b) => limit < age
        /\ ~Expired(b) => t <= 0 \/ age <= limit
    BY <1>4, <1>6
  <1>. QED  BY <1>1, <1>7 DEF limit, age

\* SVC_BucketForAddress finds the bucket of the address, or a new one that was
\* clear or had run dry; the table stays sound and the other buckets keep what
\* is in them.
LEMMA FoundBucket ==
    ASSUME TypeOK, SoundTable(Table), NEW a \in Address, NEW found,
           found = SVC_BucketForAddress(a), found.bucket # Null
    PROVE  /\ found.bucket \in Bucket
           /\ SoundTable(found.table)
           /\ found.table.buckets[found.bucket].address = a
           /\ \A c \in Bucket \ {found.bucket} :
                 /\ found.table.buckets[c].address = buckets[c].address
                 /\ found.table.buckets[c].lastTime = buckets[c].lastTime
                 /\ found.table.buckets[c].burst = buckets[c].burst
           /\ \/ /\ found.table = Table
                 /\ buckets[found.bucket].address = a
              \/ /\ found.table.buckets[found.bucket].lastTime = now
                 /\ found.table.buckets[found.bucket].burst = 0
                 /\ \A c \in Bucket : buckets[c].address # a
                 /\ \/ buckets[found.bucket].address = NA_BAD
                    \/ Expired(found.bucket)
  <1>1. PICK s :
            /\ Walk(Table, Hash(a)) = s /\ DOMAIN s \subseteq Nat
            /\ \A k \in DOMAIN s : s[k] \in Bucket
            /\ \A b \in Bucket :
                  buckets[b].address = a => \E k \in DOMAIN s : s[k] = b
    BY OwnBucket
  <1>. DEFINE own == {k \in DOMAIN s : buckets[s[k]].address = a}
              b == Min(Free)
              emptied == IF buckets[b].address = NA_BAD /\ ~Expired(b) THEN Table
                         ELSE Unlink(Table, b)
  <1>2. found = IF own # {} THEN [table |-> Table, bucket |-> s[Min(own)]]
                ELSE IF Free = {} THEN [table |-> Table, bucket |-> Null]
                ELSE [table |-> Link(emptied, b, a), bucket |-> b]
    BY <1>1 DEF SVC_BucketForAddress
  <1>3. Table.buckets = buckets /\ now \in Time /\ a # NA_BAD
    BY RateLimitAssumption DEF Table, TypeOK
  <1>4. CASE own # {}
    <2>1. Min(own) \in own
      <3>1. own \subseteq Nat
        BY <1>1
      <3>. HIDE DEF own
      <3>. QED  BY <1>4, <3>1, LeastNatural
    <2>2. s[Min(own)] \in Bucket /\ buckets[s[Min(own)]].address = a
      <3>1. PICK k : k = Min(own)
        OBVIOUS
      <3>2. k \in DOMAIN s /\ buckets[s[k]].address = a
        BY <2>1, <3>1
      <3>. QED  BY <1>1, <3>1, <3>2
    <2>. HIDE DEF own
    <2>3. found.table = Table /\ found.bucket = s[Min(own)]
      BY <1>2, <1>4
    <2>. QED  BY <1>3, <2>2, <2>3
  <1>5. CASE own = {}
    <2>1. Free # {} /\ found.table = Link(emptied, b, a) /\ found.bucket = b
      <3>. HIDE DEF own, b, emptied
      <3>. QED  BY <1>2, <1>5
    <2>2. b \in Free
      <3>1. Free \subseteq Nat
        BY DEF Free, Bucket
      <3>. QED  BY <2>1, <3>1, LeastNatural
    <2>3. b \in Bucket /\ (buckets[b].address = NA_BAD \/ Expired(b))
      BY <2>2 DEF Free
    <2>4. \A c \in Bucket : buckets[c].address # a
      BY <1>1, <1>5
    <2>. HIDE DEF own, b
    <2>5. /\ SoundTable(emptied) /\ emptied.buckets[b].address = NA_BAD
          /\ \A c \in Bucket \ {b} :
                /\ emptied.buckets[c].address = buckets[c].address
                /\ emptied.buckets[c].lastTime = buckets[c].lastTime
                /\ emptied.buckets[c].burst = buckets[c].burst
      <3>1. CASE buckets[b].address = NA_BAD
        <4>1. buckets[b].lastTime = 0
          BY <1>3, <2>3, <3>1 DEF SoundTable, Cleared
        <4>2. ~Expired(b)
          BY <4>1 DEF Expired
        <4>. QED  BY <1>3, <3>1, <4>2
      <3>2. CASE buckets[b].address # NA_BAD
        <4>1. emptied = Unlink(Table, b)
          BY <3>2
        <4>. HIDE DEF emptied
        <4>2. Table.buckets[b].address # NA_BAD
          BY <1>3, <3>2
        <4>3. /\ SoundTable(emptied) /\ emptied.buckets[b] = Cleared
              /\ \A c \in Bucket \ {b} :
                    /\ emptied.buckets[c].address = Table.buckets[c].address
                    /\ emptied.buckets[c].lastTime = Table.buckets[c].lastTime
                    /\ emptied.buckets[c].burst = Table.buckets[c].burst
          BY <2>3, <4>1, <4>2, UnlinkSound
        <4>4. emptied.buckets[b].address = NA_BAD
          BY <4>3 DEF Cleared
        <4>. QED  BY <1>3, <4>3, <4>4
      <3>. QED  BY <3>1, <3>2
    <2>. HIDE DEF emptied
    <2>6. \A c \in Bucket : emptied.buckets[c].address # a
      BY <1>3, <2>4, <2>5
    <2>7. /\ SoundTable(Link(emptied, b, a))
          /\ Link(emptied, b, a).buckets[b].address = a
          /\ Link(emptied, b, a).buckets[b].lastTime = now
          /\ Link(emptied, b, a).buckets[b].burst = 0
          /\ \A c \in Bucket \ {b} :
                /\ Link(emptied, b, a).buckets[c].address = emptied.buckets[c].address
                /\ Link(emptied, b, a).buckets[c].lastTime = emptied.buckets[c].lastTime
                /\ Link(emptied, b, a).buckets[c].burst = emptied.buckets[c].burst
      BY <1>3, <2>3, <2>5, <2>6, LinkSound
    <2>. QED  BY <2>1, <2>3, <2>4, <2>5, <2>7
  <1>. QED  BY <1>4, <1>5

\* A table whose buckets hold more or less is as sound.
LEMMA LevelsSound ==
    ASSUME NEW t, SoundTable(t), NEW b \in Bucket, t.buckets[b].address # NA_BAD,
           NEW level \in 0..Burst, NEW time \in Time, NEW u,
           u = [buckets |-> [t.buckets EXCEPT
                    ![b] = [t.buckets[b] EXCEPT !.burst = level, !.lastTime = time]],
                hashes |-> t.hashes]
    PROVE  SoundTable(u)
  <1>1. /\ t \in Tables /\ \A c \in Bucket : t.buckets[c] \in LeakyBucket
        /\ DOMAIN t.buckets = Bucket
    BY DEF SoundTable, Tables
  <1>2. PICK x : x = [t.buckets[b] EXCEPT !.burst = level, !.lastTime = time]
    OBVIOUS
  <1>3. /\ x \in LeakyBucket /\ x.address = t.buckets[b].address
        /\ x.hash = t.buckets[b].hash /\ x.next = t.buckets[b].next
        /\ x.prev = t.buckets[b].prev
    BY <1>1, <1>2 DEF LeakyBucket
  <1>4. /\ \A c \in Bucket : u.buckets[c] = IF c = b THEN x ELSE t.buckets[c]
        /\ u.buckets = [t.buckets EXCEPT ![b] = x] /\ u.hashes = t.hashes
        /\ u = [buckets |-> u.buckets, hashes |-> u.hashes]
    BY <1>1, <1>2
  <1>5. u \in Tables
    <2>1. u.buckets \in [Bucket -> LeakyBucket]
      BY <1>1, <1>3, <1>4 DEF Tables
    <2>. QED  BY <1>1, <1>4, <2>1 DEF Tables
  <1>6. \A c \in Bucket : /\ u.buckets[c].address = t.buckets[c].address
                          /\ u.buckets[c].hash = t.buckets[c].hash
                          /\ u.buckets[c].next = t.buckets[c].next
                          /\ u.buckets[c].prev = t.buckets[c].prev
    BY <1>3, <1>4
  <1>7. ASSUME NEW h \in Hashes
        PROVE  \E n \in Nat : \E s : List(u, h, n, s)
    <2>1. PICK n \in Nat : \E s : List(t, h, n, s)
      BY DEF SoundTable
    <2>2. PICK s : List(t, h, n, s)
      BY <2>1
    <2>3. s \in [1..n -> Bucket]
      BY <2>2 DEF List
    <2>4. ASSUME NEW k \in 1..n
          PROVE  /\ u.buckets[s[k]].next = IF k = n THEN Null ELSE s[k + 1]
                 /\ u.buckets[s[k]].prev = IF k = 1 THEN Null ELSE s[k - 1]
      BY <1>6, <2>2, <2>3 DEF List
    <2>5. ASSUME NEW c \in Bucket
          PROVE  (\E k \in 1..n : s[k] = c) <=>
                     /\ u.buckets[c].address # NA_BAD
                     /\ Hash(u.buckets[c].address) = h
      <3>1. (\E k \in 1..n : s[k] = c) <=>
                /\ t.buckets[c].address # NA_BAD
                /\ Hash(t.buckets[c].address) = h
        BY <2>2 DEF List
      <3>. QED  BY <1>6, <3>1
    <2>6. /\ \A j, k \in 1..n : s[j] = s[k] => j = k
          /\ u.hashes[h] = IF n = 0 THEN Null ELSE s[1]
      BY <1>4, <2>2 DEF List
    <2>7. List(u, h, n, s)
      BY <2>3, <2>4, <2>5, <2>6 DEF List
    <2>. QED  BY <2>7
  <1>8. ASSUME NEW c \in Bucket
        PROVE  IF u.buckets[c].address = NA_BAD THEN u.buckets[c] = Cleared
               ELSE u.buckets[c].hash = Hash(u.buckets[c].address)
    BY <1>4, <1>6 DEF SoundTable
  <1>9. ASSUME NEW c \in Bucket, NEW d \in Bucket,
               u.buckets[c].address = u.buckets[d].address
        PROVE  c = d \/ u.buckets[c].address = NA_BAD
    BY <1>6, <1>9 DEF SoundTable
  <1>. QED  BY <1>5, <1>7, <1>8, <1>9 DEF SoundTable
-----------------------------------------------------------------------------
(* Requests *)

\* What SVC_RateLimit takes from the bucket found for an address: its requests
\* fit what is left in it.
LEMMA FoundLeaks ==
    ASSUME IInv, NEW a \in Address, NEW found,
           found = SVC_BucketForAddress(a), found.bucket # Null
    PROVE  \E level \in 0..Burst, time \in Time :
              /\ Leaked(found.table.buckets[found.bucket], Period) =
                   [found.table.buckets[found.bucket] EXCEPT
                       !.burst = level, !.lastTime = time]
              /\ Age(time) \in 0..(Period - 1)
              /\ Fits(admitted[a], level, Age(time), Period)
  <1>1. /\ TypeOK /\ SoundTable(Table) /\ AddressesFit /\ now \in Time
        /\ Table.buckets = buckets
    BY DEF IInv, TypeOK, Table
  <1>2. PICK b \in Bucket : b = found.bucket
    BY <1>1, FoundBucket
  <1>3. PICK x : x = found.table.buckets[b]
    OBVIOUS
  <1>4. x \in LeakyBucket
    <2>1. SoundTable(found.table)
      BY <1>1, FoundBucket
    <2>. QED  BY <1>2, <1>3, <2>1 DEF SoundTable, Tables
  <1>5. x.lastTime \in Time /\ x.burst \in 0..Burst
    BY <1>4 DEF LeakyBucket
  <1>6. /\ Burst \in Nat /\ Period \in Nat \ {0} /\ Burst * Period <= IntMax
        /\ Window \in Nat /\ NA_BAD \notin Address
    BY RateLimitAssumption
  <1>7. admitted[a] \in [0..Window -> Nat]
    BY <1>1 DEF TypeOK
  <1>8. 0 <= Age(x.lastTime) /\ Fits(admitted[a], x.burst, Age(x.lastTime), Period)
    <2>1. CASE found.table = Table /\ buckets[b].address = a
      <3>1. x = buckets[b] /\ buckets[b].address # NA_BAD
        BY <1>1, <1>3, <1>6, <2>1
      <3>2. /\ used[b] <= Age(buckets[b].lastTime)
            /\ Fits(admitted[a], buckets[b].burst, Age(buckets[b].lastTime), Period)
        BY <1>1, <2>1, <3>1 DEF AddressesFit
      <3>3. used[b] \in 0..Window
        BY <1>1 DEF TypeOK
      <3>4. Age(x.lastTime) \in Int
        BY <1>1, <1>5, AgeRange
      <3>. QED  BY <1>6, <3>1, <3>2, <3>3, <3>4
    <2>2. CASE x.lastTime = now /\ x.burst = 0 /\ \A c \in Bucket : buckets[c].address # a
      <3>1. Age(x.lastTime) = 0
        BY <1>1, <2>2, AgeRange
      <3>2. Fits(admitted[a], 0, 0, Period)
        BY <1>1, <2>2 DEF AddressesFit
      <3>. QED  BY <2>2, <3>1, <3>2
    <2>. QED  BY <1>1, <1>2, <1>3, <2>1, <2>2, FoundBucket
  <1>. QED  BY <1>1, <1>2, <1>3, <1>5, <1>6, <1>7, <1>8, LeakedFits

\* A request changes only the bucket found for its address, and what it leaves
\* there fits the address's requests; a bucket that was reclaimed for it had
\* run dry.
LEMMA RequestKeeps ==
    ASSUME IInv, NEW a \in Address, NEW found,
           found = SVC_BucketForAddress(a), found.bucket # Null,
           NEW level \in 0..Burst, NEW time \in Time, 0 <= Age(time),
           NEW recent \in [0..Window -> Nat], Fits(recent, level, Age(time), Period),
           now' = now,
           buckets' = [found.table.buckets EXCEPT
               ![found.bucket] = [found.table.buckets[found.bucket] EXCEPT
                                     !.burst = level, !.lastTime = time]],
           bucketHashes' = found.table.hashes,
           admitted' = [admitted EXCEPT ![a] = recent],
           used' = [used EXCEPT ![found.bucket] = 0]
    PROVE  /\ buckets' \in [Bucket -> LeakyBucket]
           /\ bucketHashes' \in [Hashes -> Bucket \cup {Null}]
           /\ admitted' \in [Address -> [0..Window -> Nat]]
           /\ used' \in [Bucket -> 0..Window]
           /\ SoundTable(Table)'
           /\ AddressesFit'
  <1>1. /\ TypeOK /\ SoundTable(Table) /\ AddressesFit /\ now \in Time
        /\ Table.buckets = buckets /\ NA_BAD \notin Address /\ Window \in Nat
    BY RateLimitAssumption DEF IInv, TypeOK, Table
  <1>2. PICK b \in Bucket : b = found.bucket
    BY <1>1, FoundBucket
  <1>3. PICK t : t = found.table
    OBVIOUS
  <1>4. /\ SoundTable(t) /\ t.buckets[b].address = a
        /\ \A c \in Bucket \ {b} :
              /\ t.buckets[c].address = buckets[c].address
              /\ t.buckets[c].lastTime = buckets[c].lastTime
              /\ t.buckets[c].burst = buckets[c].burst
        /\ \/ t = Table /\ buckets[b].address = a
           \/ /\ \A c \in Bucket : buckets[c].address # a
              /\ buckets[b].address = NA_BAD \/ Expired(b)
    BY <1>1, <1>2, <1>3, FoundBucket
  <1>5. PICK u : u = [buckets |-> [t.buckets EXCEPT
                         ![b] = [t.buckets[b] EXCEPT
                                    !.burst = level, !.lastTime = time]],
                      hashes |-> t.hashes]
    OBVIOUS
  <1>6. SoundTable(u)
    BY <1>1, <1>4, <1>5, LevelsSound
  <1>7. buckets' = u.buckets /\ bucketHashes' = u.hashes
    BY <1>2, <1>3, <1>5
  <1>8. Table' = u
    BY <1>5, <1>7 DEF Table
  <1>9. SoundTable(Table)'
    BY <1>6, <1>8 DEF SoundTable, List
  <1>10. /\ buckets' \in [Bucket -> LeakyBucket]
         /\ bucketHashes' \in [Hashes -> Bucket \cup {Null}]
    BY <1>6, <1>7 DEF SoundTable, Tables
  <1>11. /\ admitted' \in [Address -> [0..Window -> Nat]]
         /\ used' \in [Bucket -> 0..Window]
    BY <1>1, <1>2 DEF TypeOK
  <1>12. /\ buckets'[b].address = a /\ buckets'[b].burst = level
         /\ buckets'[b].lastTime = time
         /\ \A c \in Bucket \ {b} :
               /\ buckets'[c].address = buckets[c].address
               /\ buckets'[c].lastTime = buckets[c].lastTime
               /\ buckets'[c].burst = buckets[c].burst
    <2>1. /\ DOMAIN t.buckets = Bucket /\ t.buckets[b] \in LeakyBucket
      BY <1>4 DEF SoundTable, Tables
    <2>2. /\ buckets'[b] = [t.buckets[b] EXCEPT !.burst = level, !.lastTime = time]
          /\ \A c \in Bucket \ {b} : buckets'[c] = t.buckets[c]
      BY <1>5, <1>7, <2>1
    <2>3. ASSUME NEW x \in LeakyBucket, NEW y,
                 y = [x EXCEPT !.burst = level, !.lastTime = time]
          PROVE  y.address = x.address /\ y.burst = level /\ y.lastTime = time
      BY <2>3 DEF LeakyBucket
    <2>4. /\ buckets'[b].address = t.buckets[b].address
          /\ buckets'[b].burst = level /\ buckets'[b].lastTime = time
      BY <2>1, <2>2, <2>3
    <2>5. t.buckets[b].address = a
      BY <1>4
    <2>6. ASSUME NEW c \in Bucket \ {b}
          PROVE  /\ buckets'[c].address = buckets[c].address
                 /\ buckets'[c].lastTime = buckets[c].lastTime
                 /\ buckets'[c].burst = buckets[c].burst
      <3>1. buckets'[c] = t.buckets[c]
        BY <2>2
      <3>2. /\ t.buckets[c].address = buckets[c].address
            /\ t.buckets[c].lastTime = buckets[c].lastTime
            /\ t.buckets[c].burst = buckets[c].burst
        BY <1>4
      <3>. QED  BY <3>1, <3>2
    <2>. QED  BY <2>4, <2>5, <2>6
  <1>13. /\ admitted'[a] = recent /\ used'[b] = 0
         /\ \A x \in Address \ {a} : admitted'[x] = admitted[x]
         /\ \A c \in Bucket \ {b} : used'[c] = used[c]
    BY <1>1, <1>2 DEF TypeOK
  <1>14. ASSUME NEW x
         PROVE  Clock(now') - Clock(x) = Age(x)
    BY DEF Age, Clock
  <1>15. \A c \in Bucket \ {b} : buckets[c].address # a
    BY <1>1, <1>4 DEF SoundTable
  <1>16. ASSUME NEW c \in Bucket, buckets'[c].address # NA_BAD
         PROVE  /\ used'[c] <= Clock(now') - Clock(buckets'[c].lastTime)
                /\ Fits(admitted'[buckets'[c].address], buckets'[c].burst,
                        Clock(now') - Clock(buckets'[c].lastTime), Period)
    <2>1. CASE c = b
      BY <1>12, <1>13, <1>14, <2>1
    <2>2. CASE c # b
      <3>1. /\ buckets'[c].address = buckets[c].address
            /\ buckets'[c].lastTime = buckets[c].lastTime
            /\ buckets'[c].burst = buckets[c].burst
            /\ used'[c] = used[c]
        BY <1>12, <1>13, <2>2
      <3>2. buckets[c].address \in Address \ {a}
        BY <1>1, <1>15, <1>16, <2>2, <3>1 DEF TypeOK, LeakyBucket
      <3>3. admitted'[buckets[c].address] = admitted[buckets[c].address]
        BY <1>13, <3>2
      <3>4. /\ used[c] <= Age(buckets[c].lastTime)
            /\ Fits(admitted[buckets[c].address], buckets[c].burst,
                    Age(buckets[c].lastTime), Period)
        BY <1>1, <1>16, <3>1 DEF AddressesFit
      <3>. QED  BY <1>14, <3>1, <3>3, <3>4
    <2>. QED  BY <2>1, <2>2
  <1>17. ASSUME NEW x \in Address, \A c \in Bucket : buckets'[c].address # x
         PROVE  Fits(admitted'[x], 0, 0, Period)
    <2>1. x # a
      BY <1>12, <1>17
    <2>2. admitted'[x] = admitted[x]
      BY <1>13, <2>1
    <2>3. \A c \in Bucket \ {b} : buckets[c].address # x
      BY <1>12, <1>17
    <2>4. CASE buckets[b].address # x
      BY <1>1, <2>2, <2>3, <2>4 DEF AddressesFit
    <2>5. CASE buckets[b].address = x
      <3>1. Expired(b)
        BY <1>1, <1>4, <2>1, <2>5
      <3>2. /\ used[b] <= Age(buckets[b].lastTime)
            /\ Fits(admitted[x], buckets[b].burst, Age(buckets[b].lastTime), Period)
        BY <1>1, <2>5 DEF AddressesFit
      <3>3. /\ used[b] \in 0..Window /\ buckets[b].lastTime \in Time
            /\ buckets[b].burst \in 0..Burst /\ admitted[x] \in [0..Window -> Nat]
        BY <1>1 DEF TypeOK, LeakyBucket
      <3>4. Age(buckets[b].lastTime) \in Int
        BY <1>1, <3>3, AgeRange
      <3>5. 0 <= Age(buckets[b].lastTime)
        BY <1>1, <3>2, <3>3, <3>4
      <3>6. Burst * Period < Age(buckets[b].lastTime)
        BY <1>1, <3>1, <3>5, ExpiredAge
      <3>7. /\ Burst \in Nat /\ Period \in Nat \ {0} /\ Burst * Period \in Int
            /\ Burst * Period = Period * Burst
        BY RateLimitAssumption
      <3>8. /\ Period * buckets[b].burst <= Period * Burst
            /\ Period * buckets[b].burst \in Int
        BY <3>3, <3>7, Products
      <3>9. Period * buckets[b].burst <= Age(buckets[b].lastTime)
        BY <3>4, <3>6, <3>7, <3>8
      <3>10. buckets[b].burst \in Nat /\ Age(buckets[b].lastTime) \in Nat
        BY <3>3, <3>4, <3>5, <3>7
      <3>11. Fits(admitted[x], 0, 0, Period)
        BY <3>2, <3>3, <3>7, <3>9, <3>10, EmptyFits
      <3>. QED  BY <2>2, <3>11
    <2>. QED  BY <2>4, <2>5
  <1>18. AddressesFit'
    BY <1>16, <1>17 DEF AddressesFit, Age, Fits
  <1>. QED  BY <1>9, <1>10, <1>11, <1>18
\* The replies fit their bucket, whether there is one more or not.
LEMMA ReplyKeeps ==
    ASSUME IInv, NEW out, out = SVC_RateLimit(outboundLeakyBucket, OutBurst, OutPeriod),
           now' = now, outboundLeakyBucket' = out.bucket,
           replies' = IF out.limited THEN replies ELSE OneMore(replies)
    PROVE  /\ outboundLeakyBucket' \in [lastTime : Time, burst : 0..OutBurst]
           /\ replies' \in [0..Window -> Nat]
           /\ RepliesFit'
  <1>1. PICK x \in [lastTime : Time, burst : 0..OutBurst] : x = outboundLeakyBucket
    BY DEF IInv, TypeOK
  <1>2. /\ now \in Time /\ replies \in [0..Window -> Nat] /\ 0 <= Age(x.lastTime)
        /\ Fits(replies, x.burst, Age(x.lastTime), OutPeriod)
        /\ x.lastTime \in Time /\ x.burst \in 0..OutBurst
    BY <1>1 DEF IInv, TypeOK, RepliesFit
  <1>3. /\ OutBurst \in Nat /\ OutPeriod \in Nat \ {0}
        /\ OutBurst * OutPeriod <= IntMax
    BY RateLimitAssumption
  <1>4. PICK level \in 0..OutBurst, time \in Time :
            /\ Leaked(x, OutPeriod) = [x EXCEPT !.burst = level, !.lastTime = time]
            /\ Age(time) \in 0..(OutPeriod - 1)
            /\ Fits(replies, level, Age(time), OutPeriod)
    BY <1>2, <1>3, LeakedFits
  <1>5. PICK y : y = Leaked(x, OutPeriod)
    OBVIOUS
  <1>6. y = [lastTime |-> time, burst |-> level]
    BY <1>1, <1>4, <1>5
  <1>7. out = IF y.burst < OutBurst
              THEN [bucket |-> [y EXCEPT !.burst = @ + 1], limited |-> FALSE]
              ELSE [bucket |-> y, limited |-> TRUE]
    BY <1>1, <1>5 DEF SVC_RateLimit
  <1>8. \A t : Clock(now') - Clock(t) = Age(t)
    BY DEF Age, Clock
  <1>9. CASE level < OutBurst
    <2>1. /\ outboundLeakyBucket' = [lastTime |-> time, burst |-> level + 1]
          /\ replies' = OneMore(replies)
      BY <1>6, <1>7, <1>9
    <2>2. /\ replies' \in [0..Window -> Nat]
          /\ Fits(replies', level + 1, Age(time), OutPeriod)
      BY <1>2, <1>3, <1>4, <2>1, OneMoreFits
    <2>3. level + 1 \in 0..OutBurst /\ 0 <= Age(time)
      BY <1>3, <1>4, <1>9
    <2>4. RepliesFit'
      BY <1>8, <2>1, <2>2, <2>3 DEF RepliesFit, Age, Fits
    <2>. QED  BY <2>1, <2>2, <2>3, <2>4
  <1>10. CASE ~(level < OutBurst)
    <2>1. /\ outboundLeakyBucket' = [lastTime |-> time, burst |-> level]
          /\ replies' = replies
      BY <1>6, <1>7, <1>10
    <2>2. RepliesFit'
      BY <1>4, <1>8, <2>1 DEF RepliesFit, Age, Fits
    <2>. QED  BY <1>2, <2>1, <2>2
  <1>. QED  BY <1>9, <1>10

-----------------------------------------------------------------------------
(* The invariant *)

\* Initially no bucket has an address and nothing was let through.
LEMMA InitIInv ==
    Init => IInv
  <1>. SUFFICES ASSUME Init  PROVE IInv
    OBVIOUS
  <1>1. /\ Window \in Nat /\ 0 \in Time /\ 0 \in 0..OutBurst /\ IntMax \in Nat
        /\ Period \in Nat \ {0} /\ OutPeriod \in Nat \ {0}
        /\ MAX_HASHES \in Nat \ {0} /\ NA_BAD \notin Address
    BY RateLimitAssumption DEF Time, IntMin
  <1>2. \A b \in Bucket : buckets[b] = Cleared /\ buckets[b].address = NA_BAD
    BY DEF Init, Cleared
  <1>3. TypeOK
    BY <1>1, ClearedType DEF Init, TypeOK
  <1>4. SoundTable(Table)
    <2>1. /\ Table.buckets = buckets /\ Table.hashes = bucketHashes
      BY DEF Table
    <2>2. Table \in Tables
      BY <1>3 DEF Table, Tables, TypeOK, Hashes
    <2>3. ASSUME NEW h \in Hashes
          PROVE  \E n \in Nat : \E s : List(Table, h, n, s)
      <3>. DEFINE s == [k \in 1..0 |-> 1]
      <3>1. s \in [1..0 -> Bucket] /\ 1..0 = {}
        OBVIOUS
      <3>2. Table.hashes[h] = Null
        BY <2>1 DEF Init, Hashes
      <3>. HIDE DEF s
      <3>3. List(Table, h, 0, s)
        BY <1>2, <2>1, <3>1, <3>2 DEF List
      <3>. QED  BY <3>3
    <2>. QED  BY <1>2, <2>1, <2>2, <2>3 DEF SoundTable
  <1>5. AddressesFit
    BY <1>1, <1>2 DEF AddressesFit, Fits, Init
  <1>6. RepliesFit
    <2>1. Age(0) = 0
      BY <1>1, AgeRange DEF Init
    <2>. QED  BY <1>1, <2>1 DEF RepliesFit, Fits, Init
  <1>. QED  BY <1>3, <1>4, <1>5, <1>6 DEF IInv

\* A request that is refused for its number leaks its bucket.
LEMMA TooManyKeeps ==
    ASSUME IInv, NEW a \in Address, TooMany(a)
    PROVE  IInv'
  <1>1. PICK found : found = SVC_BucketForAddress(a)
    OBVIOUS
  <1>2. PICK x : x = found.table.buckets[found.bucket]
    OBVIOUS
  <1>3. PICK limit : limit = SVC_RateLimit(x, Burst, Period)
    OBVIOUS
  <1>4. /\ found.bucket # Null /\ limit.limited
        /\ buckets' = [found.table.buckets EXCEPT ![found.bucket] = limit.bucket]
        /\ bucketHashes' = found.table.hashes
        /\ used' = [used EXCEPT ![found.bucket] = 0]
        /\ now' = now /\ outboundLeakyBucket' = outboundLeakyBucket
        /\ admitted' = admitted /\ replies' = replies
    BY <1>1, <1>2, <1>3, Zenon DEF TooMany
  <1>5. PICK level \in 0..Burst, time \in Time :
            /\ Leaked(x, Period) = [x EXCEPT !.burst = level, !.lastTime = time]
            /\ Age(time) \in 0..(Period - 1)
            /\ Fits(admitted[a], level, Age(time), Period)
    BY <1>1, <1>2, <1>4, FoundLeaks
  <1>6. limit.bucket = [x EXCEPT !.burst = level, !.lastTime = time]
    BY <1>3, <1>4, <1>5 DEF SVC_RateLimit
  <1>7. admitted[a] \in [0..Window -> Nat] /\ admitted' = [admitted EXCEPT ![a] = admitted[a]]
    BY <1>4 DEF IInv, TypeOK
  <1>8. buckets' = [found.table.buckets EXCEPT
            ![found.bucket] = [found.table.buckets[found.bucket] EXCEPT
                                  !.burst = level, !.lastTime = time]]
    BY <1>2, <1>4, <1>6
  <1>9. 0 <= Age(time)
    BY <1>5
  <1>10. /\ buckets' \in [Bucket -> LeakyBucket]
         /\ bucketHashes' \in [Hashes -> Bucket \cup {Null}]
         /\ admitted' \in [Address -> [0..Window -> Nat]]
         /\ used' \in [Bucket -> 0..Window]
         /\ SoundTable(Table)' /\ AddressesFit'
    BY <1>1, <1>4, <1>5, <1>7, <1>8, <1>9, RequestKeeps
  <1>11. TypeOK'
    BY <1>4, <1>10 DEF IInv, TypeOK, Hashes
  <1>12. RepliesFit'
    BY <1>4 DEF IInv, RepliesFit, Age, Fits
  <1>. QED  BY <1>10, <1>11, <1>12 DEF IInv

\* A request that is let through is one more, in its bucket and of its address.
LEMMA AdmittedKeeps ==
    ASSUME IInv, NEW a \in Address, NEW found, NEW limit,
           found = SVC_BucketForAddress(a), found.bucket # Null,
           limit = SVC_RateLimit(found.table.buckets[found.bucket], Burst, Period),
           ~limit.limited,
           buckets' = [found.table.buckets EXCEPT ![found.bucket] = limit.bucket],
           bucketHashes' = found.table.hashes,
           admitted' = [admitted EXCEPT ![a] = OneMore(@)],
           used' = [used EXCEPT ![found.bucket] = 0],
           now' = now
    PROVE  /\ buckets' \in [Bucket -> LeakyBucket]
           /\ bucketHashes' \in [Hashes -> Bucket \cup {Null}]
           /\ admitted' \in [Address -> [0..Window -> Nat]]
           /\ used' \in [Bucket -> 0..Window]
           /\ SoundTable(Table)' /\ AddressesFit'
  <1>1. PICK x : x = found.table.buckets[found.bucket]
    OBVIOUS
  <1>2. PICK level \in 0..Burst, time \in Time :
            /\ Leaked(x, Period) = [x EXCEPT !.burst = level, !.lastTime = time]
            /\ Age(time) \in 0..(Period - 1)
            /\ Fits(admitted[a], level, Age(time), Period)
    BY <1>1, FoundLeaks
  <1>3. x \in LeakyBucket
    <2>1. SoundTable(found.table) /\ found.bucket \in Bucket
      BY FoundBucket DEF IInv
    <2>. QED  BY <1>1, <2>1 DEF SoundTable, Tables
  <1>4. PICK y : y = [x EXCEPT !.burst = level, !.lastTime = time]
    OBVIOUS
  <1>5. y.burst = level /\ [y EXCEPT !.burst = level + 1] =
                               [x EXCEPT !.burst = level + 1, !.lastTime = time]
    BY <1>3, <1>4 DEF LeakyBucket
  <1>6. limit = IF y.burst < Burst
                THEN [bucket |-> [y EXCEPT !.burst = @ + 1], limited |-> FALSE]
                ELSE [bucket |-> y, limited |-> TRUE]
    BY <1>1, <1>2, <1>4 DEF SVC_RateLimit
  <1>7. level < Burst /\ limit.bucket = [y EXCEPT !.burst = level + 1]
    BY <1>5, <1>6
  <1>8. /\ Burst \in Nat /\ Period \in Nat \ {0} /\ admitted[a] \in [0..Window -> Nat]
        /\ level + 1 \in 0..Burst /\ 0 <= Age(time)
        /\ admitted' = [admitted EXCEPT ![a] = OneMore(admitted[a])]
    <2>1. Burst \in Nat /\ Period \in Nat \ {0}
      BY RateLimitAssumption
    <2>2. admitted[a] \in [0..Window -> Nat]
      BY DEF IInv, TypeOK
    <2>3. level + 1 \in 0..Burst /\ 0 <= Age(time)
      BY <1>2, <1>7, <2>1
    <2>4. admitted' = [admitted EXCEPT ![a] = OneMore(admitted[a])]
      OBVIOUS
    <2>. QED  BY <2>1, <2>2, <2>3, <2>4
  <1>9. /\ OneMore(admitted[a]) \in [0..Window -> Nat]
        /\ Fits(OneMore(admitted[a]), level + 1, Age(time), Period)
    BY <1>2, <1>8, OneMoreFits
  <1>10. buckets' = [found.table.buckets EXCEPT
            ![found.bucket] = [found.table.buckets[found.bucket] EXCEPT
                                  !.burst = level + 1, !.lastTime = time]]
    BY <1>1, <1>5, <1>7
  <1>. QED  BY <1>8, <1>9, <1>10, RequestKeeps

\* A request that is let through.
LEMMA RequestIInv ==
    ASSUME IInv, NEW a \in Address, Request(a)
    PROVE  IInv'
  <1>1. PICK found : found = SVC_BucketForAddress(a)
    OBVIOUS
  <1>2. PICK limit :
            limit = SVC_RateLimit(found.table.buckets[found.bucket], Burst, Period)
    OBVIOUS
  <1>3. PICK out : out = SVC_RateLimit(outboundLeakyBucket, OutBurst, OutPeriod)
    OBVIOUS
  <1>4. /\ found.bucket # Null /\ ~limit.limited
        /\ buckets' = [found.table.buckets EXCEPT ![found.bucket] = limit.bucket]
        /\ bucketHashes' = found.table.hashes
        /\ outboundLeakyBucket' = out.bucket
        /\ admitted' = [admitted EXCEPT ![a] = OneMore(@)]
        /\ replies' = IF out.limited THEN replies ELSE OneMore(replies)
        /\ used' = [used EXCEPT ![found.bucket] = 0]
        /\ now' = now
    BY <1>1, <1>2, <1>3, Zenon DEF Request
  <1>5. /\ buckets' \in [Bucket -> LeakyBucket]
        /\ bucketHashes' \in [Hashes -> Bucket \cup {Null}]
        /\ admitted' \in [Address -> [0..Window -> Nat]]
        /\ used' \in [Bucket -> 0..Window]
        /\ SoundTable(Table)' /\ AddressesFit'
    BY <1>1, <1>2, <1>4, AdmittedKeeps
  <1>6. /\ outboundLeakyBucket' \in [lastTime : Time, burst : 0..OutBurst]
        /\ replies' \in [0..Window -> Nat]
        /\ RepliesFit'
    BY <1>3, <1>4, ReplyKeeps
  <1>7. TypeOK'
    BY <1>4, <1>5, <1>6 DEF IInv, TypeOK, Hashes
  <1>. QED  BY <1>5, <1>6, <1>7 DEF IInv

\* A remote command.
LEMMA RemoteCommandIInv ==
    ASSUME IInv, NEW a \in Address, RemoteCommand(a)
    PROVE  IInv'
  <1>1. PICK found : found = SVC_BucketForAddress(a)
    OBVIOUS
  <1>2. PICK limit :
            limit = SVC_RateLimit(found.table.buckets[found.bucket], Burst, Period)
    OBVIOUS
  <1>3. /\ found.bucket # Null /\ ~limit.limited
        /\ buckets' = [found.table.buckets EXCEPT ![found.bucket] = limit.bucket]
        /\ bucketHashes' = found.table.hashes
        /\ admitted' = [admitted EXCEPT ![a] = OneMore(@)]
        /\ used' = [used EXCEPT ![found.bucket] = 0]
        /\ now' = now /\ outboundLeakyBucket' = outboundLeakyBucket
        /\ replies' = replies
    BY <1>1, <1>2, Zenon DEF RemoteCommand
  <1>4. /\ buckets' \in [Bucket -> LeakyBucket]
        /\ bucketHashes' \in [Hashes -> Bucket \cup {Null}]
        /\ admitted' \in [Address -> [0..Window -> Nat]]
        /\ used' \in [Bucket -> 0..Window]
        /\ SoundTable(Table)' /\ AddressesFit'
    BY <1>1, <1>2, <1>3, AdmittedKeeps
  <1>5. TypeOK'
    BY <1>3, <1>4 DEF IInv, TypeOK, Hashes
  <1>6. RepliesFit'
    BY <1>3 DEF IInv, RepliesFit, Age, Fits
  <1>. QED  BY <1>4, <1>5, <1>6 DEF IInv

\* A tick later every time is a tick older, across the wrap of the clock.
LEMMA TickIInv ==
    ASSUME IInv, Tick
    PROVE  IInv'
  <1>1. /\ TypeOK /\ SoundTable(Table) /\ AddressesFit /\ RepliesFit
        /\ Window \in Nat /\ NA_BAD \notin Address
        /\ Period \in Nat \ {0} /\ OutPeriod \in Nat \ {0}
        /\ Burst \in Nat /\ OutBurst \in Nat
    BY RateLimitAssumption DEF IInv
  <1>2. /\ now # -1 /\ now' = Wrap(now + 1)
        /\ admitted' = [a \in Address |-> Older(admitted[a])]
        /\ replies' = Older(replies)
        /\ used' = [b \in Bucket |-> Min({used[b] + 1, Window})]
        /\ buckets' = buckets /\ bucketHashes' = bucketHashes
        /\ outboundLeakyBucket' = outboundLeakyBucket
    BY DEF Tick, table
  <1>3. now' \in Time /\ Clock(now') = Clock(now) + 1 /\ Clock(now) \in Int
    BY <1>1, <1>2, WrapNext, ClockRange DEF TypeOK
  <1>4. ASSUME NEW t \in Time
        PROVE  Clock(now') - Clock(t) = Age(t) + 1 /\ Age(t) \in Int
    <2>1. Clock(t) \in Int
      BY ClockRange
    <2>. QED  BY <1>3, <2>1 DEF Age
  <1>5. ASSUME NEW b \in Bucket
        PROVE  used'[b] \in 0..Window /\ used'[b] <= used[b] + 1
    <2>. DEFINE T == {used[b] + 1, Window}
    <2>1. used[b] \in 0..Window
      BY <1>1 DEF TypeOK
    <2>2. T \subseteq Nat /\ T # {}
      BY <1>1, <2>1
    <2>3. used'[b] = Min(T)
      BY <1>2
    <2>4. Min(T) \in T /\ \A y \in T : Min(T) <= y
      <3>. HIDE DEF T
      <3>. QED  BY <2>2, LeastNatural
    <2>5. Min(T) \in Nat /\ Min(T) <= Window /\ Min(T) <= used[b] + 1
      BY <1>1, <2>1, <2>4
    <2>. QED  BY <1>1, <2>3, <2>5
  <1>6. ASSUME NEW a \in Address
        PROVE  /\ admitted[a] \in [0..Window -> Nat]
               /\ admitted'[a] = Older(admitted[a])
               /\ admitted'[a] \in [0..Window -> Nat]
    <2>1. admitted[a] \in [0..Window -> Nat] /\ admitted'[a] = Older(admitted[a])
      BY <1>1, <1>2 DEF TypeOK
    <2>2. Older(admitted[a]) \in [0..Window -> Nat]
      BY <1>1, <2>1 DEF Older
    <2>. QED  BY <2>1, <2>2
  <1>7. replies \in [0..Window -> Nat] /\ replies' \in [0..Window -> Nat]
    <2>1. replies \in [0..Window -> Nat]
      BY <1>1 DEF TypeOK
    <2>. QED  BY <1>1, <1>2, <2>1 DEF Older
  <1>8. TypeOK'
    <2>1. admitted' \in [Address -> [0..Window -> Nat]]
      BY <1>2, <1>6
    <2>2. used' \in [Bucket -> 0..Window]
      BY <1>2, <1>5
    <2>. QED  BY <1>1, <1>2, <1>3, <1>7, <2>1, <2>2 DEF TypeOK
  <1>9. SoundTable(Table)'
    BY <1>1, <1>2 DEF Table, SoundTable, List
  <1>10. ASSUME NEW b \in Bucket, buckets[b].address # NA_BAD
         PROVE  /\ used'[b] <= Clock(now') - Clock(buckets[b].lastTime)
                /\ Fits(admitted'[buckets[b].address], buckets[b].burst,
                        Clock(now') - Clock(buckets[b].lastTime), Period)
    <2>1. PICK t \in Time : t = buckets[b].lastTime
      BY <1>1 DEF TypeOK, LeakyBucket
    <2>2. /\ buckets[b].address \in Address /\ buckets[b].burst \in Nat
          /\ used[b] \in Nat
      BY <1>1, <1>10 DEF TypeOK, LeakyBucket
    <2>3. /\ used[b] <= Age(t)
          /\ Fits(admitted[buckets[b].address], buckets[b].burst, Age(t), Period)
      BY <1>1, <1>10, <2>1 DEF AddressesFit
    <2>4. Clock(now') - Clock(t) = Age(t) + 1 /\ Age(t) \in Int
      BY <1>4
    <2>5. used'[b] <= Age(t) + 1
      BY <1>1, <1>5, <2>2, <2>3, <2>4
    <2>6. Fits(admitted'[buckets[b].address], buckets[b].burst, Age(t) + 1, Period)
      <3>1. PICK a \in Address : a = buckets[b].address
        BY <2>2
      <3>2. PICK recent \in [0..Window -> Nat] :
                recent = admitted[a] /\ admitted'[a] = Older(recent)
        BY <1>6
      <3>3. Fits(recent, buckets[b].burst, Age(t), Period)
        BY <2>3, <3>1, <3>2
      <3>4. Fits(Older(recent), buckets[b].burst, Age(t) + 1, Period)
        BY <1>1, <2>2, <2>4, <3>3, OlderFits
      <3>. QED  BY <3>1, <3>2, <3>4
    <2>. QED  BY <2>1, <2>4, <2>5, <2>6
  <1>11. ASSUME NEW a \in Address, \A b \in Bucket : buckets[b].address # a
         PROVE  Fits(admitted'[a], 0, 0, Period)
    <2>1. Fits(admitted[a], 0, 0, Period)
      BY <1>1, <1>11 DEF AddressesFit
    <2>2. Fits(admitted'[a], 0, 0 + 1, Period)
      BY <1>1, <1>6, <2>1, OlderFits
    <2>3. 0 \in Nat /\ 0 + 1 \in Nat /\ Period * 0 <= 0 + 1
      BY <1>1
    <2>. QED  BY <1>1, <1>6, <2>2, <2>3, EmptyFits
  <1>12. AddressesFit'
    BY <1>2, <1>10, <1>11 DEF AddressesFit, Age, Fits
  <1>13. RepliesFit'
    <2>1. PICK t \in Time : t = outboundLeakyBucket.lastTime
      BY <1>1 DEF TypeOK
    <2>2. outboundLeakyBucket.burst \in Nat
      BY <1>1 DEF TypeOK
    <2>3. 0 <= Age(t) /\ Fits(replies, outboundLeakyBucket.burst, Age(t), OutPeriod)
      BY <1>1, <2>1 DEF RepliesFit
    <2>4. Clock(now') - Clock(t) = Age(t) + 1 /\ Age(t) \in Int
      BY <1>4
    <2>5. Fits(replies', outboundLeakyBucket.burst, Age(t) + 1, OutPeriod)
      BY <1>1, <1>2, <1>7, <2>2, <2>3, <2>4, OlderFits
    <2>6. 0 <= Clock(now') - Clock(t)
      BY <2>3, <2>4
    <2>. QED  BY <1>2, <2>1, <2>4, <2>5, <2>6 DEF RepliesFit, Age, Fits
  <1>. QED  BY <1>8, <1>9, <1>12, <1>13 DEF IInv

\* The invariant is inductive.
LEMMA NextIInv ==
    IInv /\ [Next]_vars => IInv'
  <1>. SUFFICES ASSUME IInv, [Next]_vars  PROVE IInv'
    OBVIOUS
  <1>1. CASE UNCHANGED vars
    <2>1. /\ now' = now /\ buckets' = buckets /\ bucketHashes' = bucketHashes
          /\ outboundLeakyBucket' = outboundLeakyBucket /\ admitted' = admitted
          /\ replies' = replies /\ used' = used
      BY <1>1 DEF vars, table
    <2>2. TypeOK'
      BY <2>1 DEF IInv, TypeOK
    <2>3. SoundTable(Table)'
      BY <2>1 DEF IInv, Table, SoundTable, List
    <2>4. AddressesFit'
      BY <2>1 DEF IInv, AddressesFit, Age, Fits
    <2>5. RepliesFit'
      BY <2>1 DEF IInv, RepliesFit, Age, Fits
    <2>. QED  BY <2>2, <2>3, <2>4, <2>5 DEF IInv
  <1>2. ASSUME NEW a \in Address, NoBucket(a)  PROVE IInv'
    BY <1>1, <1>2 DEF NoBucket
  <1>3. ASSUME NEW a \in Address, TooMany(a)  PROVE IInv'
    BY <1>3, TooManyKeeps
  <1>4. ASSUME NEW a \in Address, Request(a)  PROVE IInv'
    BY <1>4, RequestIInv
  <1>5. ASSUME NEW a \in Address, RemoteCommand(a)  PROVE IInv'
    BY <1>5, RemoteCommandIInv
  <1>6. CASE Tick
    BY <1>6, TickIInv
  <1>. QED  BY <1>1, <1>2, <1>3, <1>4, <1>5, <1>6 DEF Next

-----------------------------------------------------------------------------
(* The theorems *)

\* Every variable has its type, and no bucket holds more than its burst, however
\* much of it runs out at a time (SVC_RateLimit).
THEOREM TypeCorrect == Spec => []TypeOK
  <1>1. IInv => TypeOK
    BY DEF IInv
  <1>. QED  BY <1>1, InitIInv, NextIInv, PTL DEF Spec

\* The chains are doubly linked lists of all the buckets of their hash, and no
\* address has two buckets, whichever buckets SVC_BucketForAddress reclaims.
THEOREM TableSound == Spec => []ChainsSound
  <1>1. IInv => ChainsSound
    <2>. SUFFICES ASSUME IInv  PROVE ChainsSound
      OBVIOUS
    <2>1. SoundTable(Table) /\ Table.buckets = buckets
      BY DEF IInv, Table
    <2>2. ASSUME NEW h \in Hashes
          PROVE  LET chain == Walk(Table, h)
                 IN  /\ IsInjective(chain)
                     /\ Range(chain) = {b \in Bucket :
                                          /\ buckets[b].address # NA_BAD
                                          /\ Hash(buckets[b].address) = h}
                     /\ \A k \in DOMAIN chain :
                           buckets[chain[k]].prev =
                             IF k = 1 THEN Null ELSE chain[k - 1]
      <3>1. PICK n \in Nat : \E s : List(Table, h, n, s)
        BY <2>1 DEF SoundTable
      <3>2. PICK s : List(Table, h, n, s)
        BY <3>1
      <3>3. Walk(Table, h) = s
        BY <3>2, WalkIs
      <3>4. s \in [1..n -> Bucket] /\ \A j, k \in 1..n : s[j] = s[k] => j = k
        BY <3>2 DEF List
      <3>5. IsInjective(s)
        BY <3>4 DEF IsInjective
      <3>6. ASSUME NEW b \in Bucket
            PROVE  (\E k \in 1..n : s[k] = b) <=>
                       /\ buckets[b].address # NA_BAD
                       /\ Hash(buckets[b].address) = h
        BY <2>1, <3>2 DEF List
      <3>7. Range(s) = {b \in Bucket : /\ buckets[b].address # NA_BAD
                                       /\ Hash(buckets[b].address) = h}
        BY <3>4, <3>6 DEF Range
      <3>8. \A k \in 1..n : buckets[s[k]].prev = IF k = 1 THEN Null ELSE s[k - 1]
        BY <2>1, <3>2 DEF List
      <3>. QED  BY <3>3, <3>4, <3>5, <3>7, <3>8
    <2>3. ASSUME NEW b \in Bucket, NEW c \in Bucket, b # c,
                 buckets[b].address = buckets[c].address
          PROVE  buckets[b].address = NA_BAD
      BY <2>1, <2>3 DEF SoundTable
    <2>. QED  BY <2>2, <2>3 DEF ChainsSound, Hashes
  <1>. QED  BY <1>1, InitIInv, NextIInv, PTL DEF Spec

\* In any stretch of time no more requests of an address are let through than
\* its burst and one for each period, whenever its bucket is reclaimed and
\* across the wrap of the clock, and no more replies go out than theirs.
THEOREM LimitHolds == Spec => []RequestsLimited
  <1>1. IInv => RequestsLimited
    <2>. SUFFICES ASSUME IInv  PROVE RequestsLimited
      OBVIOUS
    <2>1. /\ TypeOK /\ AddressesFit /\ RepliesFit /\ now \in Time
          /\ Burst \in Nat /\ OutBurst \in Nat /\ Window \in Nat
          /\ Period \in Nat \ {0} /\ OutPeriod \in Nat \ {0} /\ NA_BAD \notin Address
      BY RateLimitAssumption DEF IInv, TypeOK
    <2>2. ASSUME NEW a \in Address
          PROVE  WithinLimit(admitted[a], Burst, Period)
      <3>1. admitted[a] \in [0..Window -> Nat]
        BY <2>1 DEF TypeOK
      <3>2. CASE \A b \in Bucket : buckets[b].address # a
        <4>1. Fits(admitted[a], 0, 0, Period)
          BY <2>1, <3>2 DEF AddressesFit
        <4>2. 0 \in 0..Burst /\ 0 \in Nat
          BY <2>1
        <4>. QED  BY <2>1, <3>1, <4>1, <4>2, FitsIsWithin
      <3>3. ASSUME NEW b \in Bucket, buckets[b].address = a
            PROVE  WithinLimit(admitted[a], Burst, Period)
        <4>1. PICK t \in Time : t = buckets[b].lastTime
          BY <2>1 DEF TypeOK, LeakyBucket
        <4>2. buckets[b].burst \in 0..Burst /\ used[b] \in Nat
          BY <2>1 DEF TypeOK, LeakyBucket
        <4>3. used[b] <= Age(t) /\ Fits(admitted[a], buckets[b].burst, Age(t), Period)
          BY <2>1, <3>3, <4>1 DEF AddressesFit
        <4>4. Age(t) \in Int
          BY <2>1, AgeRange
        <4>5. Age(t) \in Nat
          BY <4>2, <4>3, <4>4
        <4>. QED  BY <2>1, <3>1, <4>2, <4>3, <4>5, FitsIsWithin
      <3>. QED  BY <3>2, <3>3
    <2>3. WithinLimit(replies, OutBurst, OutPeriod)
      <3>1. PICK t \in Time : t = outboundLeakyBucket.lastTime
        BY <2>1 DEF TypeOK
      <3>2. outboundLeakyBucket.burst \in 0..OutBurst /\ replies \in [0..Window -> Nat]
        BY <2>1 DEF TypeOK
      <3>3. /\ 0 <= Age(t)
            /\ Fits(replies, outboundLeakyBucket.burst, Age(t), OutPeriod)
        BY <2>1, <3>1 DEF RepliesFit
      <3>4. Age(t) \in Int
        BY <2>1, AgeRange
      <3>5. Age(t) \in Nat
        BY <3>3, <3>4
      <3>. QED  BY <2>1, <3>2, <3>3, <3>5, FitsIsWithin
    <2>. QED  BY <2>2, <2>3 DEF RequestsLimited
  <1>. QED  BY <1>1, InitIInv, NextIInv, PTL DEF Spec

\* SVC_BucketForAddress finds no bucket only when each was used within the time
\* in which it runs dry, or last at a time that is not counted as one.
THEOREM NoneFree == Spec => []BucketsBusy
  <1>1. IInv => BucketsBusy
    <2>. SUFFICES ASSUME IInv, NEW a \in Address,
                         SVC_BucketForAddress(a).bucket = Null,
                         NEW b \in Bucket
                  PROVE  used[b] <= Burst * Period \/ buckets[b].lastTime <= 0
      BY DEF BucketsBusy
    <2>1. /\ TypeOK /\ SoundTable(Table) /\ AddressesFit /\ now \in Time
          /\ Table.buckets = buckets
      BY DEF IInv, TypeOK, Table
    <2>2. PICK s :
              /\ Walk(Table, Hash(a)) = s /\ DOMAIN s \subseteq Nat
              /\ \A k \in DOMAIN s : s[k] \in Bucket
              /\ \A c \in Bucket :
                    buckets[c].address = a => \E k \in DOMAIN s : s[k] = c
      BY <2>1, OwnBucket
    <2>. DEFINE own == {k \in DOMAIN s : buckets[s[k]].address = a}
                emptied == IF buckets[Min(Free)].address = NA_BAD /\ ~Expired(Min(Free))
                           THEN Table ELSE Unlink(Table, Min(Free))
    <2>3. SVC_BucketForAddress(a) =
            IF own # {} THEN [table |-> Table, bucket |-> s[Min(own)]]
            ELSE IF Free = {} THEN [table |-> Table, bucket |-> Null]
            ELSE [table |-> Link(emptied, Min(Free), a), bucket |-> Min(Free)]
      BY <2>2 DEF SVC_BucketForAddress
    <2>4. Null \notin Bucket
      BY DEF Null, Bucket
    <2>5. own = {}
      <3>1. SUFFICES ASSUME own # {}  PROVE s[Min(own)] \in Bucket
        <4>. HIDE DEF own, emptied
        <4>. QED  BY <2>3, <2>4, <3>1
      <3>2. own \subseteq Nat
        BY <2>2
      <3>3. Min(own) \in own
        <4>. HIDE DEF own
        <4>. QED  BY <3>1, <3>2, LeastNatural
      <3>. QED  BY <2>2, <3>3
    <2>6. Free = {}
      <3>1. SUFFICES ASSUME Free # {}  PROVE Min(Free) \in Bucket
        <4>. HIDE DEF own, emptied
        <4>. QED  BY <2>3, <2>4, <2>5, <3>1
      <3>2. Free \subseteq Nat
        BY DEF Free, Bucket
      <3>3. Min(Free) \in Free
        BY <3>1, <3>2, LeastNatural
      <3>. QED  BY <3>3 DEF Free
    <2>7. buckets[b].address # NA_BAD /\ ~Expired(b)
      BY <2>6 DEF Free
    <2>8. /\ used[b] \in Nat /\ buckets[b].lastTime \in Time
          /\ used[b] <= Age(buckets[b].lastTime)
      BY <2>1, <2>7 DEF TypeOK, LeakyBucket, AddressesFit
    <2>9. Age(buckets[b].lastTime) \in Int
      BY <2>1, <2>8, AgeRange
    <2>10. 0 <= Age(buckets[b].lastTime)
      BY <2>8, <2>9
    <2>11. \/ buckets[b].lastTime <= 0
           \/ Age(buckets[b].lastTime) <= Burst * Period
      BY <2>1, <2>7, <2>10, ExpiredAge
    <2>12. Burst * Period \in Int
      BY RateLimitAssumption
    <2>. QED  BY <2>8, <2>9, <2>11, <2>12
  <1>. QED  BY <1>1, InitIInv, NextIInv, PTL DEF Spec
=============================================================================
