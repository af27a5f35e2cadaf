---------------------------- MODULE RateLimit ----------------------------
(***************************************************************************)
(* The rate limits of connectionless requests: a leaky bucket for each     *)
(* address, kept in chains of a hash table over a fixed array and          *)
(* reclaimed when it has run dry, and one bucket for all replies.          *)
(*                                                                         *)
(* Sys_Milliseconds is a signed integer that wraps after IntMax, and counts *)
(* in ticks.  Only IPv4 addresses: those of one type compare as the *)
(* others do.  What the requests ask for is left out; each asks for one    *)
(* reply.  Remote commands with a bad password share another bucket, as    *)
(* replies do.                                                             *)
(***************************************************************************)
EXTENDS Integers, FiniteSetsExt

CONSTANTS
    Address,
    NA_BAD,                \* no address
    Hash(_),               \* SVC_HashForAddress, of 0..MAX_HASHES - 1
    MAX_BUCKETS,
    MAX_HASHES,
    Burst, Period,         \* of an address: 10 and 1000
    OutBurst, OutPeriod,   \* of the replies: 10 and 100
    IntMax,                \* the greatest int
    Window                 \* bound: how long a request is remembered

ASSUME RateLimitAssumption ==
    /\ NA_BAD \notin Address
    /\ MAX_BUCKETS \in Nat \ {0} /\ MAX_HASHES \in Nat \ {0}
    /\ \A a \in Address : Hash(a) \in 0..(MAX_HASHES - 1)
    /\ {Burst, Period, OutBurst, OutPeriod} \subseteq Nat \ {0}
    /\ IntMax \in Nat
    /\ {Burst * Period, OutBurst * OutPeriod} \subseteq 0..IntMax
    /\ Window \in Nat

VARIABLES
    now,                   \* Sys_Milliseconds
    buckets,
    bucketHashes,          \* the first bucket of each chain, or Null
    outboundLeakyBucket,
    admitted,              \* history: requests let through in the last ticks
    replies,               \* history: requests answered in the last ticks
    used                   \* history: how long ago a bucket was, up to Window

table == <<buckets, bucketHashes>>
vars == <<now, table, outboundLeakyBucket, admitted, replies, used>>

-----------------------------------------------------------------------------
(* Time *)

IntMin == -IntMax - 1
Time == IntMin..IntMax

\* The difference and the sum of ints, as they wrap.
Wrap(t) == ((t - IntMin) % (2 * (IntMax + 1))) + IntMin

-----------------------------------------------------------------------------
(* The hash table *)

Bucket == 1..MAX_BUCKETS
Null == 0
Cleared == [address |-> NA_BAD, lastTime |-> 0, burst |-> 0, hash |-> 0,
            next |-> Null, prev |-> Null]

\* The buckets of a chain, in order.
Walk(t, h) ==
    LET step[n \in 0..MAX_BUCKETS] ==
            IF n = 0 THEN t.hashes[h]
            ELSE LET b == step[n - 1]
                 IN  IF b = Null THEN Null ELSE t.buckets[b].next
        length == Min({n \in 0..MAX_BUCKETS : step[n] = Null}
                      \cup {MAX_BUCKETS + 1})
    IN  [n \in 1..length |-> step[n - 1]]

Table == [buckets |-> buckets, hashes |-> bucketHashes]

\* Mutation: the bucket after a reclaimed one keeps its link to it.
UnlinkForward(t, b) ==
    LET old == t.buckets[b]
    IN  [buckets |-> [x \in Bucket |->
                         IF x = b THEN Cleared
                         ELSE IF x = old.prev
                         THEN [t.buckets[x] EXCEPT !.next = old.next]
                         ELSE t.buckets[x]],
         hashes |-> IF old.prev = Null
                    THEN [t.hashes EXCEPT ![old.hash] = old.next]
                    ELSE t.hashes]

\* A bucket is taken out of its chain, and cleared.
Unlink(t, b) ==
    LET old == t.buckets[b]
    IN  [buckets |-> [x \in Bucket |->
                         IF x = b THEN Cleared
                         ELSE IF x = old.prev
                         THEN [t.buckets[x] EXCEPT !.next = old.next]
                         ELSE IF x = old.next
                         THEN [t.buckets[x] EXCEPT !.prev = old.prev]
                         ELSE t.buckets[x]],
         hashes |-> IF old.prev = Null
                    THEN [t.hashes EXCEPT ![old.hash] = old.next]
                    ELSE t.hashes]

\* A clear bucket gets an address, at the head of its chain.
Link(t, b, a) ==
    LET head == t.hashes[Hash(a)]
    IN  [buckets |-> [x \in Bucket |->
                         IF x = b
                         THEN [address |-> a, lastTime |-> now, burst |-> 0,
                               hash |-> Hash(a), next |-> head, prev |-> Null]
                         ELSE IF x = head
                         THEN [t.buckets[x] EXCEPT !.prev = b]
                         ELSE t.buckets[x]],
         hashes |-> [t.hashes EXCEPT ![Hash(a)] = b]]

\* Mutation: a clock that has wrapped is forgotten.
ExpiredForward(b) ==
    /\ buckets[b].lastTime > 0
    /\ Wrap(now - buckets[b].lastTime) > Burst * Period

\* A bucket that has run dry may be reclaimed.
Expired(b) ==
    LET interval == Wrap(now - buckets[b].lastTime)
    IN  buckets[b].lastTime > 0 /\ (interval > Burst * Period \/ interval < 0)

Free == {b \in Bucket : buckets[b].address = NA_BAD \/ Expired(b)}

\* SVC_BucketForAddress: the table with the bucket of an address in it, and
\* that bucket; or Null when there is none to take.
SVC_BucketForAddress(a) ==
    LET chain == Walk(Table, Hash(a))
        own == {k \in DOMAIN chain : buckets[chain[k]].address = a}
        b == Min(Free)
        emptied == IF buckets[b].address = NA_BAD /\ ~Expired(b) THEN Table
                   ELSE Unlink(Table, b)
    IN  IF own # {} THEN [table |-> Table, bucket |-> chain[Min(own)]]
        ELSE IF Free = {} THEN [table |-> Table, bucket |-> Null]
        ELSE [table |-> Link(emptied, b, a), bucket |-> b]

-----------------------------------------------------------------------------
(* Leaky buckets *)

\* Mutation: a remainder of the period is forgotten.
LeakedRounded(bucket, period) ==
    LET interval == Wrap(now - bucket.lastTime)
    IN  IF interval < 0 \/ interval \div period > bucket.burst
        THEN [bucket EXCEPT !.burst = 0, !.lastTime = now]
        ELSE [bucket EXCEPT !.burst = @ - ((interval + period - 1) \div period),
                            !.lastTime = now]

\* Mutation: more runs out of the bucket than is in it.
LeakedBelow(bucket, period) ==
    LET interval == Wrap(now - bucket.lastTime)
    IN  IF interval < 0
        THEN [bucket EXCEPT !.burst = 0, !.lastTime = now]
        ELSE [bucket EXCEPT !.burst = @ - (interval \div period),
                            !.lastTime = Wrap(now - (interval % period))]

\* What ran out of the bucket since it was used.
Leaked(bucket, period) ==
    LET interval == Wrap(now - bucket.lastTime)
    IN  IF interval < 0 \/ interval \div period > bucket.burst
        THEN [bucket EXCEPT !.burst = 0, !.lastTime = now]
        ELSE [bucket EXCEPT !.burst = @ - (interval \div period),
                            !.lastTime = Wrap(now - (interval % period))]

\* SVC_RateLimit: the bucket afterwards, and whether the request is refused.
SVC_RateLimit(bucket, burst, period) ==
    LET leaked == Leaked(bucket, period)
    IN  IF leaked.burst < burst
        THEN [bucket |-> [leaked EXCEPT !.burst = @ + 1], limited |-> FALSE]
        ELSE [bucket |-> leaked, limited |-> TRUE]

-----------------------------------------------------------------------------
(* Requests *)

\* How many requests there were in the last t ticks and in this one.
OneMore(recent) == [t \in 0..Window |-> recent[t] + 1]

\* A request is refused: there is no bucket for its address.
NoBucket(a) ==
    /\ SVC_BucketForAddress(a).bucket = Null
    /\ UNCHANGED vars

\* A request is refused: its address has sent too many.
TooMany(a) ==
    LET found == SVC_BucketForAddress(a)
        b == found.bucket
        limit == SVC_RateLimit(found.table.buckets[b], Burst, Period)
    IN  /\ b # Null
        /\ limit.limited
        /\ buckets' = [found.table.buckets EXCEPT ![b] = limit.bucket]
        /\ bucketHashes' = found.table.hashes
        /\ used' = [used EXCEPT ![b] = 0]
        /\ UNCHANGED <<now, outboundLeakyBucket, admitted, replies>>

\* A request is let through, and answered unless there were too many replies:
\* SVC_Status, SVC_Info, SV_GetChallenge.
Request(a) ==
    LET found == SVC_BucketForAddress(a)
        b == found.bucket
        limit == SVC_RateLimit(found.table.buckets[b], Burst, Period)
        out == SVC_RateLimit(outboundLeakyBucket, OutBurst, OutPeriod)
    IN  /\ b # Null
        /\ ~limit.limited
        /\ buckets' = [found.table.buckets EXCEPT ![b] = limit.bucket]
        /\ bucketHashes' = found.table.hashes
        /\ outboundLeakyBucket' = out.bucket
        /\ admitted' = [admitted EXCEPT ![a] = OneMore(@)]
        /\ replies' = IF out.limited THEN replies ELSE OneMore(replies)
        /\ used' = [used EXCEPT ![b] = 0]
        /\ UNCHANGED now

\* A remote command with the password is not limited as to replies:
\* SVC_RemoteCommand.
RemoteCommand(a) ==
    LET found == SVC_BucketForAddress(a)
        b == found.bucket
        limit == SVC_RateLimit(found.table.buckets[b], Burst, Period)
    IN  /\ b # Null
        /\ ~limit.limited
        /\ buckets' = [found.table.buckets EXCEPT ![b] = limit.bucket]
        /\ bucketHashes' = found.table.hashes
        /\ admitted' = [admitted EXCEPT ![a] = OneMore(@)]
        /\ used' = [used EXCEPT ![b] = 0]
        /\ UNCHANGED <<now, outboundLeakyBucket, replies>>

Older(recent) == [t \in 0..Window |-> IF t = 0 THEN 0 ELSE recent[t - 1]]

\* Bound: the clock stops before it is 0 again, after 49 days.
Tick ==
    /\ now # -1
    /\ now' = Wrap(now + 1)
    /\ admitted' = [a \in Address |-> Older(admitted[a])]
    /\ replies' = Older(replies)
    /\ used' = [b \in Bucket |-> Min({used[b] + 1, Window})]
    /\ UNCHANGED <<table, outboundLeakyBucket>>

-----------------------------------------------------------------------------

Init ==
    /\ now = 0
    /\ buckets = [b \in Bucket |-> Cleared]
    /\ bucketHashes = [h \in 0..(MAX_HASHES - 1) |-> Null]
    /\ outboundLeakyBucket = [lastTime |-> 0, burst |-> 0]
    /\ admitted = [a \in Address |-> [t \in 0..Window |-> 0]]
    /\ replies = [t \in 0..Window |-> 0]
    /\ used = [b \in Bucket |-> Window]

Next ==
    \/ \E a \in Address :
          NoBucket(a) \/ TooMany(a) \/ Request(a) \/ RemoteCommand(a)
    \/ Tick

Spec == Init /\ [][Next]_vars

-----------------------------------------------------------------------------
(* Properties *)

LeakyBucket ==
    [address : Address \cup {NA_BAD}, lastTime : Time, burst : 0..Burst,
     hash : 0..(MAX_HASHES - 1), next : Bucket \cup {Null},
     prev : Bucket \cup {Null}]

\* Every variable has its type, and no bucket holds more than its burst.
TypeOK ==
    /\ now \in Time
    /\ buckets \in [Bucket -> LeakyBucket]
    /\ bucketHashes \in [0..(MAX_HASHES - 1) -> Bucket \cup {Null}]
    /\ outboundLeakyBucket \in [lastTime : Time, burst : 0..OutBurst]
    /\ admitted \in [Address -> [0..Window -> Nat]]
    /\ replies \in [0..Window -> Nat]
    /\ used \in [Bucket -> 0..Window]

\* The chains are doubly linked lists, hold the buckets of their hash and all
\* of them, and no address has two buckets, after any buckets were reclaimed
\* (SVC_BucketForAddress).
ChainsSound ==
    /\ \A h \in 0..(MAX_HASHES - 1) :
          LET chain == Walk(Table, h)
          IN  /\ IsInjective(chain)
              /\ Range(chain) = {b \in Bucket : /\ buckets[b].address # NA_BAD
                                                /\ Hash(buckets[b].address) = h}
              /\ \A k \in DOMAIN chain :
                    buckets[chain[k]].prev = IF k = 1 THEN Null ELSE chain[k - 1]
    /\ \A b, c \in Bucket :
          (b # c /\ buckets[b].address = buckets[c].address)
            => buckets[b].address = NA_BAD

\* What was let through in the last ticks is no more than the burst and one for
\* each period begun.
WithinLimit(recent, burst, period) ==
    \A t \in 0..Window : recent[t] <= burst + (t + period - 1) \div period

\* No more requests of an address are let through than its limit, though its
\* bucket is reclaimed and the clock wraps, nor more replies than theirs, for
\* whatever addresses (SVC_RateLimit, SVC_BucketForAddress).
RequestsLimited ==
    /\ \A a \in Address : WithinLimit(admitted[a], Burst, Period)
    /\ WithinLimit(replies, OutBurst, OutPeriod)

\* A request of an address is refused only when the address has used up its
\* burst, or all buckets were used lately or at a time not counted as one:
\* while the clock was not positive.
BucketsBusy ==
    \A a \in Address :
        SVC_BucketForAddress(a).bucket = Null =>
            \A b \in Bucket : \/ used[b] <= Burst * Period
                              \/ buckets[b].lastTime <= 0
=============================================================================
