---------------------------- MODULE AccessProofs ----------------------------
(***************************************************************************)
(* What the gates between a browser and its workspace guarantee for any    *)
(* number of addresses, sessions, browsers, requests, sockets, tabs and    *)
(* operations: the login rate limiter, the middleware and the routes of    *)
(* authentication, the hook of the client that shows what they answer, the *)
(* gate in front of tmux of the administration service, and the two        *)
(* components that tell the cleaner whether a tab is in use, the activity  *)
(* tracker and the authentication index of the WebSocket server.           *)
(***************************************************************************)
EXTENDS RateLimiter, AuthRequests, ClientAuth, AdminService, ActivityTracker,
        WebSocketIndex, FiniteSetTheorems, SequenceTheorems, TLAPS

-----------------------------------------------------------------------------
(***************************************************************************)
(* The login rate limiter.                                                 *)
(*                                                                         *)
(* The argument is about tokens: the grants since the window was opened,   *)
(* in tokens, and the tokens that are left never exceed the capacity and   *)
(* the refill of the time since (TokensAddUp).  An attempt brings both     *)
(* sides to its own time, which a split refill does as well as one refill  *)
(* (RefillAddsUp), and then moves one token from the bucket to the grants. *)
(* An address that is evicted or reset loses its grants with its bucket.   *)
(***************************************************************************)
\* Time that is split refills as much as time in one piece.
LEMMA RefillAddsUp ==
    ASSUME NEW rate \in Nat, NEW a \in Int, NEW b \in Int, NEW c \in Int
    PROVE  rate * (c - a) = rate * (c - b) + rate * (b - a)
OBVIOUS

\* The refill of a span of time that does not end before it begins
LEMMA RefillIsNatural ==
    ASSUME NEW rate \in Nat, NEW a \in Int, NEW b \in Int, a <= b
    PROVE  rate * (b - a) \in Nat
<1>1. b - a \in Nat
  OBVIOUS
<1> QED BY <1>1

\* The buckets of the addresses, and the global one
Buckets == [tokens : Nat, updatedAt : Nat, usedAt : Nat]
Globals == [tokens : Nat, updatedAt : Nat]

\* What Refill makes of a bucket whose last update lies in the past
LEMMA RefillOfPast ==
    ASSUME NEW bucket, NEW capacity \in Nat, NEW rate \in Nat, NEW at \in Nat,
           bucket.tokens \in Nat, bucket.updatedAt \in Nat, bucket.updatedAt <= at
    PROVE  LET sum == bucket.tokens + rate * (at - bucket.updatedAt) IN
           /\ Refill(bucket, capacity, rate, at)
                = [bucket EXCEPT !.tokens = Least(capacity, sum), !.updatedAt = at]
           /\ Least(capacity, sum) \in Nat /\ Least(capacity, sum) <= capacity
<1> DEFINE elapsed == IF at > bucket.updatedAt THEN at - bucket.updatedAt ELSE 0
           sum == bucket.tokens + rate * (at - bucket.updatedAt)
<1>1. bucket.tokens + elapsed * rate = sum
  OBVIOUS
<1>2. sum \in Nat
  BY RefillIsNatural
<1>3. Least(capacity, sum) \in Nat /\ Least(capacity, sum) <= capacity
  BY <1>2 DEF Least
<1> HIDE DEF sum
<1>4. Refill(bucket, capacity, rate, at)
        = [bucket EXCEPT !.tokens = Filled(bucket.tokens + elapsed * rate, capacity),
                         !.updatedAt = at]
  BY Zenon DEF Refill
<1>5. Refill(bucket, capacity, rate, at)
        = [bucket EXCEPT !.tokens = Least(capacity, sum), !.updatedAt = at]
  BY <1>1, <1>4 DEF Filled
<1> QED BY <1>3, <1>5 DEF sum

\* The same for the bucket of an address ...
LEMMA RefilledBucket ==
    ASSUME NEW bucket \in Buckets, NEW capacity \in Nat, NEW rate \in Nat, NEW at \in Nat,
           bucket.updatedAt <= at
    PROVE  /\ Refill(bucket, capacity, rate, at) \in Buckets
           /\ Refill(bucket, capacity, rate, at).tokens
                = Least(capacity, bucket.tokens + rate * (at - bucket.updatedAt))
           /\ Refill(bucket, capacity, rate, at).tokens \in Nat
           /\ Refill(bucket, capacity, rate, at).tokens <= capacity
           /\ Refill(bucket, capacity, rate, at).updatedAt = at
<1> DEFINE left == Least(capacity, bucket.tokens + rate * (at - bucket.updatedAt))
<1>1. bucket.tokens \in Nat /\ bucket.updatedAt \in Nat
  BY DEF Buckets
<1>2. /\ Refill(bucket, capacity, rate, at) = [bucket EXCEPT !.tokens = left, !.updatedAt = at]
      /\ left \in Nat /\ left <= capacity
  BY <1>1, RefillOfPast
<1> HIDE DEF left
<1> QED BY <1>2 DEF Buckets, left

\* ... and for the global one, which has no time of use
LEMMA RefilledGlobal ==
    ASSUME NEW bucket \in Globals, NEW capacity \in Nat, NEW rate \in Nat, NEW at \in Nat,
           bucket.updatedAt <= at
    PROVE  /\ Refill(bucket, capacity, rate, at) \in Globals
           /\ Refill(bucket, capacity, rate, at).tokens
                = Least(capacity, bucket.tokens + rate * (at - bucket.updatedAt))
           /\ Refill(bucket, capacity, rate, at).tokens \in Nat
           /\ Refill(bucket, capacity, rate, at).tokens <= capacity
           /\ Refill(bucket, capacity, rate, at).updatedAt = at
<1> DEFINE left == Least(capacity, bucket.tokens + rate * (at - bucket.updatedAt))
<1>1. bucket.tokens \in Nat /\ bucket.updatedAt \in Nat
  BY DEF Globals
<1>2. /\ Refill(bucket, capacity, rate, at) = [bucket EXCEPT !.tokens = left, !.updatedAt = at]
      /\ left \in Nat /\ left <= capacity
  BY <1>1, RefillOfPast
<1> HIDE DEF left
<1> QED BY <1>2 DEF Globals, left

\* Paying takes nothing that is not there.
LEMMA PaidTakes ==
    ASSUME NEW bucket, NEW amount \in Nat,
           bucket \in Buckets \/ bucket \in Globals
    PROVE  /\ bucket.tokens >= amount =>
                Paid(bucket, amount).tokens = bucket.tokens - amount
           /\ bucket.tokens < amount => Paid(bucket, amount).tokens = bucket.tokens
           /\ Paid(bucket, amount).tokens \in Nat
           /\ Paid(bucket, amount).updatedAt = bucket.updatedAt
           /\ bucket \in Buckets => Paid(bucket, amount) \in Buckets
           /\ bucket \in Globals =>
                Paid(bucket, amount) \in Globals
<1>1. bucket.tokens \in Nat
  BY DEF Buckets, Globals
<1>2. Paid(bucket, amount) = [bucket EXCEPT !.tokens =
          IF bucket.tokens < amount THEN bucket.tokens ELSE bucket.tokens - amount]
  BY Zenon DEF Paid
<1> QED BY <1>1, <1>2 DEF Buckets, Globals

\* The constructor starts with a full global bucket and no addresses.
LEMMA LimiterStarts ==
    ASSUME KeyAssumption, UnitsAssumption, LimiterInit
    PROVE  LimiterIInv
<1> USE DEF UnitsAssumption
<1>1. Tracked = {} /\ lastNow \in Nat /\ lastNow - lastNow = 0
  BY DEF LimiterInit, Tracked
<1>2. IsFiniteSet(Tracked) /\ Cardinality(Tracked) = 0
  BY <1>1, FS_EmptySet
<1>3. LimiterTypeOK
  BY <1>1, <1>2 DEF LimiterInit, LimiterTypeOK, Tracked
<1>4. /\ window.granted * Whole = 0 /\ GlobalRefill * (lastNow - window.start) = 0
      /\ GlobalRefill * (lastNow - lastGrant) = 0
  BY <1>1 DEF LimiterInit
<1>5. TokensAddUp
  BY <1>1, <1>4 DEF LimiterInit, TokensAddUp, Least
<1> QED BY <1>2, <1>3, <1>5 DEF LimiterIInv

\* Multiplying by nothing, and a grant more
LEMMA Grants ==
    ASSUME UnitsAssumption, NEW n \in Nat
    PROVE  /\ (n + 1) * Whole = n * Whole + Whole /\ n * Whole \in Nat
           /\ 0 * Whole = 0
BY DEF UnitsAssumption

\* Counting afresh from now on is sound: no bucket holds more than it can.
LEMMA OpenKeeps ==
    ASSUME KeyAssumption, UnitsAssumption, LimiterIInv, OpenWindow
    PROVE  LimiterIInv'
<1> USE DEF LimiterIInv
<1>1. LimiterTypeOK' /\ IsFiniteSet(Tracked')
  BY DEF OpenWindow, LimiterTypeOK, Tracked
<1>2. /\ lastNow' = lastNow /\ global' = global /\ addresses' = addresses
      /\ lastGrant' = lastGrant /\ Tracked' = Tracked /\ window'.start = lastNow
      /\ window'.granted = 0 /\ \A k \in Keys : window'.of[k] = 0
  BY DEF OpenWindow, Tracked
<1>3. /\ lastNow \in Nat /\ lastNow - lastNow = 0
      /\ GlobalRefill * 0 = 0 /\ AddressRefill * 0 = 0 /\ 0 * Whole = 0
  BY DEF LimiterTypeOK, UnitsAssumption
<1>4. ASSUME NEW k \in Tracked
      PROVE  /\ k \in Keys /\ addresses[k].updatedAt <= lastNow
             /\ Refill(addresses[k], AddressCapacity, AddressRefill, lastNow).tokens \in Nat
             /\ Refill(addresses[k], AddressCapacity, AddressRefill, lastNow).tokens
                  <= AddressCapacity
  <2>1. addresses[k] \in Buckets /\ k \in Keys
    BY DEF LimiterTypeOK, Buckets
  <2>2. addresses[k].updatedAt <= lastNow
    BY DEF TokensAddUp
  <2> QED BY <2>1, <2>2, <1>3, RefilledBucket DEF UnitsAssumption
<1>5. TokensAddUp'
  <2>1. /\ global'.updatedAt = lastNow' /\ global'.tokens <= GlobalCapacity
        /\ window'.start <= lastNow' /\ lastGrant' <= lastNow'
        /\ global'.tokens >= Least(GlobalCapacity, GlobalRefill * (lastNow' - lastGrant'))
    BY <1>2, <1>3 DEF TokensAddUp
  <2>2. window'.granted * Whole + global'.tokens
          <= GlobalCapacity + GlobalRefill * (lastNow' - window'.start)
    BY <1>2, <1>3, <2>1 DEF UnitsAssumption, LimiterTypeOK
  <2>3. \A k \in Keys \ Tracked' : window'.of[k] = 0
    BY <1>2
  <2>4. \A k \in Tracked' :
          /\ addresses'[k].updatedAt <= lastNow'
          /\ window'.of[k] * Whole
                + Refill(addresses'[k], AddressCapacity, AddressRefill, lastNow').tokens
             <= AddressCapacity + AddressRefill * (lastNow' - window'.start)
    BY <1>2, <1>3, <1>4 DEF UnitsAssumption
  <2> QED BY <2>1, <2>2, <2>3, <2>4 DEF TokensAddUp
<1> QED BY <1>1, <1>5

\* resetAddress forgets an address and its grants together.
LEMMA ResetKeeps ==
    ASSUME KeyAssumption, UnitsAssumption, LimiterIInv, ResetAddress
    PROVE  LimiterIInv'
<1> USE DEF LimiterIInv
<1> PICK address \in Addresses :
        /\ Key[address] \in Tracked
        /\ addresses' = [o \in Tracked \ {Key[address]} |-> addresses[o]]
        /\ window' = [window EXCEPT !.of[Key[address]] = 0]
        /\ UNCHANGED <<lastNow, global, sequence, lastGrant>>
  BY DEF ResetAddress
<1> DEFINE key == Key[address]
<1>1. /\ Tracked' = Tracked \ {key} /\ key \in Keys /\ Tracked \subseteq Keys
      /\ \A o \in Tracked' : addresses'[o] = addresses[o]
  BY DEF KeyAssumption, Tracked, LimiterTypeOK
<1>2. /\ IsFiniteSet(Tracked') /\ Cardinality(Tracked') <= Cardinality(Tracked)
      /\ Cardinality(Tracked) \in Nat /\ Cardinality(Tracked') \in Nat
  <2>1. IsFiniteSet(Tracked) /\ Cardinality(Tracked) \in Nat
    BY FS_CardinalityType
  <2>2. IsFiniteSet(Tracked \ {key})
        /\ Cardinality(Tracked \ {key}) = Cardinality(Tracked) - 1
    BY <2>1, FS_RemoveElement
  <2>3. Cardinality(Tracked \ {key}) \in Nat
    BY <2>2, FS_CardinalityType
  <2> QED BY <1>1, <2>1, <2>2, <2>3
<1>3. /\ window' \in [start : Nat, granted : Nat, of : [Keys -> Nat]]
      /\ window'.start = window.start /\ window'.granted = window.granted
      /\ window'.of[key] = 0
      /\ \A o \in Keys \ {key} : window'.of[o] = window.of[o]
  BY <1>1 DEF LimiterTypeOK
<1>4. LimiterTypeOK'
  BY <1>1, <1>2, <1>3 DEF LimiterTypeOK, UnitsAssumption, Tracked
<1>5. TokensAddUp'
  BY <1>1, <1>3 DEF TokensAddUp
<1> QED BY <1>2, <1>4, <1>5

\* The clock of the limiter does not go back, whatever it is told.
LEMMA NowIsMonotone ==
    ASSUME lastNow \in Nat, NEW reading \in Readings
    PROVE  Now(reading) \in Nat /\ lastNow <= Now(reading)
BY DEF Now, Readings, Nothing

\* The table after an attempt of key k: k is in it, and it has not outgrown its limit.
LEMMA TableKeepsSize ==
    ASSUME UnitsAssumption, LimiterIInv, NEW k, NEW kept \in Remaining(k)
    PROVE  /\ kept \subseteq Tracked /\ IsFiniteSet(kept \cup {k})
           /\ Cardinality(kept \cup {k}) <= MaxAddresses
           /\ k \in Tracked => kept = Tracked
<1>1. IsFiniteSet(Tracked) /\ Cardinality(Tracked) \in Nat /\ Cardinality(Tracked) <= MaxAddresses
  BY FS_CardinalityType DEF LimiterIInv, LimiterTypeOK
<1>2. CASE k \in Tracked
  <2>1. kept = Tracked /\ kept \cup {k} = Tracked
    BY <1>2 DEF Remaining
  <2> QED BY <1>1, <2>1
<1>3. CASE k \notin Tracked /\ ~Full
  <2>1. kept = Tracked
    BY <1>3 DEF Remaining
  <2>2. IsFiniteSet(Tracked \cup {k}) /\ Cardinality(Tracked \cup {k}) = Cardinality(Tracked) + 1
    BY <1>1, <1>3, FS_AddElement
  <2>3. Cardinality(Tracked) < MaxAddresses
    BY <1>1, <1>3 DEF Full, UnitsAssumption
  <2> QED BY <1>1, <1>3, <2>1, <2>2, <2>3 DEF UnitsAssumption
<1>4. CASE k \notin Tracked /\ Full
  <2> PICK o \in Tracked : kept = Tracked \ {o}
    BY <1>4 DEF Remaining
  <2>1. IsFiniteSet(kept) /\ Cardinality(kept) = Cardinality(Tracked) - 1
    BY <1>1, FS_RemoveElement
  <2>2. k \notin kept
    BY <1>4
  <2>3. IsFiniteSet(kept \cup {k}) /\ Cardinality(kept \cup {k}) = Cardinality(kept) + 1
    BY <2>1, <2>2, FS_AddElement
  <2> QED BY <1>1, <1>4, <2>1, <2>3
<1> QED BY <1>2, <1>3, <1>4

\* A bucket that pays for what is admitted, and what it was granted in the window
LEMMA BucketAddsUp ==
    ASSUME UnitsAssumption, NEW bucket, NEW capacity \in Nat, NEW rate \in Nat,
           NEW start \in Nat, NEW before \in Nat, NEW at \in Nat, NEW granted \in Nat,
           NEW admitted \in BOOLEAN,
           bucket \in Buckets \/ bucket \in Globals,
           bucket.updatedAt <= before, before <= at, start <= before,
           granted * Whole + Refill(bucket, capacity, rate, before).tokens
              <= capacity + rate * (before - start),
           admitted => Refill(bucket, capacity, rate, at).tokens >= Whole
    PROVE  (IF admitted THEN granted + 1 ELSE granted) * Whole
              + Paid(Refill(bucket, capacity, rate, at), Charge(admitted)).tokens
              <= capacity + rate * (at - start)
<1> DEFINE full == Refill(bucket, capacity, rate, at)
           old == Refill(bucket, capacity, rate, before)
           later == rate * (at - before)
<1>1. /\ bucket.tokens \in Nat /\ bucket.updatedAt \in Nat
      /\ old.tokens = Least(capacity, bucket.tokens + rate * (before - bucket.updatedAt))
      /\ full.tokens = Least(capacity, bucket.tokens + rate * (at - bucket.updatedAt))
      /\ old.tokens \in Nat /\ full.tokens \in Nat
      /\ full \in Buckets \/ full \in Globals
  <2>1. bucket.tokens \in Nat /\ bucket.updatedAt \in Nat
    BY DEF Buckets, Globals
  <2>2. bucket.updatedAt <= at
    BY <2>1
  <2>3. /\ old.tokens = Least(capacity, bucket.tokens + rate * (before - bucket.updatedAt))
        /\ old.tokens \in Nat
    BY RefilledBucket, RefilledGlobal
  <2>4. /\ full.tokens = Least(capacity, bucket.tokens + rate * (at - bucket.updatedAt))
        /\ full.tokens \in Nat
        /\ full \in Buckets \/ full \in Globals
    BY <2>2, RefilledBucket, RefilledGlobal
  <2> QED BY <2>1, <2>3, <2>4
<1>2. later \in Nat /\ rate * (before - bucket.updatedAt) \in Nat /\ rate * (before - start) \in Nat
  BY <1>1, RefillIsNatural
<1>3. /\ rate * (at - bucket.updatedAt) = later + rate * (before - bucket.updatedAt)
      /\ rate * (at - start) = later + rate * (before - start)
  BY <1>1, RefillAddsUp
<1>4. full.tokens <= old.tokens + later
  <2> HIDE DEF full, old, later
  <2> QED BY <1>1, <1>2, <1>3 DEF Least
<1>5. granted * Whole + full.tokens <= capacity + rate * (at - start)
  <2>1. granted * Whole \in Nat
    BY Grants
  <2> HIDE DEF full, old, later
  <2>2. granted * Whole + old.tokens <= capacity + rate * (before - start)
    BY DEF old
  <2> QED BY <1>1, <1>2, <1>3, <1>4, <2>1, <2>2
<1>6. Whole \in Nat /\ Whole > 0
  BY DEF UnitsAssumption
<1>7. CASE admitted
  <2>1. Paid(full, Whole).tokens = full.tokens - Whole
    BY <1>1, <1>6, <1>7, PaidTakes
  <2>2. (granted + 1) * Whole = granted * Whole + Whole /\ granted * Whole \in Nat
    BY Grants
  <2> HIDE DEF full
  <2>3. (granted + 1) * Whole + Paid(full, Whole).tokens <= capacity + rate * (at - start)
    BY <1>1, <1>2, <1>3, <1>5, <1>6, <2>1, <2>2
  <2> QED BY <1>7, <2>3 DEF Charge, full
<1>8. CASE ~admitted
  <2>1. Paid(full, 0).tokens = full.tokens
    BY <1>1, PaidTakes
  <2> QED BY <1>5, <1>8, <2>1 DEF Charge
<1> QED BY <1>7, <1>8

\* What consume does for an address, its clock reading and the table it leaves
Consumes(address, reading, kept) ==
    LET now == Now(reading)
        k == Key[address]
        g == Refill(global, GlobalCapacity, GlobalRefill, now)
        b == Refill(IF k \in Tracked THEN addresses[k] ELSE FreshBucket(now),
                    AddressCapacity, AddressRefill, now)
        admitted == g.tokens >= Whole /\ b.tokens >= Whole
    IN /\ lastNow' = now
       /\ sequence' = IF k \in Tracked THEN sequence + 1 ELSE sequence + 2
       /\ global' = Paid(g, Charge(admitted))
       /\ addresses' = [o \in kept \cup {k} |->
             IF o = k THEN [Paid(b, Charge(admitted)) EXCEPT !.usedAt = UsedAt(b, sequence')]
             ELSE addresses[o]]
       /\ Observe(k, kept, now, admitted)

\* An attempt: both buckets are refilled to the same time and charged together.
LEMMA ConsumeKeeps ==
    ASSUME KeyAssumption, UnitsAssumption, LimiterIInv,
           NEW address \in Addresses, NEW reading \in Readings,
           NEW kept \in Remaining(Key[address]), Consumes(address, reading, kept)
    PROVE  LimiterIInv'
<1> DEFINE at == Now(reading)
           key == Key[address]
           g == Refill(global, GlobalCapacity, GlobalRefill, at)
           found == IF key \in Tracked THEN addresses[key] ELSE FreshBucket(at)
           b == Refill(found, AddressCapacity, AddressRefill, at)
           admitted == g.tokens >= Whole /\ b.tokens >= Whole
           granted(n) == IF admitted THEN n + 1 ELSE n
<1>1. /\ lastNow \in Nat /\ sequence \in Nat /\ global \in Globals
      /\ Tracked \subseteq Keys /\ addresses \in [Tracked -> Buckets]
      /\ window \in [start : Nat, granted : Nat, of : [Keys -> Nat]] /\ lastGrant \in Nat
      /\ key \in Keys /\ \A o \in Tracked : addresses[o] \in Buckets
  BY DEF LimiterIInv, LimiterTypeOK, KeyAssumption, Buckets, Globals
<1>2. at \in Nat /\ lastNow <= at
  BY <1>1, NowIsMonotone
<1>3. /\ Whole \in Nat /\ Whole > 0 /\ GlobalCapacity \in Nat /\ GlobalRefill \in Nat
      /\ AddressCapacity \in Nat /\ AddressRefill \in Nat
  BY DEF UnitsAssumption
<1>4. TokensAddUp
  BY DEF LimiterIInv
<1>5. /\ kept \subseteq Tracked /\ IsFiniteSet(kept \cup {key})
      /\ Cardinality(kept \cup {key}) <= MaxAddresses
      /\ key \in Tracked => kept = Tracked
  BY TableKeepsSize
<1>6. found \in Buckets /\ found.updatedAt <= at
  <2>1. CASE key \in Tracked
    BY <1>1, <1>2, <1>4, <2>1 DEF TokensAddUp, Buckets
  <2>2. CASE key \notin Tracked
    BY <1>1, <1>2, <1>3, <2>2 DEF FreshBucket, Buckets
  <2> QED BY <2>1, <2>2
<1>7. /\ global.updatedAt = lastNow /\ global.tokens <= GlobalCapacity /\ global.tokens \in Nat
      /\ window.start <= lastNow /\ window.start \in Nat /\ window.granted \in Nat
      /\ lastGrant <= lastNow
  BY <1>1, <1>4 DEF TokensAddUp, Globals
<1>8. /\ g \in Globals /\ g.updatedAt = at /\ g.tokens \in Nat
      /\ g.tokens = Least(GlobalCapacity, global.tokens + GlobalRefill * (at - lastNow))
      /\ g.tokens <= GlobalCapacity
  <2>1. global.updatedAt <= at
    BY <1>1, <1>2, <1>7
  <2> HIDE DEF at
  <2>2. /\ g \in Globals /\ g.updatedAt = at /\ g.tokens \in Nat /\ g.tokens <= GlobalCapacity
        /\ g.tokens = Least(GlobalCapacity,
                            global.tokens + GlobalRefill * (at - global.updatedAt))
    BY <1>1, <1>2, <1>3, <2>1, RefilledGlobal
  <2> HIDE DEF g
  <2> QED BY <1>7, <2>2
<1>9. b \in Buckets /\ b.updatedAt = at /\ b.tokens \in Nat /\ b.tokens <= AddressCapacity
  <2> HIDE DEF found, at
  <2> QED BY <1>2, <1>3, <1>6, RefilledBucket
<1>10. admitted \in BOOLEAN /\ Charge(admitted) \in Nat
       /\ (admitted => Charge(admitted) = Whole) /\ (~admitted => Charge(admitted) = 0)
  BY <1>3 DEF Charge
<1> DEFINE used == [Paid(b, Charge(admitted)) EXCEPT !.usedAt = UsedAt(b, sequence')]
<1>11. /\ lastNow' = at /\ sequence' \in Nat
       /\ global' = Paid(g, Charge(admitted))
       /\ addresses' = [o \in kept \cup {key} |-> IF o = key THEN used ELSE addresses[o]]
       /\ Observe(key, kept, at, admitted)
  BY <1>1 DEF Consumes
<1>12. Tracked' = kept \cup {key} /\ addresses'[key] = used
       /\ \A o \in kept \ {key} : addresses'[o] = addresses[o]
  BY <1>11 DEF Tracked
<1>13. /\ Paid(b, Charge(admitted)) \in Buckets
       /\ Paid(b, Charge(admitted)).tokens <= AddressCapacity
       /\ Paid(b, Charge(admitted)).updatedAt = at
  BY <1>3, <1>9, <1>10, PaidTakes DEF Buckets, Globals
<1>14. used \in Buckets /\ used.updatedAt = at /\ used.tokens = Paid(b, Charge(admitted)).tokens
  <2> HIDE DEF b, admitted
  <2> QED BY <1>11, <1>13 DEF Buckets, UsedAt
<1>15. /\ global' \in Globals /\ global'.updatedAt = at
       /\ global'.tokens <= g.tokens
       /\ ~admitted => global'.tokens = g.tokens
  <2> HIDE DEF g, admitted
  <2> QED BY <1>8, <1>10, <1>11, PaidTakes
<1>16. /\ window' \in [start : Nat, granted : Nat, of : [Keys -> Nat]]
       /\ window'.start = window.start /\ window'.granted = granted(window.granted)
       /\ \A o \in Keys \ Tracked' : window'.of[o] = 0
       /\ \A o \in kept \ {key} : window'.of[o] = window.of[o]
       /\ window'.of[key] = granted(window.of[key])
       /\ lastGrant' = IF admitted THEN at ELSE lastGrant
  <2>1. /\ window' = [window EXCEPT
             !.granted = IF admitted THEN window.granted + 1 ELSE window.granted,
             !.of = [o \in Keys |-> IF o = key /\ admitted
                                    THEN (IF o \in kept THEN window.of[o] ELSE 0) + 1
                                    ELSE IF o \in kept THEN window.of[o] ELSE 0]]
        /\ lastGrant' = IF admitted THEN at ELSE lastGrant
    BY <1>11 DEF Observe
  <2>2. \A o \in Keys : (IF o \in kept THEN window.of[o] ELSE 0) \in Nat
    BY <1>1
  <2>3. key \notin kept => window.of[key] = 0
    BY <1>1, <1>4, <1>5 DEF TokensAddUp
  <2>4. Tracked' = kept \cup {key} /\ kept \subseteq Keys
    BY <1>1, <1>5, <1>12
  <2> HIDE DEF admitted, key
  <2> DEFINE counts == [o \in Keys |-> IF o = key /\ admitted
                                      THEN (IF o \in kept THEN window.of[o] ELSE 0) + 1
                                      ELSE IF o \in kept THEN window.of[o] ELSE 0]
  <2>5. counts \in [Keys -> Nat] /\ granted(window.granted) \in Nat
    BY <1>1, <2>2
  <2>6. /\ \A o \in Keys \ Tracked' : counts[o] = 0
        /\ \A o \in kept \ {key} : counts[o] = window.of[o]
        /\ counts[key] = granted(window.of[key])
    BY <1>1, <2>3, <2>4
  <2>7. window' = [window EXCEPT !.granted = granted(window.granted), !.of = counts]
    BY <2>1
  <2> HIDE DEF counts, granted
  <2>8. /\ window' \in [start : Nat, granted : Nat, of : [Keys -> Nat]]
        /\ window'.start = window.start /\ window'.granted = granted(window.granted)
        /\ window'.of = counts
    BY <1>1, <2>5, <2>7
  <2> QED BY <2>1, <2>6, <2>8
<1>17. LimiterTypeOK' /\ IsFiniteSet(Tracked')
  <2>1. Tracked' \subseteq Keys /\ Cardinality(Tracked') <= MaxAddresses /\ IsFiniteSet(Tracked')
    BY <1>1, <1>5, <1>12
  <2>2. addresses' \in [Tracked' -> Buckets]
    <3> HIDE DEF used, key
    <3> QED BY <1>1, <1>5, <1>11, <1>12, <1>14
  <2>3. lastGrant' \in Nat
    BY <1>1, <1>2, <1>16
  <2> QED BY <1>2, <1>11, <1>15, <1>16, <2>1, <2>2, <2>3 DEF LimiterTypeOK, Buckets, Globals
<1>18. /\ window'.granted * Whole + global'.tokens
            <= GlobalCapacity + GlobalRefill * (lastNow' - window'.start)
       /\ global'.tokens >= Least(GlobalCapacity, GlobalRefill * (lastNow' - lastGrant'))
  <2>1. Refill(global, GlobalCapacity, GlobalRefill, lastNow).tokens = global.tokens
    <3>1. GlobalRefill * (lastNow - global.updatedAt) = 0
      BY <1>1, <1>3, <1>7
    <3>2. global.updatedAt <= lastNow
      BY <1>1, <1>7
    <3>3. Refill(global, GlobalCapacity, GlobalRefill, lastNow).tokens
            = Least(GlobalCapacity, global.tokens + GlobalRefill * (lastNow - global.updatedAt))
      BY <1>1, <1>3, <3>2, RefilledGlobal
    <3>4. global.tokens + 0 = global.tokens /\ Least(GlobalCapacity, global.tokens) = global.tokens
      BY <1>3, <1>7 DEF Least
    <3> HIDE DEF at, key, g, found, b, admitted, granted
    <3> QED BY <3>1, <3>3, <3>4
  <2>2. granted(window.granted) * Whole + Paid(g, Charge(admitted)).tokens
          <= GlobalCapacity + GlobalRefill * (at - window.start)
    <3>1. window.granted * Whole + Refill(global, GlobalCapacity, GlobalRefill, lastNow).tokens
             <= GlobalCapacity + GlobalRefill * (lastNow - window.start)
      BY <1>4, <2>1 DEF TokensAddUp
    <3>2. global.updatedAt <= lastNow /\ (admitted => g.tokens >= Whole)
      BY <1>1, <1>7
    <3> HIDE DEF at, admitted
    <3> QED BY <1>1, <1>2, <1>3, <1>7, <1>10, <3>1, <3>2, BucketAddsUp
  <2>3. global'.tokens >= Least(GlobalCapacity, GlobalRefill * (at - lastGrant'))
    <3>1. CASE admitted
      <4>1. GlobalRefill * (at - lastGrant') = 0
        BY <1>2, <1>3, <1>16, <3>1
      <4> HIDE DEF admitted, at
      <4> QED BY <1>3, <1>15, <4>1 DEF Least, Globals
    <3>2. CASE ~admitted
      <4> DEFINE later == GlobalRefill * (at - lastNow)
                 earlier == GlobalRefill * (lastNow - lastGrant)
      <4>1. later \in Nat /\ earlier \in Nat
        BY <1>1, <1>2, <1>3, <1>7, RefillIsNatural
      <4>2. GlobalRefill * (at - lastGrant) = later + earlier
        BY <1>1, <1>2, <1>3, RefillAddsUp
      <4>3. global.tokens >= Least(GlobalCapacity, earlier)
        BY <1>4 DEF TokensAddUp
      <4>4. g.tokens = Least(GlobalCapacity, global.tokens + later)
        BY <1>8
      <4>5. lastGrant' = lastGrant /\ global'.tokens = g.tokens
        BY <1>15, <1>16, <3>2
      <4> HIDE DEF later, earlier, g, at, admitted
      <4> QED BY <1>3, <1>7, <4>1, <4>2, <4>3, <4>4, <4>5 DEF Least
    <3> QED BY <3>1, <3>2
  <2> HIDE DEF at, g, admitted, granted
  <2> QED BY <1>11, <1>16, <2>2, <2>3
<1>19. ASSUME NEW o \in kept \ {key}
       PROVE  /\ addresses'[o].updatedAt <= lastNow'
              /\ window'.of[o] * Whole
                   + Refill(addresses'[o], AddressCapacity, AddressRefill, lastNow').tokens
                 <= AddressCapacity + AddressRefill * (lastNow' - window'.start)
  <2>1. /\ addresses'[o] = addresses[o] /\ addresses[o] \in Buckets /\ window.of[o] \in Nat
        /\ window'.of[o] = window.of[o] /\ o \in Tracked
    BY <1>1, <1>5, <1>12, <1>16
  <2>2. /\ addresses[o].updatedAt <= lastNow
        /\ window.of[o] * Whole
             + Refill(addresses[o], AddressCapacity, AddressRefill, lastNow).tokens
           <= AddressCapacity + AddressRefill * (lastNow - window.start)
    BY <1>4, <2>1 DEF TokensAddUp
  <2>3. addresses[o].updatedAt <= at /\ addresses[o].updatedAt \in Nat
    BY <1>1, <1>2, <2>1, <2>2 DEF Buckets, Globals
  <2> HIDE DEF at
  <2> DEFINE full == Refill(addresses[o], AddressCapacity, AddressRefill, at)
  <2>4. full \in Buckets /\ full.tokens \in Nat
    BY <1>2, <1>3, <2>1, <2>3, RefilledBucket
  <2>5. Paid(full, 0).tokens = full.tokens
    BY <2>4, PaidTakes
  <2>6. (IF FALSE THEN window.of[o] + 1 ELSE window.of[o]) * Whole
           + Paid(full, Charge(FALSE)).tokens
           <= AddressCapacity + AddressRefill * (at - window.start)
    BY <1>1, <1>2, <1>3, <1>7, <2>1, <2>2, BucketAddsUp
  <2> HIDE DEF full
  <2>7. window.of[o] * Whole + full.tokens <= AddressCapacity + AddressRefill * (at - window.start)
    BY <2>5, <2>6 DEF Charge
  <2> QED BY <1>11, <1>16, <2>1, <2>3, <2>7 DEF full
<1>20. /\ addresses'[key].updatedAt <= lastNow'
       /\ window'.of[key] * Whole
            + Refill(addresses'[key], AddressCapacity, AddressRefill, lastNow').tokens
          <= AddressCapacity + AddressRefill * (lastNow' - window'.start)
  <2> DEFINE before == IF key \in Tracked THEN lastNow ELSE at
  <2>1. /\ before \in Nat /\ before <= at /\ window.start <= before
        /\ found.updatedAt <= before /\ window.of[key] \in Nat
        /\ window.of[key] * Whole + Refill(found, AddressCapacity, AddressRefill, before).tokens
              <= AddressCapacity + AddressRefill * (before - window.start)
    <3>1. CASE key \in Tracked
      BY <1>1, <1>2, <1>4, <1>7, <3>1 DEF TokensAddUp
    <3>2. CASE key \notin Tracked
      <4>1. window.of[key] = 0 /\ 0 * Whole = 0
        BY <1>1, <1>3, <1>4, <3>2 DEF TokensAddUp
      <4>2. AddressRefill * (at - window.start) \in Nat
        BY <1>1, <1>2, <1>3, <1>7, RefillIsNatural
      <4>3. before = at /\ window.start <= at /\ at <= at
        BY <1>1, <1>2, <1>7, <3>2
      <4> HIDE DEF at, found
      <4> QED BY <1>2, <1>3, <1>6, <1>9, <3>2, <4>1, <4>2, <4>3
    <3> QED BY <3>1, <3>2
  <2>2. admitted => b.tokens >= Whole
    OBVIOUS
  <2>3. (IF admitted THEN window.of[key] + 1 ELSE window.of[key]) * Whole
           + Paid(b, Charge(admitted)).tokens
           <= AddressCapacity + AddressRefill * (at - window.start)
    <3> HIDE DEF admitted, at, found, before, key
    <3> QED BY <1>1, <1>2, <1>3, <1>6, <1>7, <1>10, <2>1, <2>2, BucketAddsUp
  <2>4. Refill(used, AddressCapacity, AddressRefill, at).tokens = used.tokens
    <3> HIDE DEF used, at
    <3>1. AddressRefill * (at - used.updatedAt) = 0 /\ used.updatedAt <= at
      BY <1>2, <1>3, <1>14
    <3>2. used.tokens \in Nat /\ used.tokens <= AddressCapacity
      BY <1>13, <1>14 DEF Buckets, Globals
    <3>3. Refill(used, AddressCapacity, AddressRefill, at).tokens
            = Least(AddressCapacity, used.tokens + AddressRefill * (at - used.updatedAt))
      BY <1>2, <1>3, <1>14, <3>1, RefilledBucket
    <3> QED BY <1>3, <3>1, <3>2, <3>3 DEF Least
  <2> HIDE DEF admitted, at, used, b, key
  <2> QED BY <1>2, <1>11, <1>12, <1>14, <1>16, <2>3, <2>4
<1>21. TokensAddUp'
  <2>1. /\ global'.updatedAt = lastNow' /\ global'.tokens <= GlobalCapacity
        /\ window'.start <= lastNow' /\ lastGrant' <= lastNow'
    <3>1. lastNow' = at /\ lastGrant' <= at
      BY <1>1, <1>2, <1>7, <1>11, <1>16
    <3> HIDE DEF at, g, admitted
    <3> QED BY <1>1, <1>2, <1>3, <1>7, <1>8, <1>15, <1>16, <3>1 DEF Globals
  <2>2. \A o \in Tracked' : o = key \/ o \in kept \ {key}
    BY <1>12
  <2> HIDE DEF key
  <2> QED BY <1>16, <1>18, <1>19, <1>20, <2>1, <2>2 DEF TokensAddUp
<1> QED BY <1>17, <1>21 DEF LimiterIInv

\* Theorem: however the clock behaves and whatever addresses are evicted or reset,
\* the limiter (rate-limiter.ts) admits in no span of time more attempts than its capacity
\* and the refill of that span, neither in all nor, while it remembers the address, for one
\* address; and an attempt that it refuses costs the global bucket nothing.
THEOREM LimiterBoundsAttempts ==
    ASSUME KeyAssumption, UnitsAssumption
    PROVE  LimiterSpec => []AttemptsAreBounded
<1>1. LimiterInit => LimiterIInv
  BY LimiterStarts
<1>2. ASSUME LimiterIInv, [LimiterNext]_limiterVars PROVE LimiterIInv'
  <2>1. CASE Attempt
    <3> PICK address \in Addresses, reading \in Readings : Consume(address, reading)
      BY <2>1 DEF Attempt
    <3> PICK kept \in Remaining(Key[address]) : Consumes(address, reading, kept)
      BY DEF Consume, Consumes
    <3> QED BY <1>2, ConsumeKeeps
  <2>2. CASE ResetAddress
    BY <1>2, <2>2, ResetKeeps
  <2>3. CASE OpenWindow
    BY <1>2, <2>3, OpenKeeps
  <2>4. CASE UNCHANGED limiterVars
    BY <1>2, <2>4 DEF limiterVars, LimiterIInv, LimiterTypeOK, TokensAddUp, Tracked, Refill
  <2> QED BY <1>2, <2>1, <2>2, <2>3, <2>4 DEF LimiterNext
<1>3. LimiterIInv => AttemptsAreBounded
  <2> SUFFICES ASSUME LimiterIInv PROVE GlobalBound /\ AddressBound /\ RefusalIsFree
    BY DEF AttemptsAreBounded
  <2>1. GlobalBound
    BY DEF GlobalBound, LimiterIInv, LimiterTypeOK, TokensAddUp, UnitsAssumption
  <2>2. AddressBound
    <3> SUFFICES ASSUME NEW k \in Keys
                 PROVE  window.of[k] * Whole
                           <= AddressCapacity + AddressRefill * (lastNow - window.start)
      BY DEF AddressBound
    <3>1. /\ lastNow \in Nat /\ window.start \in Nat /\ window.start <= lastNow
          /\ window.of[k] \in Nat /\ AddressCapacity \in Nat /\ AddressRefill \in Nat
      BY DEF LimiterIInv, LimiterTypeOK, TokensAddUp, UnitsAssumption
    <3>2. AddressRefill * (lastNow - window.start) \in Nat /\ window.of[k] * Whole \in Nat
      BY <3>1, RefillIsNatural, Grants
    <3>3. CASE k \in Tracked
      <4>1. addresses[k] \in Buckets /\ addresses[k].updatedAt <= lastNow
        BY <3>3 DEF LimiterIInv, LimiterTypeOK, TokensAddUp, Buckets
      <4>2. Refill(addresses[k], AddressCapacity, AddressRefill, lastNow).tokens \in Nat
        BY <3>1, <4>1, RefilledBucket
      <4>3. window.of[k] * Whole
              + Refill(addresses[k], AddressCapacity, AddressRefill, lastNow).tokens
              <= AddressCapacity + AddressRefill * (lastNow - window.start)
        BY <3>3 DEF LimiterIInv, TokensAddUp
      <4> QED BY <3>1, <3>2, <4>2, <4>3
    <3>4. CASE k \notin Tracked
      <4>1. window.of[k] = 0 /\ 0 * Whole = 0
        BY <3>4, Grants DEF LimiterIInv, TokensAddUp
      <4> QED BY <3>1, <3>2, <4>1
    <3> QED BY <3>3, <3>4
  <2>3. RefusalIsFree
    <3>1. /\ global \in Globals /\ lastNow \in Nat /\ global.updatedAt = lastNow
          /\ global.updatedAt <= lastNow /\ global.tokens \in Nat
          /\ GlobalCapacity \in Nat /\ GlobalRefill \in Nat /\ global.tokens <= GlobalCapacity
          /\ global.tokens >= Least(GlobalCapacity, GlobalRefill * (lastNow - lastGrant))
      BY DEF LimiterIInv, LimiterTypeOK, TokensAddUp, UnitsAssumption, Globals
    <3>2. Refill(global, GlobalCapacity, GlobalRefill, lastNow).tokens
            = Least(GlobalCapacity, global.tokens + GlobalRefill * (lastNow - global.updatedAt))
      BY <3>1, RefilledGlobal
    <3>3. GlobalRefill * (lastNow - global.updatedAt) = 0
      BY <3>1
    <3>4. Refill(global, GlobalCapacity, GlobalRefill, lastNow).tokens = global.tokens
      BY <3>1, <3>2, <3>3 DEF Least
    <3> QED BY <3>1, <3>4 DEF RefusalIsFree
  <2> QED BY <2>1, <2>2, <2>3
<1> QED BY <1>1, <1>2, <1>3, PTL DEF LimiterSpec

-----------------------------------------------------------------------------
(***************************************************************************)
(* The middleware, the routes and the bootstrap of the workspace.          *)
(*                                                                         *)
(* The requests that wait for their workspace are those in the chain of    *)
(* the bootstrap, each of them once (ChainIsPending); the one that leaves  *)
(* hands its session over or ends it.  It may leave the session of its     *)
(* cookie alone because a cookie was handed over before                    *)
(* (CookiesWereHanded).                                                    *)
(***************************************************************************)
\* A session, the jar of a browser and a request on its way
HttpSession == [st : {"none", "live", "gone"}, user : Users \cup {"none"}, token : 0..MaxToken]
Jar == [cookie : SessionIds \cup {NoId}, token : 0..MaxToken, user : Users]
Message == [kind : MessageKinds \cup {"none"}, at : Places, browser : Browsers \cup {"none"},
            cookie : SessionIds \cup {NoId}, token : 0..MaxToken, user : Users \cup {"none"},
            found : SessionIds \cup {NoId}, answer : Replies]

\* An entry of a chain, and a chain without repetitions
In(x, q) == \E i \in DOMAIN q : q[i] = x
Once(q) == \A i, j \in DOMAIN q : q[i] = q[j] => i = j

\* A request joins a chain it is not in.
LEMMA ChainGrows ==
    ASSUME NEW S, NEW q \in Seq(S), NEW r \in S, ~In(r, q), Once(q)
    PROVE  /\ Append(q, r) \in Seq(S) /\ Once(Append(q, r))
           /\ \A x : In(x, Append(q, r)) <=> In(x, q) \/ x = r
  <1> DEFINE z == Append(q, r)
  <1>1. z \in Seq(S) /\ Len(z) = Len(q) + 1
    OBVIOUS
  <1>2. \A i \in 1 .. Len(q) : z[i] = q[i]
    OBVIOUS
  <1>3. z[Len(q) + 1] = r
    OBVIOUS
  <1>4. Len(q) \in Nat /\ DOMAIN q = 1 .. Len(q) /\ DOMAIN z = 1 .. Len(q) + 1
    BY <1>1
  <1> HIDE DEF z
  <1>5. Once(z)
    BY <1>2, <1>3, <1>4 DEF Once, In
  <1>6. ASSUME NEW x PROVE In(x, z) <=> In(x, q) \/ x = r
    BY <1>2, <1>3, <1>4 DEF In
  <1> QED BY <1>1, <1>5, <1>6 DEF z

\* The first request leaves a chain.
LEMMA ChainShrinks ==
    ASSUME NEW S, NEW q \in Seq(S), q # <<>>, Once(q)
    PROVE  /\ Tail(q) \in Seq(S) /\ Once(Tail(q)) /\ Head(q) \in S /\ In(Head(q), q)
           /\ \A x : In(x, Tail(q)) <=> In(x, q) /\ x # Head(q)
  <1> DEFINE z == Tail(q)
  <1>1. z \in Seq(S) /\ Len(z) = Len(q) - 1 /\ Head(q) = q[1] /\ Len(q) \in Nat \ {0}
    OBVIOUS
  <1>2. \A i \in 1 .. Len(q) - 1 : z[i] = q[i + 1]
    OBVIOUS
  <1>4. DOMAIN q = 1 .. Len(q) /\ DOMAIN z = 1 .. Len(q) - 1
    BY <1>1
  <1>7. Head(q) \in S /\ In(Head(q), q)
    BY <1>1, <1>4 DEF In
  <1> HIDE DEF z
  <1>5. Once(z)
    BY <1>1, <1>2, <1>4 DEF Once, In
  <1>6. ASSUME NEW x PROVE In(x, z) <=> In(x, q) /\ x # Head(q)
    <2>1. ASSUME NEW i \in 1 .. Len(q), q[i] = x, x # q[1] PROVE In(x, z)
      <3>1. i - 1 \in 1 .. Len(q) - 1 /\ z[i - 1] = q[i]
        BY <2>1, <1>1, <1>2
      <3> QED BY <2>1, <3>1, <1>4 DEF In
    <2>2. ASSUME NEW i \in 1 .. Len(q) - 1, z[i] = x PROVE In(x, q) /\ x # q[1]
      <3>1. i + 1 \in 1 .. Len(q) /\ z[i] = q[i + 1] /\ i + 1 # 1 /\ 1 \in 1 .. Len(q)
        BY <2>2, <1>1, <1>2
      <3> QED BY <2>2, <3>1, <1>4 DEF In, Once
    <2> QED BY <2>1, <2>2, <1>1, <1>4 DEF In
  <1> QED BY <1>1, <1>5, <1>6, <1>7 DEF z

\* The type invariant in terms of the sets above
LEMMA Typed == HttpTypeOK <=>
    /\ sessions \in [SessionIds -> HttpSession] /\ jar \in [Browsers -> Jar]
    /\ message \in [Messages -> Message] /\ work \in Seq(Messages) /\ handed \subseteq SessionIds
  BY DEF HttpTypeOK, HttpSession, Jar, Message

\* The same of the next state
LEMMA TypedNext ==
    ASSUME sessions' \in [SessionIds -> HttpSession], jar' \in [Browsers -> Jar],
           message' \in [Messages -> Message], work' \in Seq(Messages), handed' \subseteq SessionIds
    PROVE  HttpTypeOK'
  BY DEF HttpTypeOK, HttpSession, Jar, Message

\* A request moves on without an answer.
LEMMA GotoMoves ==
    ASSUME message \in [Messages -> Message], NEW r \in Messages, NEW at \in Places, Goto(r, at)
    PROVE  /\ message' \in [Messages -> Message]
           /\ message'[r].at = at /\ message'[r].cookie = message[r].cookie
           /\ message'[r].found = message[r].found /\ message'[r].answer = message[r].answer
           /\ \A q \in Messages : q # r => message'[q] = message[q]
  <1> DEFINE m == [message[r] EXCEPT !.at = at]
  <1>1. message[r] \in Message
    OBVIOUS
  <1>2. m \in Message
    BY <1>1 DEF Message
  <1>3. m.at = at /\ m.cookie = message[r].cookie /\ m.found = message[r].found
        /\ m.answer = message[r].answer
    BY <1>1 DEF Message
  <1>4. message' = [message EXCEPT ![r] = m]
    BY Zenon DEF Goto
  <1> HIDE DEF m
  <1> QED BY <1>2, <1>3, <1>4

\* A request is answered.
LEMMA RespondMoves ==
    ASSUME message \in [Messages -> Message], NEW r \in Messages, NEW what \in Replies,
           NEW token \in 0 .. MaxToken, Respond(r, what, token)
    PROVE  /\ message' \in [Messages -> Message]
           /\ message'[r].at = "answered" /\ message'[r].cookie = message[r].cookie
           /\ message'[r].found = message[r].found /\ message'[r].answer = what
           /\ \A q \in Messages : q # r => message'[q] = message[q]
  <1> DEFINE m == [message[r] EXCEPT !.at = "answered", !.answer = what, !.token = token]
  <1>1. message[r] \in Message
    OBVIOUS
  <1>2. m \in Message
    BY <1>1 DEF Message, Places
  <1>3. m.at = "answered" /\ m.cookie = message[r].cookie /\ m.found = message[r].found
        /\ m.answer = what
    BY <1>1 DEF Message
  <1>4. message' = [message EXCEPT ![r] = m]
    BY DEF Respond, Message
  <1> HIDE DEF m
  <1> QED BY <1>2, <1>3, <1>4

\* A request waits for its workspace with the session it found or created.
LEMMA WorkspaceMoves ==
    ASSUME message \in [Messages -> Message], NEW r \in Messages, NEW a \in SessionIds,
           NEW token \in 0 .. MaxToken,
           message' = [message EXCEPT ![r].at = "workspace", ![r].found = a, ![r].token = token]
    PROVE  /\ message' \in [Messages -> Message]
           /\ message'[r].at = "workspace" /\ message'[r].cookie = message[r].cookie
           /\ message'[r].found = a /\ message'[r].answer = message[r].answer
           /\ \A q \in Messages : q # r => message'[q] = message[q]
  <1> DEFINE m == [message[r] EXCEPT !.at = "workspace", !.found = a, !.token = token]
  <1>1. message[r] \in Message
    OBVIOUS
  <1>2. m \in Message
    BY <1>1 DEF Message, Places
  <1>3. m.at = "workspace" /\ m.cookie = message[r].cookie /\ m.found = a
        /\ m.answer = message[r].answer
    BY <1>1 DEF Message
  <1>4. message' = [message EXCEPT ![r] = m]
    BY DEF Message
  <1> HIDE DEF m
  <1> QED BY <1>2, <1>3, <1>4

\* A step of a request outside the chain that creates no session
LEMMA QuietStep ==
    ASSUME SessionsAreOwned, HttpTypeOK', NEW r \in Messages,
           ~Is(r, "workspace"), message'[r].at # "workspace",
           \A q \in Messages : q # r => message'[q] = message[q],
           message'[r].at \notin {"answered", "done"} => message'[r].answer = "none",
           message'[r].cookie \in handed \cup {NoId},
           message'[r].answer = "session" => message'[r].found \in handed,
           \A b \in Browsers : jar'[b].cookie \in handed \cup {NoId},
           \A a \in SessionIds : sessions'[a].st = "live" => sessions[a].st = "live",
           work' = work, handed' = handed
    PROVE  SessionsAreOwned'
  <1>1. ChainIsPending'
    <2>1. \A q \in Messages : Is(q, "workspace")' <=> Is(q, "workspace")
      BY DEF Is
    <2>2. \A q \in Messages : Is(q, "workspace") => message'[q] = message[q]
      OBVIOUS
    <2> QED BY <2>1, <2>2 DEF SessionsAreOwned, ChainIsPending
  <1>2. AnswerComesLast'
    BY DEF SessionsAreOwned, AnswerComesLast
  <1>3. CookiesWereHanded'
    BY DEF SessionsAreOwned, CookiesWereHanded
  <1>4. SessionHasOwner'
    <2> SUFFICES ASSUME NEW a \in SessionIds, Live(a)', a \notin handed'
                 PROVE  \E q \in Messages : Is(q, "workspace")' /\ message'[q].found = a
      BY DEF SessionHasOwner
    <2>1. Live(a) /\ a \notin handed
      BY DEF Live
    <2>2. PICK q \in Messages : Is(q, "workspace") /\ message[q].found = a
      BY <2>1 DEF SessionsAreOwned, SessionHasOwner
    <2> QED BY <2>2 DEF Is
  <1> QED BY <1>1, <1>2, <1>3, <1>4 DEF SessionsAreOwned

\* A request carries the cookie and the token of its browser's jar.
LEMMA SendKeeps ==
    ASSUME SessionsAreOwned, NEW r \in Messages, NEW b \in Browsers, NEW k \in MessageKinds,
           MaxToken \in Nat, Send(r, b, k)
    PROVE  SessionsAreOwned'
  <1>1. /\ message \in [Messages -> Message] /\ jar \in [Browsers -> Jar]
        /\ jar[b].cookie \in handed \cup {NoId}
    BY Typed DEF SessionsAreOwned, CookiesWereHanded
  <1> DEFINE asked == [NoMessage EXCEPT !.kind = k, !.browser = b, !.cookie = jar[b].cookie,
                                        !.token = jar[b].token, !.user = jar[b].user]
  <1>2. /\ asked \in Message /\ asked.answer = "none" /\ asked.at = "new"
        /\ asked.cookie = jar[b].cookie
    BY <1>1 DEF NoMessage, Message, Jar, Places, Replies
  <1> HIDE DEF asked
  <1>3. PICK m \in {[asked EXCEPT !.at = "establishing"], [asked EXCEPT !.at = "resolving"],
                    [asked EXCEPT !.at = "answered", !.answer = "rejected"]} :
           message' = [message EXCEPT ![r] = m]
    BY DEF Send, asked
  <1>4. /\ m \in Message /\ m.at \in {"establishing", "resolving", "answered"}
        /\ m.answer \in {"none", "rejected"} /\ (m.at # "answered" => m.answer = "none")
        /\ m.cookie = jar[b].cookie
    BY <1>2, <1>3 DEF Message, Places, Replies
  <1>5. /\ message' \in [Messages -> Message] /\ message'[r] = m
        /\ \A q \in Messages : q # r => message'[q] = message[q]
    BY <1>1, <1>3, <1>4
  <1>6. HttpTypeOK'
    BY <1>5, Typed, TypedNext DEF SessionsAreOwned, Send
  <1> QED
    BY <1>1, <1>4, <1>5, <1>6, QuietStep DEF SessionsAreOwned, CookiesWereHanded, Send, Is

\* Ending a session touches no other.
LEMMA EndedIsTyped ==
    ASSUME sessions \in [SessionIds -> HttpSession], NEW a \in SessionIds
    PROVE  /\ Ended(a) \in [SessionIds -> HttpSession]
           /\ Ended(a)[a].st = "gone"
           /\ \A o \in SessionIds : o # a => Ended(a)[o] = sessions[o]
  <1>1. sessions[a] \in HttpSession
    OBVIOUS
  <1>2. [sessions[a] EXCEPT !.st = "gone"] \in HttpSession
    BY <1>1 DEF HttpSession
  <1>3. Ended(a) = [sessions EXCEPT ![a] = [sessions[a] EXCEPT !.st = "gone"]]
    BY Zenon DEF Ended
  <1> QED BY <1>1, <1>2, <1>3 DEF HttpSession

\* Resuming a session gives it a new token and changes no status.
LEMMA ResumedIsTyped ==
    ASSUME sessions \in [SessionIds -> HttpSession], NEW a \in SessionIds, MaxToken \in Nat,
           sessions[a].token < MaxToken
    PROVE  /\ Resumed(a) \in [SessionIds -> HttpSession]
           /\ \A o \in SessionIds : Resumed(a)[o].st = sessions[o].st
           /\ Resumed(a)[a].token \in 0 .. MaxToken
  <1>1. sessions[a] \in HttpSession
    OBVIOUS
  <1> DEFINE s == [sessions[a] EXCEPT !.token = sessions[a].token + 1]
  <1>2. s \in HttpSession /\ s.st = sessions[a].st /\ s.token \in 0 .. MaxToken
    BY <1>1 DEF HttpSession
  <1>3. Resumed(a) = [sessions EXCEPT ![a] = s]
    BY Zenon DEF Resumed
  <1> HIDE DEF s
  <1> QED BY <1>1, <1>2, <1>3

\* A request joins the chain of the bootstrap with a session: it owns that one.
LEMMA JoinsChain ==
    ASSUME SessionsAreOwned, HttpTypeOK', NEW r \in Messages, NEW a \in SessionIds,
           message[r].at \notin {"workspace", "answered", "done"},
           message'[r].at = "workspace", message'[r].cookie = message[r].cookie,
           message'[r].found = a, message'[r].answer = message[r].answer,
           \A q \in Messages : q # r => message'[q] = message[q],
           \A o \in SessionIds : sessions'[o].st = "live" => sessions[o].st = "live" \/ o = a,
           work' = Append(work, r), handed' = handed, jar' = jar
    PROVE  SessionsAreOwned'
  <1>1. work \in Seq(Messages) /\ Once(work) /\ ~In(r, work)
    BY DEF SessionsAreOwned, HttpTypeOK, ChainIsPending, Once, In, Is
  <1>2. Once(work') /\ \A x : In(x, work') <=> In(x, work) \/ x = r
    BY <1>1, ChainGrows
  <1>3. ChainIsPending'
    <2>1. \A q \in Messages : Is(q, "workspace")' <=> (Is(q, "workspace") \/ q = r)
      BY DEF Is
    <2>2. \A q \in Messages : Is(q, "workspace") <=> In(q, work)
      BY DEF SessionsAreOwned, ChainIsPending, In
    <2>3. \A q \in Messages : Is(q, "workspace")' <=> In(q, work')
      BY <1>2, <2>1, <2>2
    <2>4. \A q \in Messages : Is(q, "workspace")' => message'[q].found \in SessionIds
      BY <2>1 DEF SessionsAreOwned, ChainIsPending
    <2> QED BY <1>2, <2>3, <2>4 DEF ChainIsPending, In, Once
  <1>4. AnswerComesLast'
    BY DEF SessionsAreOwned, AnswerComesLast
  <1>5. CookiesWereHanded'
    BY DEF SessionsAreOwned, CookiesWereHanded, AnswerComesLast
  <1>6. SessionHasOwner'
    <2> SUFFICES ASSUME NEW o \in SessionIds, Live(o)', o \notin handed'
                 PROVE  \E q \in Messages : Is(q, "workspace")' /\ message'[q].found = o
      BY DEF SessionHasOwner
    <2>1. CASE o = a
      BY <2>1 DEF Is
    <2>2. CASE o # a
      <3>1. Live(o) /\ o \notin handed
        BY <2>2 DEF Live
      <3>2. PICK q \in Messages : Is(q, "workspace") /\ message[q].found = o
        BY <3>1 DEF SessionsAreOwned, SessionHasOwner
      <3> QED BY <3>2 DEF Is
    <2> QED BY <2>1, <2>2
  <1> QED BY <1>3, <1>4, <1>5, <1>6 DEF SessionsAreOwned

\* A request that is refused before it reaches the chain
LEMMA RejectKeeps ==
    ASSUME SessionsAreOwned, NEW r \in Messages, MaxToken \in Nat,
           message[r].at \notin {"workspace", "answered", "done"},
           NEW what \in Replies \ {"session"}, NEW token \in 0 .. MaxToken,
           Respond(r, what, token),
           sessions' \in [SessionIds -> HttpSession],
           \A a \in SessionIds : sessions'[a].st = "live" => sessions[a].st = "live",
           jar' = jar, work' = work, handed' = handed
    PROVE  SessionsAreOwned'
  <1>1. message \in [Messages -> Message]
    BY Typed DEF SessionsAreOwned
  <1>2. /\ message' \in [Messages -> Message]
        /\ message'[r].at = "answered" /\ message'[r].cookie = message[r].cookie
        /\ message'[r].found = message[r].found /\ message'[r].answer = what
        /\ \A q \in Messages : q # r => message'[q] = message[q]
    BY <1>1, RespondMoves
  <1>3. HttpTypeOK'
    BY <1>2, Typed, TypedNext DEF SessionsAreOwned
  <1> QED BY <1>2, <1>3, QuietStep DEF SessionsAreOwned, CookiesWereHanded, Is

\* A request that goes on to its next await
LEMMA PauseKeeps ==
    ASSUME SessionsAreOwned, NEW r \in Messages,
           message[r].at \notin {"workspace", "answered", "done"},
           NEW at \in Places \ {"workspace", "answered", "done"}, Goto(r, at),
           sessions' = sessions, jar' = jar, work' = work, handed' = handed
    PROVE  SessionsAreOwned'
  <1>1. message \in [Messages -> Message]
    BY Typed DEF SessionsAreOwned
  <1>2. /\ message' \in [Messages -> Message]
        /\ message'[r].at = at /\ message'[r].cookie = message[r].cookie
        /\ message'[r].found = message[r].found /\ message'[r].answer = message[r].answer
        /\ \A q \in Messages : q # r => message'[q] = message[q]
    BY <1>1, GotoMoves
  <1>3. HttpTypeOK'
    BY <1>2, Typed, TypedNext DEF SessionsAreOwned
  <1> QED
    BY <1>2, <1>3, QuietStep DEF SessionsAreOwned, CookiesWereHanded, AnswerComesLast, Is

\* GET /auth/session after the identity was verified
LEMMA ResolvedSessionKeeps ==
    ASSUME SessionsAreOwned, NEW r \in Messages, MaxToken \in Nat, NoId \notin SessionIds,
           ResolvedSession(r)
    PROVE  SessionsAreOwned'
  <1> DEFINE a == message[r].cookie
  <1>1. Is(r, "resolving") /\ jar' = jar /\ handed' = handed
    BY DEF ResolvedSession
  <1>2. message[r].at \notin {"workspace", "answered", "done"}
    BY <1>1 DEF Is
  <1>3. CASE /\ Resolves(r) /\ sessions[a].token < MaxToken
             /\ sessions' = Resumed(a)
             /\ message' = [message EXCEPT ![r].at = "workspace", ![r].found = message[r].cookie,
                                           ![r].token = sessions'[a].token]
             /\ work' = Append(work, r)
    <2>1. a \in SessionIds
      BY <1>3 DEF Resolves, AuthenticateCookie, Live
    <2>2. sessions \in [SessionIds -> HttpSession] /\ message \in [Messages -> Message]
      BY Typed DEF SessionsAreOwned
    <2>3. /\ sessions' \in [SessionIds -> HttpSession]
          /\ \A o \in SessionIds : sessions'[o].st = sessions[o].st
          /\ sessions'[a].token \in 0 .. MaxToken
      BY <1>3, <2>1, <2>2, ResumedIsTyped
    <2> HIDE DEF a
    <2>4. message' = [message EXCEPT ![r].at = "workspace", ![r].found = a,
                                     ![r].token = sessions'[a].token]
      BY <1>3 DEF a
    <2>5. /\ message' \in [Messages -> Message]
          /\ message'[r].at = "workspace" /\ message'[r].cookie = message[r].cookie
          /\ message'[r].found = a /\ message'[r].answer = message[r].answer
          /\ \A q \in Messages : q # r => message'[q] = message[q]
      BY <2>1, <2>2, <2>3, <2>4, WorkspaceMoves
    <2>6. HttpTypeOK'
      BY <1>1, <1>3, <2>3, <2>5, Typed, TypedNext DEF SessionsAreOwned
    <2> QED BY <1>1, <1>2, <1>3, <2>1, <2>3, <2>5, <2>6, JoinsChain
  <1>4. CASE ~Resolves(r) /\ Goto(r, "establishing") /\ UNCHANGED <<sessions, work>>
    BY <1>1, <1>2, <1>4, PauseKeeps DEF Places
  <1> QED BY <1>3, <1>4 DEF ResolvedSession

\* A session is established for a new user.
LEMMA EstablishedKeeps ==
    ASSUME SessionsAreOwned, NEW r \in Messages, MaxToken \in Nat \ {0}, SessionEstablished(r)
    PROVE  SessionsAreOwned'
  <1>1. Is(r, "establishing") /\ jar' = jar /\ handed' = handed
    BY DEF SessionEstablished
  <1>2. message[r].at \notin {"workspace", "answered", "done"}
    BY <1>1 DEF Is
  <1>3. sessions \in [SessionIds -> HttpSession] /\ message \in [Messages -> Message]
    BY Typed DEF SessionsAreOwned
  <1>4. ASSUME NEW a \in SessionIds,
               sessions' = [sessions EXCEPT ![a] = [st |-> "live", user |-> message[r].user,
                                                    token |-> 1]],
               message' = [message EXCEPT ![r].at = "workspace", ![r].found = a, ![r].token = 1],
               work' = Append(work, r)
        PROVE  SessionsAreOwned'
    <2>1. [st |-> "live", user |-> message[r].user, token |-> 1] \in HttpSession
      BY <1>3 DEF HttpSession, Message
    <2>2. /\ sessions' \in [SessionIds -> HttpSession]
          /\ \A o \in SessionIds : o # a => sessions'[o] = sessions[o]
      BY <1>3, <1>4, <2>1
    <2>3. 1 \in 0 .. MaxToken
      OBVIOUS
    <2>5. /\ message' \in [Messages -> Message]
          /\ message'[r].at = "workspace" /\ message'[r].cookie = message[r].cookie
          /\ message'[r].found = a /\ message'[r].answer = message[r].answer
          /\ \A q \in Messages : q # r => message'[q] = message[q]
      BY <1>3, <1>4, <2>3, WorkspaceMoves
    <2>6. HttpTypeOK'
      BY <1>1, <1>4, <2>2, <2>5, Typed, TypedNext DEF SessionsAreOwned
    <2> QED BY <1>1, <1>2, <1>4, <2>2, <2>5, <2>6, JoinsChain
  <1>5. CASE Respond(r, "rejected", 0) /\ UNCHANGED <<sessions, work>>
    <2>1. "rejected" \in Replies \ {"session"} /\ 0 \in 0 .. MaxToken
      BY DEF Replies
    <2> QED BY <1>1, <1>2, <1>3, <1>5, <2>1, RejectKeeps
  <1> QED BY <1>4, <1>5 DEF SessionEstablished

\* A mutation after the identity was verified
LEMMA ResolvedMutationKeeps ==
    ASSUME SessionsAreOwned, NEW r \in Messages, MaxToken \in Nat, ResolvedMutation(r)
    PROVE  SessionsAreOwned'
  <1>1. /\ Is(r, "resolving")
        /\ sessions' = sessions /\ jar' = jar /\ work' = work /\ handed' = handed
    BY DEF ResolvedMutation
  <1>2. message[r].at \notin {"workspace", "answered", "done"}
    BY <1>1 DEF Is
  <1>3. CASE Goto(r, "body")
    BY <1>1, <1>2, <1>3, PauseKeeps DEF Places
  <1>4. CASE Respond(r, "rejected", 0)
    <2>1. "rejected" \in Replies \ {"session"} /\ 0 \in 0 .. MaxToken
          /\ sessions \in [SessionIds -> HttpSession]
      BY Typed DEF Replies, SessionsAreOwned
    <2> QED BY <1>1, <1>2, <1>4, <2>1, RejectKeeps
  <1> QED BY <1>3, <1>4 DEF ResolvedMutation

\* The handler of a mutation runs after the body was read.
LEMMA HandleKeeps ==
    ASSUME SessionsAreOwned, NEW r \in Messages, MaxToken \in Nat, Handle(r)
    PROVE  SessionsAreOwned'
  <1> DEFINE a == message[r].cookie
  <1>1. /\ Is(r, "body") /\ jar' = jar /\ work' = work /\ handed' = handed /\ a \in SessionIds
    BY DEF Handle, MayHandle, AuthenticateCookie, Live
  <1>2. message[r].at \notin {"workspace", "answered", "done"}
    BY <1>1 DEF Is
  <1>3. sessions \in [SessionIds -> HttpSession]
    BY Typed DEF SessionsAreOwned
  <1>4. /\ "token" \in Replies \ {"session"} /\ "logged_out" \in Replies \ {"session"}
        /\ "done" \in Replies \ {"session"} /\ 0 \in 0 .. MaxToken
    BY DEF Replies
  <1>5. CASE /\ sessions[a].token < MaxToken /\ sessions' = Resumed(a)
             /\ Respond(r, "token", sessions'[a].token)
    <2>1. /\ sessions' \in [SessionIds -> HttpSession]
          /\ \A o \in SessionIds : sessions'[o].st = sessions[o].st
          /\ sessions'[a].token \in 0 .. MaxToken
      BY <1>1, <1>3, <1>5, ResumedIsTyped
    <2> HIDE DEF a
    <2> QED BY <1>1, <1>2, <1>4, <1>5, <2>1, RejectKeeps
  <1>6. CASE sessions' = Ended(a) /\ Respond(r, "logged_out", 0)
    <2>1. /\ sessions' \in [SessionIds -> HttpSession]
          /\ \A o \in SessionIds : sessions'[o].st = "live" => sessions[o].st = "live"
      BY <1>1, <1>3, <1>6, EndedIsTyped
    <2> HIDE DEF a
    <2> QED BY <1>1, <1>2, <1>4, <1>6, <2>1, RejectKeeps
  <1>7. CASE sessions' = sessions /\ Respond(r, "done", 0)
    BY <1>1, <1>2, <1>3, <1>4, <1>7, RejectKeeps
  <1> QED BY <1>5, <1>6, <1>7 DEF Handle

\* A body that cannot be read is refused.
LEMMA RejectBodyKeeps ==
    ASSUME SessionsAreOwned, NEW r \in Messages, MaxToken \in Nat, RejectBody(r)
    PROVE  SessionsAreOwned'
  <1>1. /\ message[r].at = "body" /\ Respond(r, "rejected", 0)
        /\ sessions' = sessions /\ jar' = jar /\ work' = work /\ handed' = handed
    BY DEF RejectBody, Is
  <1>2. "rejected" \in Replies \ {"session"} /\ 0 \in 0 .. MaxToken
        /\ sessions \in [SessionIds -> HttpSession]
    BY Typed DEF Replies, SessionsAreOwned
  <1> QED BY <1>1, <1>2, RejectKeeps

\* A request leaves the chain: its session is handed over, or ended if nobody else knows it.
LEMMA LeavesChain ==
    ASSUME SessionsAreOwned, HttpTypeOK', NEW r \in Messages, NEW what \in {"session", "failed"},
           work # <<>>, Head(work) = r, work' = Tail(work), jar' = jar,
           handed \subseteq handed',
           message'[r].at = "answered", message'[r].cookie = message[r].cookie,
           message'[r].found = message[r].found, message'[r].answer = what,
           \A q \in Messages : q # r => message'[q] = message[q],
           what = "session" => message[r].found \in handed',
           \A a \in SessionIds : sessions'[a].st = "live" =>
               /\ sessions[a].st = "live"
               /\ a = message[r].found => a \in handed'
    PROVE  SessionsAreOwned'
  <1>1. work \in Seq(Messages) /\ Once(work)
    BY DEF SessionsAreOwned, HttpTypeOK, ChainIsPending, Once
  <1>2. Once(work') /\ \A x : In(x, work') <=> In(x, work) /\ x # r
    BY <1>1, ChainShrinks
  <1>3. ChainIsPending'
    <2>1. \A q \in Messages : Is(q, "workspace")' <=> (Is(q, "workspace") /\ q # r)
      BY DEF Is
    <2>2. \A q \in Messages : Is(q, "workspace") <=> In(q, work)
      BY DEF SessionsAreOwned, ChainIsPending, In
    <2>3. \A q \in Messages : Is(q, "workspace")' <=> In(q, work')
      BY <1>2, <2>1, <2>2
    <2>4. \A q \in Messages : Is(q, "workspace")' => message'[q].found \in SessionIds
      BY <2>1 DEF SessionsAreOwned, ChainIsPending
    <2> QED BY <1>2, <2>3, <2>4 DEF ChainIsPending, In, Once
  <1>4. AnswerComesLast'
    BY DEF SessionsAreOwned, AnswerComesLast
  <1>5. CookiesWereHanded'
    <2>1. \A b \in Browsers : jar'[b].cookie \in handed' \cup {NoId}
      BY DEF SessionsAreOwned, CookiesWereHanded
    <2>2. ASSUME NEW q \in Messages
          PROVE  /\ message'[q].cookie \in handed' \cup {NoId}
                 /\ message'[q].answer = "session" => message'[q].found \in handed'
      <3>1. CASE q = r
        BY <3>1 DEF SessionsAreOwned, CookiesWereHanded
      <3>2. CASE q # r
        BY <3>2 DEF SessionsAreOwned, CookiesWereHanded
      <3> QED BY <3>1, <3>2
    <2> QED BY <2>1, <2>2 DEF CookiesWereHanded
  <1>6. SessionHasOwner'
    <2> SUFFICES ASSUME NEW o \in SessionIds, Live(o)', o \notin handed'
                 PROVE  \E q \in Messages : Is(q, "workspace")' /\ message'[q].found = o
      BY DEF SessionHasOwner
    <2>1. Live(o) /\ o \notin handed /\ o # message[r].found
      BY DEF Live
    <2>2. PICK q \in Messages : Is(q, "workspace") /\ message[q].found = o
      BY <2>1 DEF SessionsAreOwned, SessionHasOwner
    <2> QED BY <2>1, <2>2 DEF Is
  <1> QED BY <1>3, <1>4, <1>5, <1>6 DEF SessionsAreOwned

\* publishBootstrap after the workspace was loaded, or not
LEMMA WorkspaceKeeps ==
    ASSUME SessionsAreOwned, NEW r \in Messages, NEW ok \in BOOLEAN, MaxToken \in Nat,
           NoId \notin SessionIds, Workspace(r, ok)
    PROVE  SessionsAreOwned'
  <1>1. /\ message[r].at = "workspace" /\ work # <<>> /\ Head(work) = r /\ jar' = jar
        /\ work' = Tail(work)
    BY DEF Workspace, Is, ChainGoesOn
  <1>2. /\ sessions \in [SessionIds -> HttpSession] /\ message \in [Messages -> Message]
        /\ jar \in [Browsers -> Jar] /\ work \in Seq(Messages) /\ handed \subseteq SessionIds
    BY Typed DEF SessionsAreOwned
  <1>3. Tail(work) \in Seq(Messages)
    BY <1>1, <1>2
  <1>4. message[r].found \in SessionIds /\ message[r].cookie \in handed \cup {NoId}
    BY <1>1 DEF SessionsAreOwned, ChainIsPending, CookiesWereHanded, Is
  <1>5. CASE /\ Respond(r, "session", message[r].token) /\ sessions' = sessions
             /\ handed' = handed \cup {message[r].found}
    <2>1. "session" \in Replies /\ message[r].token \in 0 .. MaxToken
      BY <1>2 DEF Replies, Message
    <2>2. /\ message' \in [Messages -> Message]
          /\ message'[r].at = "answered" /\ message'[r].cookie = message[r].cookie
          /\ message'[r].found = message[r].found /\ message'[r].answer = "session"
          /\ \A q \in Messages : q # r => message'[q] = message[q]
      BY <1>2, <1>5, <2>1, RespondMoves
    <2>3. HttpTypeOK'
      BY <1>1, <1>2, <1>3, <1>4, <1>5, <2>2, TypedNext
    <2> QED BY <1>1, <1>5, <2>2, <2>3, LeavesChain
  <1>6. CASE /\ sessions' = [a \in SessionIds |->
                   IF a \in Abandoned(r) THEN Ended(a)[a] ELSE sessions[a]]
             /\ Respond(r, "failed", 0) /\ handed' = handed
    <2>1. "failed" \in Replies /\ 0 \in 0 .. MaxToken
      BY DEF Replies
    <2>2. /\ message' \in [Messages -> Message]
          /\ message'[r].at = "answered" /\ message'[r].cookie = message[r].cookie
          /\ message'[r].found = message[r].found /\ message'[r].answer = "failed"
          /\ \A q \in Messages : q # r => message'[q] = message[q]
      BY <1>2, <1>6, <2>1, RespondMoves
    <2>3. ASSUME NEW a \in SessionIds
          PROVE  /\ sessions'[a] \in HttpSession
                 /\ sessions'[a].st = "live" =>
                      /\ sessions[a].st = "live"
                      /\ a = message[r].found => a \in handed'
      <3>1. CASE a \in Abandoned(r)
        <4>1. sessions'[a] = Ended(a)[a]
          BY <1>6, <3>1
        <4>2. Ended(a)[a] \in HttpSession /\ Ended(a)[a].st = "gone"
          BY <1>2, EndedIsTyped
        <4> QED BY <4>1, <4>2
      <3>2. CASE a \notin Abandoned(r)
        <4>1. sessions'[a] = sessions[a]
          BY <1>6, <3>2
        <4>2. a = message[r].found => a = message[r].cookie
          BY <3>2 DEF Abandoned
        <4> QED BY <1>2, <1>4, <1>6, <4>1, <4>2
      <3> QED BY <3>1, <3>2
    <2>4. HttpTypeOK'
      BY <1>1, <1>2, <1>3, <1>6, <2>2, <2>3, TypedNext
    <2> QED BY <1>1, <1>6, <2>2, <2>3, <2>4, LeavesChain
  <1> QED BY <1>5, <1>6 DEF Workspace

\* The answer reaches the browser, with its cookie and its token.
LEMMA DeliverKeeps ==
    ASSUME SessionsAreOwned, NEW r \in Messages, MaxToken \in Nat, Deliver(r)
    PROVE  SessionsAreOwned'
  <1> DEFINE b == message[r].browser
  <1>1. /\ message[r].at = "answered" /\ Goto(r, "done")
        /\ sessions' = sessions /\ work' = work /\ handed' = handed
    BY DEF Deliver, Is
  <1>2. /\ message \in [Messages -> Message] /\ jar \in [Browsers -> Jar]
    BY Typed DEF SessionsAreOwned
  <1>3. /\ message' \in [Messages -> Message]
        /\ message'[r].at = "done" /\ message'[r].cookie = message[r].cookie
        /\ message'[r].found = message[r].found /\ message'[r].answer = message[r].answer
        /\ \A q \in Messages : q # r => message'[q] = message[q]
    BY <1>1, <1>2, GotoMoves DEF Places
  <1>4. jar' \in [Browsers -> Jar] /\ \A c \in Browsers : jar'[c].cookie \in handed \cup {NoId}
    <2>1. CASE b \notin Browsers
      <3>1. jar' = jar
        BY <1>2, <2>1 DEF Deliver
      <3> QED BY <1>2, <3>1 DEF SessionsAreOwned, CookiesWereHanded
    <2>2. CASE b \in Browsers
      <3>1. jar[b] \in Jar /\ message[r] \in Message
        BY <1>2, <2>2
      <3>2. PICK j : /\ \/ /\ j = [jar[b] EXCEPT !.cookie = message[r].found,
                                                 !.token = message[r].token]
                           /\ message[r].answer = "session"
                        \/ j = [jar[b] EXCEPT !.token = message[r].token]
                        \/ j = [jar[b] EXCEPT !.cookie = NoId]
                        \/ j = jar[b]
                     /\ jar' = [jar EXCEPT ![b] = j]
        BY <1>2, <2>2 DEF Deliver
      <3>3. /\ j \in Jar
            /\ \/ j.cookie \in {jar[b].cookie, NoId}
               \/ j.cookie = message[r].found /\ message[r].answer = "session"
        BY <3>1, <3>2 DEF Jar, Message
      <3>4. j.cookie \in handed \cup {NoId}
        BY <2>2, <3>3 DEF SessionsAreOwned, CookiesWereHanded
      <3> HIDE DEF b
      <3> QED BY <1>2, <2>2, <3>2, <3>3, <3>4 DEF SessionsAreOwned, CookiesWereHanded
    <2> QED BY <2>1, <2>2
  <1>5. HttpTypeOK'
    BY <1>1, <1>3, <1>4, Typed, TypedNext DEF SessionsAreOwned
  <1> QED
    BY <1>1, <1>3, <1>4, <1>5, QuietStep DEF SessionsAreOwned, CookiesWereHanded, Is

\* A session expires or is revoked elsewhere.
LEMMA SessionEndsKeeps ==
    ASSUME SessionsAreOwned, NEW a \in SessionIds, SessionEnds(a)
    PROVE  SessionsAreOwned'
  <1>1. /\ sessions' = Ended(a) /\ jar' = jar /\ message' = message /\ work' = work
        /\ handed' = handed
    BY DEF SessionEnds
  <1>2. sessions \in [SessionIds -> HttpSession]
    BY Typed DEF SessionsAreOwned
  <1>3. /\ sessions' \in [SessionIds -> HttpSession]
        /\ \A o \in SessionIds : sessions'[o].st = "live" => sessions[o].st = "live"
    BY <1>1, <1>2, EndedIsTyped
  <1>4. HttpTypeOK'
    BY <1>1, <1>3, Typed, TypedNext DEF SessionsAreOwned
  <1>5. ChainIsPending' /\ AnswerComesLast' /\ CookiesWereHanded'
    BY <1>1 DEF SessionsAreOwned, ChainIsPending, AnswerComesLast, CookiesWereHanded, Is
  <1>6. SessionHasOwner'
    BY <1>1, <1>3 DEF SessionsAreOwned, SessionHasOwner, Live, Is
  <1> QED BY <1>4, <1>5, <1>6 DEF SessionsAreOwned

\* The user behind a browser changes.
LEMMA ChangeUserKeeps ==
    ASSUME SessionsAreOwned, NEW b \in Browsers, NEW u \in Users, ChangeUser(b, u)
    PROVE  SessionsAreOwned'
  <1> DEFINE j == [jar[b] EXCEPT !.user = u]
  <1>1. sessions' = sessions /\ message' = message /\ work' = work /\ handed' = handed
    BY DEF ChangeUser
  <1>2. jar' = [jar EXCEPT ![b] = j]
    BY Zenon DEF ChangeUser
  <1>3. jar \in [Browsers -> Jar]
    BY Typed DEF SessionsAreOwned
  <1>4. j \in Jar /\ j.cookie = jar[b].cookie
    BY <1>3 DEF Jar
  <1> HIDE DEF j
  <1>5. jar' \in [Browsers -> Jar] /\ \A c \in Browsers : jar'[c].cookie = jar[c].cookie
    BY <1>2, <1>3, <1>4
  <1>6. HttpTypeOK'
    BY <1>1, <1>5, Typed, TypedNext DEF SessionsAreOwned
  <1>7. CookiesWereHanded'
    BY <1>1, <1>5 DEF SessionsAreOwned, CookiesWereHanded
  <1>8. ChainIsPending' /\ AnswerComesLast' /\ SessionHasOwner'
    BY <1>1 DEF SessionsAreOwned, ChainIsPending, AnswerComesLast, SessionHasOwner, Is, Live
  <1> QED BY <1>6, <1>7, <1>8 DEF SessionsAreOwned

\* At first there are no sessions and no requests.
LEMMA RequestsStart ==
    ASSUME MaxToken \in Nat, HttpInit
    PROVE  SessionsAreOwned
  <1>1. PICK u \in [Browsers -> Users] :
          jar = [b \in Browsers |-> [cookie |-> NoId, token |-> 0, user |-> u[b]]]
    BY DEF HttpInit
  <1>2. /\ sessions = [a \in SessionIds |-> [st |-> "none", user |-> "none", token |-> 0]]
        /\ message = [r \in Messages |-> NoMessage] /\ work = <<>> /\ handed = {}
    BY DEF HttpInit
  <1>3. NoMessage \in Message /\ NoMessage.at = "new" /\ NoMessage.answer = "none"
        /\ NoMessage.cookie = NoId
    BY DEF NoMessage, Message, Places, Replies
  <1>4. \A r \in Messages : message[r] = NoMessage
    BY <1>2
  <1>5. HttpTypeOK
    <2>1. jar \in [Browsers -> Jar]
      BY <1>1 DEF Jar
    <2>2. sessions \in [SessionIds -> HttpSession]
      BY <1>2 DEF HttpSession
    <2>3. message \in [Messages -> Message] /\ work \in Seq(Messages)
      BY <1>2, <1>3
    <2> QED BY <1>2, <2>1, <2>2, <2>3, Typed
  <1>6. ChainIsPending
    <2>1. DOMAIN work = {}
      BY <1>2
    <2> QED BY <1>3, <1>4, <2>1 DEF ChainIsPending, Is
  <1>7. AnswerComesLast
    BY <1>3, <1>4 DEF AnswerComesLast
  <1>8. CookiesWereHanded
    BY <1>1, <1>3, <1>4 DEF CookiesWereHanded
  <1>9. SessionHasOwner
    BY <1>2 DEF SessionHasOwner, Live
  <1> QED BY <1>5, <1>6, <1>7, <1>8, <1>9 DEF SessionsAreOwned

\* Theorem: no session is forgotten.  Between its creation by GET /auth/session
\* (auth-routes.ts) and the answer that hands its cookie over there are the queue of the
\* workspace bootstrap (workspace-bootstrap.ts), its failure and the loss of the session; in
\* each of these moments a live session was handed to its browser or a request still has to.
THEOREM SessionsStayOwned ==
    ASSUME NoIdAssumption
    PROVE  HttpSpec => []SessionsAreOwned
  <1>1. MaxToken \in Nat \ {0} /\ NoId \notin SessionIds
    BY DEF NoIdAssumption
  <1>2. HttpInit => SessionsAreOwned
    BY <1>1, RequestsStart
  <1>3. ASSUME SessionsAreOwned, [HttpNext]_httpVars PROVE SessionsAreOwned'
    <2>1. ASSUME NEW r \in Messages, RequestStep(r) PROVE SessionsAreOwned'
      BY <1>1, <1>3, <2>1, ResolvedSessionKeeps, ResolvedMutationKeeps, HandleKeeps,
         RejectBodyKeeps, EstablishedKeeps, WorkspaceKeeps, DeliverKeeps DEF RequestStep
    <2>2. CASE UNCHANGED httpVars
      <3>1. HttpTypeOK'
        BY <1>3, <2>2 DEF SessionsAreOwned, HttpTypeOK, httpVars
      <3> QED BY <1>3, <2>2, <3>1 DEF httpVars, SessionsAreOwned, ChainIsPending,
                AnswerComesLast, CookiesWereHanded, SessionHasOwner, Is, Live
    <2> QED BY <1>1, <1>3, <2>1, <2>2, SendKeeps, SessionEndsKeeps, ChangeUserKeeps DEF HttpNext
  <1> QED BY <1>2, <1>3, PTL DEF HttpSpec

\* A step of one request leaves the others where they are.
LEMMA OthersMessageStays ==
    ASSUME SessionsAreOwned, NEW q \in Messages, NEW r \in Messages, q # r,
           RequestStep(r) \/ \E b \in Browsers, k \in MessageKinds : Send(r, b, k)
    PROVE  message'[q] = message[q]
  <1>1. message \in [Messages -> Message]
    BY Typed DEF SessionsAreOwned
  <1>2. \E m : message' = [message EXCEPT ![r] = m]
    <2>1. ASSUME NEW at, Goto(r, at) PROVE <1>2
      BY <2>1, Zenon DEF Goto
    <2>2. ASSUME NEW what, NEW token, Respond(r, what, token) PROVE <1>2
      <3>1. message' = [message EXCEPT ![r] = [message[r] EXCEPT !.at = "answered",
                                               !.answer = what, !.token = token]]
        BY <1>1, <2>2 DEF Respond, Message
      <3> QED BY <3>1
    <2>3. ASSUME NEW a, NEW token,
                 message' = [message EXCEPT ![r].at = "workspace", ![r].found = a,
                                            ![r].token = token]
          PROVE <1>2
      <3>1. message' = [message EXCEPT ![r] = [message[r] EXCEPT !.at = "workspace",
                                               !.found = a, !.token = token]]
        BY <1>1, <2>3 DEF Message
      <3> QED BY <3>1
    <2>4. CASE \E b \in Browsers, k \in MessageKinds : Send(r, b, k)
      BY <2>4, Zenon DEF Send
    <2>5. CASE ResolvedSession(r) \/ SessionEstablished(r)
      BY <2>1, <2>2, <2>3, <2>5 DEF ResolvedSession, SessionEstablished
    <2>6. CASE ResolvedMutation(r) \/ Handle(r) \/ RejectBody(r)
      BY <2>1, <2>2, <2>6 DEF ResolvedMutation, Handle, RejectBody
    <2>7. CASE (\E ok \in BOOLEAN : Workspace(r, ok)) \/ Deliver(r)
      BY <2>1, <2>2, <2>7 DEF Workspace, Deliver
    <2> QED BY <2>4, <2>5, <2>6, <2>7 DEF RequestStep
  <1> QED BY <1>1, <1>2

\* The handler of a request runs only with a session of its user.
LEMMA HandlersAreAuthorized ==
    ASSUME SessionsAreOwned, NEW r \in Messages, MaxToken \in Nat, Is(r, "body"),
           RequestStep(r) \/ \E b \in Browsers, k \in MessageKinds : Send(r, b, k),
           message'[r].answer \in {"token", "logged_out", "done"}
    PROVE  Live(message[r].cookie) /\ sessions[message[r].cookie].user = message[r].user
  <1>1. Handle(r) \/ RejectBody(r)
    BY DEF RequestStep, Send, ResolvedSession, ResolvedMutation, SessionEstablished, Workspace,
           Deliver, Is
  <1>2. message \in [Messages -> Message] /\ "rejected" \in Replies /\ 0 \in 0 .. MaxToken
    BY Typed DEF SessionsAreOwned, Replies
  <1>3. ~RejectBody(r)
    BY <1>2, RespondMoves DEF RejectBody
  <1> QED BY <1>1, <1>3 DEF Handle, MayHandle, AuthenticateCookie, IdentityMatches

\* GET /auth/session goes on only with a session of its user.
LEMMA ResumesAreAuthorized ==
    ASSUME SessionsAreOwned, NEW r \in Messages, MaxToken \in Nat, Is(r, "resolving"),
           RequestStep(r) \/ \E b \in Browsers, k \in MessageKinds : Send(r, b, k),
           message'[r].at = "workspace"
    PROVE  Live(message'[r].found) /\ sessions[message'[r].found].user = message[r].user
  <1>1. ResolvedSession(r) \/ ResolvedMutation(r)
    BY DEF RequestStep, Send, Handle, RejectBody, SessionEstablished, Workspace, Deliver, Is
  <1>2. message \in [Messages -> Message] /\ "rejected" \in Replies /\ 0 \in 0 .. MaxToken
        /\ "body" \in Places /\ "establishing" \in Places
    BY Typed DEF SessionsAreOwned, Replies, Places
  <1>3. ~ResolvedMutation(r)
    BY <1>2, RespondMoves, GotoMoves DEF ResolvedMutation
  <1>4. ~Goto(r, "establishing")
    BY <1>2, GotoMoves
  <1>5. /\ Resolves(r)
        /\ message' = [message EXCEPT ![r].at = "workspace", ![r].found = message[r].cookie,
                                      ![r].token = sessions'[message[r].cookie].token]
    BY <1>1, <1>3, <1>4 DEF ResolvedSession
  <1>6. message'[r].found = message[r].cookie
    BY <1>2, <1>5 DEF Message
  <1> QED BY <1>5, <1>6 DEF Resolves, AuthenticateCookie, IdentityMatches

\* Theorem: a handler (auth-middleware.ts) runs only for a session that is live and
\* the user's own when it runs, though the session was looked up before the identity was
\* verified and before the body was read; and GET /auth/session resumes only such a session.
THEOREM RequestsKeepAuthority ==
    ASSUME NoIdAssumption
    PROVE  HttpSpec => RequestsHaveAuthority
  <1>1. MaxToken \in Nat \ {0}
    BY DEF NoIdAssumption
  <1>2. ASSUME SessionsAreOwned, [HttpNext]_httpVars
        PROVE  [HandlerHasAuthority /\ ResumesOwnSession]_httpVars
    <2>1. CASE UNCHANGED httpVars
      BY <2>1
    <2>2. ASSUME NEW r \in Messages, ~UNCHANGED httpVars, HttpNext
          PROVE  /\ Is(r, "body") /\ message'[r].answer \in {"token", "logged_out", "done"} =>
                      Live(message[r].cookie) /\ sessions[message[r].cookie].user = message[r].user
                 /\ Is(r, "resolving") /\ message'[r].at = "workspace" =>
                      Live(message'[r].found) /\ sessions[message'[r].found].user = message[r].user
      <3>1. CASE RequestStep(r) \/ \E b \in Browsers, k \in MessageKinds : Send(r, b, k)
        BY <1>1, <1>2, <3>1, HandlersAreAuthorized, ResumesAreAuthorized
      <3>2. CASE message'[r] = message[r]
        <4>1. Is(r, "body") => message'[r].answer = "none"
          BY <1>2, <3>2 DEF SessionsAreOwned, AnswerComesLast, Is
        <4> QED BY <3>2, <4>1 DEF Is
      <3>3. CASE \E q \in Messages \ {r} : RequestStep(q) \/ \E b \in Browsers, k \in MessageKinds :
                    Send(q, b, k)
        BY <1>2, <3>2, <3>3, OthersMessageStays
      <3>4. CASE \/ \E a \in SessionIds : SessionEnds(a)
                 \/ \E b \in Browsers, u \in Users : ChangeUser(b, u)
        BY <3>2, <3>4 DEF SessionEnds, ChangeUser
      <3> QED BY <2>2, <3>1, <3>3, <3>4 DEF HttpNext
    <2> QED BY <1>2, <2>1, <2>2 DEF HandlerHasAuthority, ResumesOwnSession
  <1> QED BY <1>2, SessionsStayOwned, PTL DEF HttpSpec, RequestsHaveAuthority

-----------------------------------------------------------------------------
(***************************************************************************)
(* The authentication hook of the client.                                  *)
(*                                                                         *)
(* All of its state changes at once, with one publication; so the          *)
(* invariant relates status, bootstrap, epoch, operation and timer of one  *)
(* record, and each handler is one step that builds that record anew.      *)
(***************************************************************************)
\* The state of the hook, and the parts of the invariant as predicates of that state
AuthStates ==
    [status : {"loading", "unauthenticated", "authenticated", "access-error"},
     boot : Bootstraps \cup {None}, busy : BOOLEAN, epoch : Nat,
     operation : Ops \cup {None}, private : Nat, timer : BOOLEAN]

Authorized(a) ==
    /\ (a.status = "authenticated") <=> (a.private # 0)
    /\ (a.boot = "session") <=> (a.private # 0)
    /\ a.private # 0 => a.private = a.epoch

Fits(a, f) ==
    /\ a.operation # None =>
          /\ f[a.operation] # None
          /\ f[a.operation] = "bootstrap" => a.status = "loading"
          /\ f[a.operation] \in {"login", "setup", "recover"} => a.status = "unauthenticated"
    /\ a.busy <=> a.operation # None /\ f[a.operation] \in Busies
    /\ mode = "upstream" /\ a.boot = "session" => a.timer \/ a.operation # None
    /\ a.timer => a.boot = "session" /\ a.operation = None

AboutEpochs(a, some, config) ==
    /\ a.epoch <= MaxEpochs
    /\ some \subseteq [epoch : 1 .. a.epoch, kind : {"config", "other"}]
    /\ config \in [epoch : 0 .. a.epoch, ok : BOOLEAN]

Away(h, a) == h => a.boot # "session" /\ a.operation = None

\* The invariant, taken apart
LEMMA ShownParts ==
    ASSUME MaxEpochs \in Nat, AuthorityIsShown
    PROVE  /\ mode \in {"local", "upstream"} /\ hidden \in BOOLEAN
           /\ flight \in [Ops -> Kinds \cup {None}]
           /\ auth \in AuthStates /\ Authorized(auth) /\ Fits(auth, flight)
           /\ AboutEpochs(auth, requests, loaded) /\ Away(hidden, auth)
  <1>1. auth \in AuthStates /\ auth.epoch <= MaxEpochs
    BY DEF AuthorityIsShown, ClientTypeOK, AuthStates
  <1>2. Authorized(auth)
    BY DEF AuthorityIsShown, WorkspaceIsAuthorized, Authenticated, Authorized
  <1>3. Fits(auth, flight)
    BY DEF AuthorityIsShown, BusyIsExplained, RefreshIsScheduled, OperationFitsPage,
           ClientTypeOK, Authenticated, Fits
  <1>4. Away(hidden, auth)
    BY DEF AuthorityIsShown, HiddenIsSignedOut, Authenticated, Away
  <1> QED BY <1>1, <1>2, <1>3, <1>4 DEF AuthorityIsShown, ClientTypeOK, AboutEpochs

\* The invariant of the next state, put together
LEMMA ShownAgain ==
    ASSUME MaxEpochs \in Nat, mode' = mode, mode \in {"local", "upstream"}, hidden' \in BOOLEAN,
           flight' \in [Ops -> Kinds \cup {None}], auth' \in AuthStates,
           Authorized(auth'), Fits(auth', flight'), AboutEpochs(auth', requests', loaded'),
           Away(hidden', auth')
    PROVE  AuthorityIsShown'
  <1>1. auth'.epoch \in 0 .. MaxEpochs /\ auth'.private \in 0 .. MaxEpochs
    BY DEF AuthStates, Authorized, AboutEpochs
  <1>2. ClientTypeOK'
    <2>1. auth' \in [status : {"loading", "unauthenticated", "authenticated", "access-error"},
                     boot : Bootstraps \cup {None}, busy : BOOLEAN, epoch : 0..MaxEpochs,
                     operation : Ops \cup {None}, private : 0..MaxEpochs, timer : BOOLEAN]
      BY <1>1 DEF AuthStates
    <2> QED BY <2>1 DEF ClientTypeOK, AboutEpochs, Fits
  <1>3. WorkspaceIsAuthorized'
    BY DEF WorkspaceIsAuthorized, Authenticated, Authorized
  <1>4. BusyIsExplained' /\ RefreshIsScheduled' /\ OperationFitsPage'
    BY DEF BusyIsExplained, RefreshIsScheduled, OperationFitsPage, Authenticated, Fits
  <1>5. HiddenIsSignedOut'
    BY DEF HiddenIsSignedOut, Authenticated, Away
  <1> QED BY <1>2, <1>3, <1>4, <1>5 DEF AuthorityIsShown

\* An operation begins and replaces the one before.
LEMMA BeginKeeps ==
    ASSUME NoneAssumption, MaxEpochs \in Nat, AuthorityIsShown, NEW o \in Ops, NEW kind \in Kinds,
           NEW a \in AuthStates, Authorized(a), a.epoch = auth.epoch, Begin(o, kind, a),
           ~a.timer, a.busy <=> kind \in Busies,
           kind = "bootstrap" => a.status = "loading",
           kind \in {"login", "setup", "recover"} => a.status = "unauthenticated"
    PROVE  AuthorityIsShown'
  <1>1. /\ mode \in {"local", "upstream"} /\ hidden \in BOOLEAN
        /\ flight \in [Ops -> Kinds \cup {None}]
        /\ auth \in AuthStates /\ AboutEpochs(auth, requests, loaded)
    BY ShownParts
  <1>2. /\ auth' = [a EXCEPT !.operation = o] /\ flight' = [flight EXCEPT ![o] = kind]
        /\ mode' = mode /\ requests' = requests /\ loaded' = loaded /\ hidden' = hidden
        /\ ~hidden
    BY DEF Begin
  <1>3. /\ flight' \in [Ops -> Kinds \cup {None}] /\ flight'[o] = kind /\ kind # None
        /\ o # None
    BY <1>1, <1>2 DEF NoneAssumption
  <1>4. /\ auth' \in AuthStates /\ auth'.operation = o /\ auth'.status = a.status
        /\ auth'.boot = a.boot /\ auth'.busy = a.busy /\ auth'.epoch = a.epoch
        /\ auth'.private = a.private /\ auth'.timer = a.timer
    BY <1>2 DEF AuthStates
  <1>5. Authorized(auth')
    BY <1>4 DEF Authorized
  <1>6. Fits(auth', flight')
    BY <1>3, <1>4 DEF Fits
  <1>7. AboutEpochs(auth', requests', loaded')
    BY <1>1, <1>2, <1>4 DEF AboutEpochs
  <1>8. Away(hidden', auth')
    BY <1>2 DEF Away
  <1> QED BY <1>1, <1>2, <1>3, <1>4, <1>5, <1>6, <1>7, <1>8, ShownAgain

\* The handlers that begin an operation
LEMMA OperationsBegin ==
    ASSUME NoneAssumption, MaxEpochs \in Nat, AuthorityIsShown, NEW o \in Ops,
           \/ Retry(o) \/ Login(o) \/ Setup(o) \/ Logout(o) \/ ChangePassword(o) \/ RefreshTimer(o)
    PROVE  AuthorityIsShown'
  <1>1. auth \in AuthStates /\ Authorized(auth) /\ Fits(auth, flight)
    BY ShownParts
  <1>2. /\ "bootstrap" \in Kinds \ Busies /\ "refresh" \in Kinds \ Busies
        /\ "login" \in Busies /\ "setup" \in Busies /\ "logout" \in Busies
        /\ "password" \in Busies /\ Busies \subseteq Kinds
    BY DEF Kinds, Busies
  <1>3. ASSUME Retry(o) PROVE AuthorityIsShown'
    <2> DEFINE a == [auth EXCEPT !.status = "loading", !.busy = FALSE]
    <2>1. /\ a \in AuthStates /\ a.status = "loading" /\ a.busy = FALSE /\ a.epoch = auth.epoch
          /\ a.private = auth.private /\ a.boot = auth.boot /\ a.timer = auth.timer
          /\ a.operation = auth.operation
      BY <1>1 DEF AuthStates
    <2>2. auth.status = "access-error" /\ Begin(o, "bootstrap", a)
      BY <1>3 DEF Retry
    <2> HIDE DEF a
    <2>3. Authorized(a) /\ ~a.timer
      BY <1>1, <2>1, <2>2 DEF Authorized, Fits
    <2> QED BY <1>2, <2>1, <2>2, <2>3, BeginKeeps
  <1>4. ASSUME NEW kind \in Busies, kind \in {"login", "setup", "logout", "password"},
               Begin(o, kind, [auth EXCEPT !.busy = TRUE])
               \/ Begin(o, kind, [auth EXCEPT !.busy = TRUE, !.timer = FALSE]),
               kind \in {"login", "setup"} => auth.status = "unauthenticated",
               kind \notin {"login", "setup"} =>
                   Begin(o, kind, [auth EXCEPT !.busy = TRUE, !.timer = FALSE])
        PROVE AuthorityIsShown'
    <2>1. PICK a \in AuthStates :
               /\ a.status = auth.status /\ a.busy = TRUE /\ a.epoch = auth.epoch
               /\ a.private = auth.private /\ a.boot = auth.boot
               /\ a.timer \in {auth.timer, FALSE}
                /\ (kind \notin {"login", "setup"} => a.timer = FALSE)
               /\ Begin(o, kind, a)
      <3>1. CASE kind \in {"login", "setup"} /\ Begin(o, kind, [auth EXCEPT !.busy = TRUE])
        <4> DEFINE a == [auth EXCEPT !.busy = TRUE]
        <4>1. a \in AuthStates /\ a.status = auth.status /\ a.busy = TRUE /\ a.epoch = auth.epoch
              /\ a.private = auth.private /\ a.boot = auth.boot /\ a.timer = auth.timer
          BY <1>1 DEF AuthStates
        <4>2. Begin(o, kind, a)
          BY <3>1
        <4> HIDE DEF a
        <4> QED BY <3>1, <4>1, <4>2
      <3>2. CASE Begin(o, kind, [auth EXCEPT !.busy = TRUE, !.timer = FALSE])
        <4> DEFINE a == [auth EXCEPT !.busy = TRUE, !.timer = FALSE]
        <4>1. a \in AuthStates /\ a.status = auth.status /\ a.busy = TRUE /\ a.epoch = auth.epoch
              /\ a.private = auth.private /\ a.boot = auth.boot /\ a.timer = FALSE
          BY <1>1 DEF AuthStates
        <4>2. Begin(o, kind, a)
          BY <3>2
        <4> HIDE DEF a
        <4> QED BY <4>1, <4>2
      <3> QED BY <1>4, <3>1, <3>2
    <2>2. Authorized(a) /\ ~a.timer
      BY <1>1, <1>4, <2>1 DEF Authorized, Fits
    <2>3. kind \in Kinds /\ kind # "bootstrap" /\ kind # "recover"
      BY <1>2, <1>4
    <2> QED BY <1>4, <2>1, <2>2, <2>3, BeginKeeps
  <1>5. ASSUME RefreshTimer(o) PROVE AuthorityIsShown'
    <2> DEFINE a == [auth EXCEPT !.timer = FALSE]
    <2>1. /\ a \in AuthStates /\ a.status = auth.status /\ a.busy = auth.busy
          /\ a.epoch = auth.epoch
          /\ a.private = auth.private /\ a.boot = auth.boot /\ a.timer = FALSE
      BY <1>1 DEF AuthStates
    <2>2. auth.timer /\ Begin(o, "refresh", a)
      BY <1>5 DEF RefreshTimer
    <2> HIDE DEF a
    <2>3. Authorized(a) /\ ~a.busy
      BY <1>1, <2>1, <2>2 DEF Authorized, Fits
    <2> QED BY <1>2, <2>1, <2>2, <2>3, BeginKeeps
  <1>6. CASE Login(o)
    BY <1>2, <1>4, <1>6 DEF Login
  <1>7. CASE Setup(o)
    BY <1>2, <1>4, <1>7 DEF Setup
  <1>8. CASE Logout(o)
    BY <1>2, <1>4, <1>8 DEF Logout
  <1>9. CASE ChangePassword(o)
    BY <1>2, <1>4, <1>9 DEF ChangePassword
  <1> QED BY <1>3, <1>5, <1>6, <1>7, <1>8, <1>9

\* publish enters an epoch with a session and leaves it without one.
LEMMA Publishes ==
    ASSUME mode \in {"local", "upstream"}, None \notin Bootstraps,
           NEW a \in AuthStates, Authorized(a), NEW next \in Bootstraps, NEW q, q = Publish(a, next)
    PROVE  /\ q \in AuthStates /\ Authorized(q) /\ q.operation = a.operation /\ q.busy = a.busy
           /\ q.timer <=> (mode = "upstream" /\ q.boot = "session")
           /\ q.epoch \in {a.epoch, a.epoch + 1}
  <1> DEFINE p == Publish(a, next)
  <1>0. a.epoch \in Nat
    BY DEF AuthStates
  <1>1. CASE a.boot = "session" /\ next = "session"
    <2>1. p = [a EXCEPT !.boot = next, !.status = "authenticated", !.timer = mode = "upstream"]
      BY <1>1 DEF Publish, AuthStates
    <2>2. /\ p \in AuthStates /\ p.operation = a.operation /\ p.busy = a.busy
          /\ p.timer = (mode = "upstream") /\ p.boot = "session" /\ p.epoch = a.epoch
          /\ p.private = a.private /\ p.status = "authenticated"
      BY <1>1, <2>1 DEF AuthStates
    <2> HIDE DEF p
    <2>3. Authorized(p)
      BY <1>1, <2>2 DEF Authorized
    <2> QED BY <2>2, <2>3 DEF p
  <1>2. CASE a.boot # "session" /\ next = "session"
    <2>1. p = [a EXCEPT !.boot = next, !.status = "authenticated", !.timer = mode = "upstream",
                        !.epoch = a.epoch + 1, !.private = a.epoch + 1]
      BY <1>2 DEF Publish, AuthStates
    <2> DEFINE e == a.epoch + 1
               t == (mode = "upstream")
    <2>a. e \in Nat /\ t \in BOOLEAN
      BY <1>0
    <2>b. p = [a EXCEPT !.boot = next, !.status = "authenticated", !.timer = t,
                        !.epoch = e, !.private = e]
      BY <2>1
    <2> HIDE DEF p, e, t
    <2>c. /\ p \in AuthStates /\ p.operation = a.operation /\ p.busy = a.busy
          /\ p.timer = t /\ p.boot = "session" /\ p.epoch = e
          /\ p.private = e /\ p.status = "authenticated"
      BY <1>2, <2>a, <2>b DEF AuthStates
    <2>2. /\ p \in AuthStates /\ p.operation = a.operation /\ p.busy = a.busy
          /\ p.timer = (mode = "upstream") /\ p.boot = "session" /\ p.epoch = a.epoch + 1
          /\ p.private = a.epoch + 1 /\ p.status = "authenticated"
      BY <2>c DEF e, t
    <2>3. Authorized(p)
      BY <1>0, <1>2, <2>2 DEF Authorized
    <2> QED BY <2>2, <2>3 DEF p
  <1>3. CASE next # "session"
    <2>1. p = [a EXCEPT !.boot = next, !.status = SignedOut, !.timer = FALSE, !.private = 0]
      BY <1>3 DEF Publish, AuthStates
    <2>a. SignedOut \in {"unauthenticated", "access-error"}
      BY DEF SignedOut
    <2> HIDE DEF p
    <2>2. /\ p \in AuthStates /\ p.operation = a.operation /\ p.busy = a.busy
          /\ p.timer = FALSE /\ p.boot = next /\ p.epoch = a.epoch
          /\ p.private = 0 /\ p.status \in {"unauthenticated", "access-error"}
      BY <1>3, <2>1, <2>a DEF AuthStates
    <2>3. Authorized(p)
      BY <1>3, <2>2 DEF Authorized
    <2> QED BY <1>3, <2>2, <2>3 DEF p
  <1> QED BY <1>1, <1>2, <1>3

\* The end of an epoch leaves no private state.
LEMMA EpochEnds ==
    ASSUME mode \in {"local", "upstream"}, "session" # None,
           NEW a \in AuthStates, Authorized(a), NEW q, q = EndEpoch(a)
    PROVE  /\ q \in AuthStates /\ Authorized(q) /\ q.operation = None /\ q.busy = FALSE
           /\ q.timer = FALSE /\ q.boot = None /\ q.epoch = a.epoch
  <1> DEFINE p == EndEpoch(a)
  <1>1. /\ p \in AuthStates /\ p.operation = None /\ p.busy = FALSE /\ p.timer = FALSE
        /\ p.boot = None /\ p.epoch = a.epoch /\ p.private = 0
        /\ p.status \in {"unauthenticated", "access-error"}
    BY DEF EndEpoch, AuthStates, SignedOut
  <1> HIDE DEF p
  <1>2. Authorized(p)
    BY <1>1 DEF Authorized
  <1> QED BY <1>1, <1>2 DEF p

\* The newest operation ends and its answer is shown.
LEMMA SettledKeeps ==
    ASSUME NoneAssumption, MaxEpochs \in Nat, AuthorityIsShown, NEW o \in Ops,
           NEW p \in AuthStates, Authorized(p), p.operation = None, p.busy = FALSE,
           p.timer <=> (mode = "upstream" /\ p.boot = "session"),
           p.epoch \in {auth.epoch, auth.epoch + 1}, p.epoch <= MaxEpochs,
           auth' = p, requests' = requests \cup Load(p),
           flight' = [flight EXCEPT ![o] = None],
           mode' = mode, loaded' = loaded, hidden' = hidden, ~hidden
    PROVE  AuthorityIsShown'
  <1>1. /\ mode \in {"local", "upstream"} /\ hidden \in BOOLEAN
        /\ flight \in [Ops -> Kinds \cup {None}]
        /\ auth \in AuthStates /\ AboutEpochs(auth, requests, loaded)
    BY ShownParts
  <1>2. flight' \in [Ops -> Kinds \cup {None}]
    BY <1>1
  <1>3. Fits(auth', flight')
    BY DEF Fits
  <1>4. AboutEpochs(auth', requests', loaded')
    <2>1. auth.epoch \in Nat /\ p.epoch \in Nat
      BY <1>1 DEF AuthStates
    <2>2. Load(p) \subseteq [epoch : 1 .. p.epoch, kind : {"config", "other"}]
      BY <2>1 DEF Load
    <2>3. requests \subseteq [epoch : 1 .. p.epoch, kind : {"config", "other"}]
      BY <1>1, <2>1 DEF AboutEpochs
    <2>4. loaded \in [epoch : 0 .. p.epoch, ok : BOOLEAN]
      BY <1>1, <2>1 DEF AboutEpochs
    <2> QED BY <2>2, <2>3, <2>4 DEF AboutEpochs
  <1> QED BY <1>1, <1>2, <1>3, <1>4, ShownAgain DEF Away

\* A demand to sign in while an operation is in flight
LEMMA RequiredAgain ==
    ASSUME NoneAssumption, mode \in {"local", "upstream"}, auth \in AuthStates, Authorized(auth),
           Fits(auth, flight), auth.operation # None, NEW q, q = AuthenticationRequired(auth)
    PROVE  /\ q \in AuthStates /\ Authorized(q)
           /\ \/ q.operation = auth.operation /\ q.busy = auth.busy
              \/ q.operation = None /\ q.busy = FALSE
           /\ q.timer = FALSE /\ q.boot = None /\ q.epoch = auth.epoch
  <1>1. "session" # None
    BY DEF NoneAssumption, Bootstraps
  <1>2. CASE auth.boot = None
    <2>1. q = auth /\ auth.timer = FALSE
      BY <1>2 DEF AuthenticationRequired, Fits, AuthStates
    <2> QED BY <1>2, <2>1
  <1>3. CASE auth.boot # None
    <2>1. q = EndEpoch(auth)
      BY <1>3 DEF AuthenticationRequired
    <2> QED BY <1>1, <2>1, EpochEnds
  <1> QED BY <1>2, <1>3

\* What the answer of the newest operation may make of the state
Settled(q) ==
    /\ q \in AuthStates /\ Authorized(q)
    /\ \/ q.operation = auth.operation /\ q.busy = auth.busy
       \/ q.operation = None /\ q.busy = FALSE
    /\ q.timer <=> (mode = "upstream" /\ q.boot = "session")
    /\ q.epoch \in {auth.epoch, auth.epoch + 1}

\* Each answer of each operation settles it.
LEMMA AnswersSettle ==
    ASSUME NoneAssumption, mode \in {"local", "upstream"}, auth \in AuthStates, Authorized(auth),
           Fits(auth, flight), NEW o \in Ops, auth.operation = o,
           NEW kind \in Kinds, flight[o] = kind,
           NEW answer \in Answers(kind), NEW q, q = After(kind, answer)
    PROVE  Settled(q)
  <1>1. None \notin Bootstraps /\ "session" # None /\ "session" \in Bootstraps /\ o # None
    BY DEF NoneAssumption, Bootstraps
  <1>2. auth.timer = FALSE
    BY <1>1 DEF Fits, AuthStates
  <1>3. ASSUME NEW next \in Bootstraps, q = Publish(auth, next) PROVE Settled(q)
    BY <1>1, <1>3, Publishes DEF Settled
  <1>4. ASSUME q = AuthenticationRequired(auth) PROVE Settled(q)
    BY <1>1, <1>4, RequiredAgain DEF Settled
  <1>5. ASSUME q = auth, auth.boot # "session" PROVE Settled(q)
    BY <1>2, <1>5 DEF Settled
  <1>6. CASE kind = "bootstrap"
    <2>1. answer \in Bootstraps \cup {"failed"} /\ q = BootstrapAnswered(answer)
      BY <1>6 DEF Answers, After, Kinds, Busies
    <2>2. CASE answer = "failed"
      <3>1. auth.status = "loading"
        BY <1>1, <1>6 DEF Fits
      <3>2. auth.private = 0
        BY <3>1 DEF Authorized
      <3>3. q = [auth EXCEPT !.boot = None, !.status = "access-error"]
        BY <2>1, <2>2 DEF BootstrapAnswered
      <3>4. /\ q \in AuthStates /\ q.operation = auth.operation /\ q.busy = auth.busy
            /\ q.timer = auth.timer /\ q.boot = None /\ q.epoch = auth.epoch
            /\ q.private = auth.private /\ q.status = "access-error"
        BY <3>3 DEF AuthStates
      <3> QED BY <1>1, <1>2, <3>2, <3>4 DEF Settled, Authorized
    <2>3. CASE answer \in Bootstraps /\ answer # "failed"
      BY <1>3, <2>1, <2>3 DEF BootstrapAnswered
    <2> QED BY <2>1, <2>2, <2>3
  <1>7. CASE kind \in {"login", "setup", "recover"}
    <2>1. auth.status = "unauthenticated"
      BY <1>1, <1>7 DEF Fits
    <2>2. auth.boot # "session"
      BY <2>1 DEF Authorized
    <2>3. answer \in Bootstraps \cup {"failed", "refused"}
      BY <1>7 DEF Answers, Kinds, Busies, Bootstraps
    <2>4. q = auth \/ (answer \in Bootstraps /\ q = Publish(auth, answer))
      BY <1>7, <2>3 DEF After, LoginAnswered, SetupAnswered, Answers, Bootstraps
    <2> QED BY <1>3, <1>5, <2>2, <2>4
  <1>8. CASE kind \in {"logout", "password"}
    <2>1. q = Kept(auth) \/ q = AuthenticationRequired(auth)
      BY <1>8 DEF After, EndAnswered
    <2>2. CASE q = Kept(auth)
      <3>1. q = [auth EXCEPT !.timer = (mode = "upstream" /\ auth.boot = "session")]
        BY <2>2 DEF Kept
      <3>2. /\ q \in AuthStates /\ q.operation = auth.operation /\ q.busy = auth.busy
            /\ q.timer = (mode = "upstream" /\ auth.boot = "session")
            /\ q.boot = auth.boot /\ q.epoch = auth.epoch
            /\ q.private = auth.private /\ q.status = auth.status
        BY <3>1 DEF AuthStates
      <3> QED BY <3>2 DEF Settled, Authorized
    <2> QED BY <1>4, <2>1, <2>2
  <1>9. CASE kind = "refresh"
    <2>1. q = Publish(auth, "session") \/ q = AuthenticationRequired(auth)
      BY <1>9 DEF After, RefreshAnswered
    <2> QED BY <1>1, <1>3, <1>4, <2>1
  <1> QED BY <1>6, <1>7, <1>8, <1>9 DEF Kinds, Busies

\* An answer arrives, to the newest operation or to a replaced one.
LEMMA AnswerKeeps ==
    ASSUME NoneAssumption, MaxEpochs \in Nat, AuthorityIsShown, NEW o \in Ops, NEW answer,
           Answer(o, answer)
    PROVE  AuthorityIsShown'
  <1>1. /\ mode \in {"local", "upstream"} /\ hidden \in BOOLEAN
        /\ flight \in [Ops -> Kinds \cup {None}]
        /\ auth \in AuthStates /\ Authorized(auth) /\ Fits(auth, flight)
        /\ AboutEpochs(auth, requests, loaded) /\ Away(hidden, auth)
    BY ShownParts
  <1>2. o # None
    BY DEF NoneAssumption
  <1>3. /\ flight[o] \in Kinds /\ answer \in Answers(flight[o])
        /\ flight' = [flight EXCEPT ![o] = None]
        /\ mode' = mode /\ loaded' = loaded /\ hidden' = hidden
        /\ auth'.epoch <= MaxEpochs /\ requests' = requests \cup Load(auth')
        /\ auth' = Finish(IF IsCurrentOperation(o) THEN After(flight[o], answer) ELSE auth, o)
    BY <1>1 DEF Answer
  <1>4. CASE auth.operation # o
    <2>1. auth' = auth
      BY <1>3, <1>4 DEF IsCurrentOperation, Current, Finish
    <2>2. requests' = requests
      BY <1>3, <2>1 DEF Load
    <2>3. flight' \in [Ops -> Kinds \cup {None}]
      BY <1>1, <1>3
    <2>4. auth.operation # None => flight'[auth.operation] = flight[auth.operation]
      BY <1>1, <1>3, <1>4 DEF AuthStates
    <2>5. Fits(auth', flight')
      BY <1>1, <2>1, <2>4 DEF Fits
    <2> QED BY <1>1, <1>3, <2>1, <2>2, <2>3, <2>5, ShownAgain
  <1>5. CASE auth.operation = o
    <2> DEFINE q == After(flight[o], answer)
    <2>0. ~hidden
      BY <1>1, <1>2, <1>5 DEF Away
    <2>1. Settled(q)
      BY <1>1, <1>3, <1>5, AnswersSettle
    <2>2. auth' = Finish(q, o)
      BY <1>3, <1>5 DEF IsCurrentOperation, Current
    <2> HIDE DEF q
    <2>3. CASE q.operation = None
      <3>1. auth' = q /\ q.busy = FALSE
        BY <1>2, <1>5, <2>1, <2>2, <2>3 DEF Finish, Settled
      <3> QED BY <1>3, <2>0, <2>1, <2>3, <3>1, SettledKeeps DEF Settled
    <2>4. CASE q.operation = o /\ q.busy = auth.busy
      <3> DEFINE busy == IF flight[o] \in Busies THEN FALSE ELSE q.busy
      <3>1. auth' = [q EXCEPT !.operation = None, !.busy = busy]
        BY <2>2, <2>4 DEF Finish
      <3>2. busy = FALSE
        BY <1>1, <1>2, <1>5, <2>4 DEF Fits, AuthStates
      <3>3. /\ auth' \in AuthStates /\ auth'.operation = None /\ auth'.busy = FALSE
            /\ auth'.timer = q.timer /\ auth'.boot = q.boot /\ auth'.epoch = q.epoch
            /\ auth'.private = q.private /\ auth'.status = q.status
        BY <2>1, <3>1, <3>2 DEF Settled, AuthStates
      <3>4. Authorized(auth')
        BY <2>1, <3>3 DEF Settled, Authorized
      <3> QED BY <1>3, <2>0, <2>1, <3>3, <3>4, SettledKeeps DEF Settled
    <2> QED BY <1>5, <2>1, <2>3, <2>4 DEF Settled
  <1> QED BY <1>4, <1>5

\* A setup whose outcome is unknown goes on with a recovery.
LEMMA SetupUnclearKeeps ==
    ASSUME NoneAssumption, MaxEpochs \in Nat, AuthorityIsShown, NEW o \in Ops, SetupUnclear(o)
    PROVE  AuthorityIsShown'
  <1>1. /\ mode \in {"local", "upstream"} /\ hidden \in BOOLEAN
        /\ flight \in [Ops -> Kinds \cup {None}]
        /\ auth \in AuthStates /\ Authorized(auth) /\ Fits(auth, flight)
        /\ AboutEpochs(auth, requests, loaded) /\ Away(hidden, auth)
    BY ShownParts
  <1>2. /\ o # None /\ "recover" # None /\ "recover" \in Kinds /\ "recover" \in Busies
        /\ "setup" \in Busies
    BY DEF NoneAssumption, Kinds, Busies
  <1>3. /\ flight[o] = "setup" /\ mode' = mode /\ requests' = requests /\ loaded' = loaded
        /\ hidden' = hidden
    BY DEF SetupUnclear
  <1>4. CASE auth.operation = o
    <2>1. flight' = [flight EXCEPT ![o] = "recover"] /\ auth' = auth
      BY <1>4 DEF SetupUnclear, IsCurrentOperation, Current
    <2>2. flight' \in [Ops -> Kinds \cup {None}] /\ flight'[o] = "recover"
      BY <1>1, <1>2, <2>1
    <2>3. Fits(auth', flight')
      BY <1>1, <1>2, <1>3, <1>4, <2>1, <2>2 DEF Fits
    <2> QED BY <1>1, <1>3, <2>1, <2>2, <2>3, ShownAgain
  <1>5. CASE auth.operation # o
    <2>1. flight' = [flight EXCEPT ![o] = None] /\ auth' = auth
      BY <1>5 DEF SetupUnclear, IsCurrentOperation, Current, Finish
    <2>2. flight' \in [Ops -> Kinds \cup {None}]
      BY <1>1, <2>1
    <2>3. auth.operation # None => flight'[auth.operation] = flight[auth.operation]
      BY <1>1, <1>5, <2>1 DEF AuthStates
    <2>4. Fits(auth', flight')
      BY <1>1, <2>1, <2>3 DEF Fits
    <2> QED BY <1>1, <1>3, <2>1, <2>2, <2>4, ShownAgain
  <1> QED BY <1>4, <1>5

\* A private request is answered, in its epoch or after it.
LEMMA PrivateAnswerKeeps ==
    ASSUME NoneAssumption, MaxEpochs \in Nat, AuthorityIsShown, NEW r \in requests, NEW answer,
           PrivateAnswer(r, answer)
    PROVE  AuthorityIsShown'
  <1>1. /\ mode \in {"local", "upstream"} /\ hidden \in BOOLEAN
        /\ flight \in [Ops -> Kinds \cup {None}]
        /\ auth \in AuthStates /\ Authorized(auth) /\ Fits(auth, flight)
        /\ AboutEpochs(auth, requests, loaded) /\ Away(hidden, auth)
    BY ShownParts
  <1>2. /\ requests' = requests \ {r} /\ mode' = mode /\ flight' = flight /\ hidden' = hidden
        /\ auth' \in {auth, AuthenticationRequired(auth)}
        /\ loaded' \in {loaded, [epoch |-> r.epoch, ok |-> answer = "ok"]}
    BY DEF PrivateAnswer
  <1>3. /\ auth'.epoch = auth.epoch /\ auth' \in AuthStates /\ Authorized(auth')
        /\ Fits(auth', flight') /\ Away(hidden', auth')
    <2>1. CASE auth' = auth
      BY <1>1, <1>2, <2>1 DEF Fits, Away
    <2>2. CASE auth' = EndEpoch(auth)
      <3>1. "session" # None
        BY DEF NoneAssumption, Bootstraps
      <3>2. /\ auth' \in AuthStates /\ Authorized(auth') /\ auth'.operation = None
            /\ auth'.busy = FALSE /\ auth'.timer = FALSE /\ auth'.boot = None
            /\ auth'.epoch = auth.epoch
        BY <1>1, <2>2, <3>1, EpochEnds
      <3> QED BY <3>1, <3>2 DEF Fits, Away
    <2> QED BY <1>2, <2>1, <2>2 DEF AuthenticationRequired
  <1>4. AboutEpochs(auth', requests', loaded')
    <2>1. [epoch |-> r.epoch, ok |-> answer = "ok"] \in [epoch : 0 .. auth.epoch, ok : BOOLEAN]
      <3>1. r.epoch \in 1 .. auth.epoch /\ auth.epoch \in Nat
        BY <1>1 DEF AboutEpochs, AuthStates
      <3>2. r.epoch \in 0 .. auth.epoch
        BY <3>1
      <3> QED BY <3>2
    <2> QED BY <1>1, <1>2, <1>3, <2>1 DEF AboutEpochs
  <1> QED BY <1>1, <1>2, <1>3, <1>4, ShownAgain

\* The workspace sends a private request.
LEMMA FetchKeeps ==
    ASSUME NoneAssumption, MaxEpochs \in Nat, AuthorityIsShown, Fetch
    PROVE  AuthorityIsShown'
  <1>1. /\ mode \in {"local", "upstream"} /\ hidden \in BOOLEAN
        /\ flight \in [Ops -> Kinds \cup {None}]
        /\ auth \in AuthStates /\ Authorized(auth) /\ Fits(auth, flight)
        /\ AboutEpochs(auth, requests, loaded) /\ Away(hidden, auth)
    BY ShownParts
  <1>2. /\ requests' = requests \cup {[epoch |-> auth.private, kind |-> "other"]}
        /\ mode' = mode /\ auth' = auth /\ flight' = flight /\ loaded' = loaded
        /\ hidden' = hidden /\ auth.private # 0
    BY DEF Fetch
  <1>3. auth.private \in 1 .. auth.epoch
    BY <1>1, <1>2 DEF Authorized, AuthStates
  <1>4. AboutEpochs(auth', requests', loaded')
    BY <1>1, <1>2, <1>3 DEF AboutEpochs
  <1>5. Fits(auth', flight')
    BY <1>1, <1>2 DEF Fits
  <1> QED BY <1>1, <1>2, <1>4, <1>5, ShownAgain

\* The page is put away.
LEMMA PageHideKeeps ==
    ASSUME NoneAssumption, MaxEpochs \in Nat, AuthorityIsShown, PageHide
    PROVE  AuthorityIsShown'
  <1>1. /\ mode \in {"local", "upstream"} /\ flight \in [Ops -> Kinds \cup {None}]
        /\ auth \in AuthStates /\ AboutEpochs(auth, requests, loaded)
    BY ShownParts
  <1>2. /\ auth' = PutAway(auth) /\ hidden' = TRUE /\ mode' = mode /\ flight' = flight
        /\ requests' = requests /\ loaded' = loaded
    BY DEF PageHide
  <1>3. /\ auth' \in AuthStates /\ auth'.operation = None /\ auth'.busy = FALSE
        /\ auth'.timer = FALSE /\ auth'.boot = None /\ auth'.epoch = auth.epoch
        /\ auth'.private = 0 /\ auth'.status = "loading"
    BY <1>1, <1>2 DEF PutAway, AuthStates
  <1>4. "session" # None
    BY DEF NoneAssumption, Bootstraps
  <1>5. Authorized(auth') /\ Fits(auth', flight') /\ Away(hidden', auth')
    BY <1>3, <1>4 DEF Authorized, Fits, Away
  <1>6. AboutEpochs(auth', requests', loaded')
    BY <1>1, <1>2, <1>3 DEF AboutEpochs
  <1> QED BY <1>1, <1>2, <1>3, <1>5, <1>6, ShownAgain

\* The page is shown again and asks for the session anew.
LEMMA PageShowKeeps ==
    ASSUME NoneAssumption, MaxEpochs \in Nat, AuthorityIsShown, NEW o \in Ops, PageShow(o)
    PROVE  AuthorityIsShown'
  <1>1. /\ mode \in {"local", "upstream"} /\ flight \in [Ops -> Kinds \cup {None}]
        /\ auth \in AuthStates /\ Authorized(auth) /\ AboutEpochs(auth, requests, loaded)
        /\ Fits(auth, flight) /\ Away(hidden, auth)
    BY ShownParts
  <1>2. /\ hidden /\ hidden' = FALSE /\ flight' = [flight EXCEPT ![o] = "bootstrap"]
        /\ auth' = [auth EXCEPT !.operation = o, !.status = "loading", !.busy = FALSE]
        /\ mode' = mode /\ requests' = requests /\ loaded' = loaded
    BY DEF PageShow
  <1>3. /\ o # None /\ "bootstrap" # None /\ "bootstrap" \in Kinds \ Busies
        /\ "bootstrap" \notin {"login", "setup", "recover"}
    BY DEF NoneAssumption, Kinds, Busies
  <1>4. flight' \in [Ops -> Kinds \cup {None}] /\ flight'[o] = "bootstrap"
    BY <1>1, <1>2, <1>3
  <1>5. /\ auth' \in AuthStates /\ auth'.operation = o /\ auth'.busy = FALSE
        /\ auth'.timer = auth.timer /\ auth'.boot = auth.boot /\ auth'.epoch = auth.epoch
        /\ auth'.private = auth.private /\ auth'.status = "loading"
    BY <1>1, <1>2 DEF AuthStates
  <1>6. auth.boot # "session" /\ auth.timer = FALSE /\ auth.private = 0
    BY <1>1, <1>2 DEF Away, Fits, Authorized, AuthStates
  <1>7. Authorized(auth') /\ Fits(auth', flight') /\ Away(hidden', auth')
    BY <1>2, <1>3, <1>4, <1>5, <1>6 DEF Authorized, Fits, Away
  <1>8. AboutEpochs(auth', requests', loaded')
    BY <1>1, <1>2, <1>5 DEF AboutEpochs
  <1> QED BY <1>1, <1>2, <1>4, <1>5, <1>7, <1>8, ShownAgain

\* The hook starts with a bootstrap.
LEMMA ClientStarts ==
    ASSUME NoneAssumption, MaxEpochs \in Nat, ClientInit
    PROVE  AuthorityIsShown
  <1>1. PICK o \in Ops :
           /\ flight = [p \in Ops |-> IF p = o THEN "bootstrap" ELSE None]
           /\ auth = [status |-> "loading", boot |-> None, busy |-> FALSE, epoch |-> 0,
                      operation |-> o, private |-> 0, timer |-> FALSE]
    BY DEF ClientInit
  <1>2. /\ mode \in {"local", "upstream"} /\ requests = {} /\ hidden = FALSE
        /\ loaded = [epoch |-> 0, ok |-> FALSE]
    BY DEF ClientInit
  <1>3. /\ "bootstrap" \in Kinds \ Busies /\ "bootstrap" # None /\ o # None
        /\ "session" # None /\ "bootstrap" \notin {"login", "setup", "recover"}
    BY DEF NoneAssumption, Kinds, Busies, Bootstraps
  <1>4. flight \in [Ops -> Kinds \cup {None}] /\ flight[o] = "bootstrap"
    BY <1>1, <1>3
  <1>5. ClientTypeOK
    <2>1. /\ auth.operation = o /\ auth.epoch = 0
          /\ auth \in [status : {"loading", "unauthenticated", "authenticated", "access-error"},
                      boot : Bootstraps \cup {None}, busy : BOOLEAN, epoch : 0..MaxEpochs,
                      operation : Ops \cup {None}, private : 0..MaxEpochs, timer : BOOLEAN]
      BY <1>1
    <2>2. loaded \in [epoch : 0 .. auth.epoch, ok : BOOLEAN]
      BY <1>2, <2>1
    <2> QED BY <1>2, <1>3, <1>4, <2>1, <2>2 DEF ClientTypeOK
  <1>6. WorkspaceIsAuthorized /\ RefreshIsScheduled /\ HiddenIsSignedOut
    BY <1>1, <1>2, <1>3 DEF WorkspaceIsAuthorized, RefreshIsScheduled, HiddenIsSignedOut,
           Authenticated
  <1>7. BusyIsExplained /\ OperationFitsPage
    BY <1>1, <1>3, <1>4 DEF BusyIsExplained, OperationFitsPage, Authenticated
  <1> QED BY <1>5, <1>6, <1>7 DEF AuthorityIsShown

\* Theorem: the workspace is shown exactly while the last bootstrap that counts
\* reported a session; a busy form belongs to an operation in flight that fits the page; in
\* upstream mode a refresh is always to come; and a page that is put away shows nothing
\* private (useAuth.ts).
THEOREM AuthorityStaysShown ==
    ASSUME NoneAssumption, MaxEpochsAssumption
    PROVE  ClientSpec => []AuthorityIsShown
  <1>1. MaxEpochs \in Nat
    BY DEF MaxEpochsAssumption
  <1>2. ClientInit => AuthorityIsShown
    BY <1>1, ClientStarts
  <1>3. ASSUME AuthorityIsShown, [ClientNext]_clientVars PROVE AuthorityIsShown'
    <2>1. CASE UNCHANGED clientVars
      BY <1>3, <2>1 DEF clientVars, AuthorityIsShown, ClientTypeOK, WorkspaceIsAuthorized,
         BusyIsExplained, RefreshIsScheduled, OperationFitsPage, HiddenIsSignedOut, Authenticated
    <2>2. ASSUME NEW o \in Ops,
                 \/ Retry(o) \/ Login(o) \/ Setup(o) \/ Logout(o) \/ ChangePassword(o)
                 \/ RefreshTimer(o) \/ PageShow(o)
                 \/ flight[o] # None /\ AnyAnswer(o)
          PROVE  AuthorityIsShown'
      BY <1>1, <1>3, <2>2, OperationsBegin, PageShowKeeps, SetupUnclearKeeps, AnswerKeeps
         DEF AnyAnswer
    <2>3. ASSUME NEW r \in requests, AnyPrivate(r) PROVE AuthorityIsShown'
      BY <1>1, <1>3, <2>3, PrivateAnswerKeeps DEF AnyPrivate
    <2> QED BY <1>1, <1>3, <2>1, <2>2, <2>3, FetchKeeps, PageHideKeeps DEF ClientNext
  <1> QED BY <1>2, <1>3, PTL DEF ClientSpec

\* The answer to a replaced operation changes nothing.
LEMMA NewestAnswerOnly ==
    ASSUME flight \in [Ops -> Kinds \cup {None}], None \notin Kinds, ClientNext, NEW o \in Ops,
           auth.operation # o, flight[o] # None, flight'[o] = None
    PROVE  auth' = auth /\ requests' = requests
  <1>1. ASSUME NEW p \in Ops, NEW kind \in Kinds, flight' = [flight EXCEPT ![p] = kind]
        PROVE  FALSE
    BY <1>1
  <1>2. /\ "bootstrap" \in Kinds /\ "refresh" \in Kinds /\ "login" \in Kinds
        /\ "setup" \in Kinds /\ "logout" \in Kinds /\ "password" \in Kinds
        /\ "recover" \in Kinds
    BY DEF Kinds, Busies
  <1>3. ASSUME NEW p \in Ops,
               \/ Retry(p) \/ Login(p) \/ Setup(p) \/ Logout(p) \/ ChangePassword(p)
               \/ RefreshTimer(p) \/ PageShow(p)
        PROVE  FALSE
    BY <1>1, <1>2, <1>3
       DEF Retry, Login, Setup, Logout, ChangePassword, RefreshTimer, PageShow, Begin
  <1>4. ASSUME NEW p \in Ops, NEW answer, Answer(p, answer)
        PROVE  auth' = auth /\ requests' = requests
    <2>1. flight' = [flight EXCEPT ![p] = None]
      BY <1>4 DEF Answer
    <2>2. p = o
      BY <2>1
    <2>3. auth' = auth
      BY <1>4, <2>2 DEF Answer, IsCurrentOperation, Current, Finish
    <2> QED BY <1>4, <2>3 DEF Answer, Load
  <1>5. ASSUME NEW p \in Ops, SetupUnclear(p) PROVE auth' = auth /\ requests' = requests
    <2>1. flight' # [flight EXCEPT ![p] = "recover"]
      BY <1>1, <1>2
    <2>2. flight' = [flight EXCEPT ![p] = None] /\ auth' = Finish(auth, p)
      BY <1>5, <2>1 DEF SetupUnclear
    <2>3. p = o
      BY <2>2
    <2> QED BY <1>5, <2>2, <2>3 DEF SetupUnclear, Finish
  <1>6. ASSUME flight' = flight PROVE FALSE
    BY <1>6
  <1> QED BY <1>3, <1>4, <1>5, <1>6 DEF ClientNext, AnyAnswer, AnyPrivate, PrivateAnswer, Fetch,
      PageHide

\* The answer to a request of an older epoch changes nothing.
LEMMA OldEpochHasNoSay ==
    ASSUME ClientNext, NEW r \in requests \ requests', r.epoch # auth.private
    PROVE  auth' = auth /\ loaded' = loaded
  <1>1. ASSUME requests \subseteq requests' PROVE FALSE
    BY <1>1
  <1>2. ASSUME NEW p \in Ops,
               \/ Retry(p) \/ Login(p) \/ Setup(p) \/ Logout(p) \/ ChangePassword(p)
               \/ RefreshTimer(p) \/ PageShow(p) \/ SetupUnclear(p)
        PROVE  FALSE
    BY <1>1, <1>2 DEF Retry, Login, Setup, Logout, ChangePassword, RefreshTimer, PageShow, Begin,
       SetupUnclear
  <1>3. ASSUME NEW p \in Ops, NEW answer, Answer(p, answer) PROVE FALSE
    <2>1. PICK some : requests' = requests \cup some
      BY <1>3 DEF Answer
    <2> QED BY <1>1, <2>1
  <1>4. ASSUME NEW q \in requests, NEW answer, PrivateAnswer(q, answer)
        PROVE  auth' = auth /\ loaded' = loaded
    <2>1. q = r
      BY <1>4 DEF PrivateAnswer
    <2> QED BY <1>4, <2>1 DEF PrivateAnswer, OfThisEpoch
  <1>5. ASSUME Fetch \/ PageHide PROVE FALSE
    BY <1>1, <1>5 DEF Fetch, PageHide
  <1> QED BY <1>2, <1>3, <1>4, <1>5 DEF ClientNext, AnyAnswer, AnyPrivate

\* Theorem: neither the answer to an operation that a newer one has replaced nor
\* that to a private request of an older epoch changes what useAuth.ts shows, or makes it
\* send anything.
THEOREM SupersededStaysIgnored ==
    ASSUME NoneAssumption, MaxEpochsAssumption
    PROVE  ClientSpec => SupersededIsIgnored
  <1>1. None \notin Kinds
    BY DEF NoneAssumption
  <1>2. ASSUME AuthorityIsShown, [ClientNext]_clientVars
        PROVE  [ReplacedIsIgnored /\ OldEpochIsSilent]_clientVars
    <2>1. CASE UNCHANGED clientVars
      BY <2>1
    <2>2. CASE ClientNext
      <3>1. flight \in [Ops -> Kinds \cup {None}]
        BY <1>2 DEF AuthorityIsShown, ClientTypeOK
      <3>2. ReplacedIsIgnored
        BY <1>1, <2>2, <3>1, NewestAnswerOnly DEF ReplacedIsIgnored, Current
      <3>3. OldEpochIsSilent
        BY <2>2, OldEpochHasNoSay DEF OldEpochIsSilent
      <3> QED BY <3>2, <3>3
    <2> QED BY <1>2, <2>1, <2>2
  <1> QED BY <1>2, AuthorityStaysShown, PTL DEF ClientSpec, SupersededIsIgnored
-----------------------------------------------------------------------------
(***************************************************************************)
(* The administration service.  The gate, the rows and the errors are      *)
(* three predicates of their parts, so that a step is argued about with    *)
(* the parts it changes.                                                   *)
(***************************************************************************)
\* The states of a probe, and the probes of a table that run
Probes == Waiting \cup Running \cup Done \cup {"none"}
Runs(pr) == {i \in Ids : pr[i] \in Running}

\* The gate, as a predicate of its parts
GateIsSound(pr, slots, queue, late) ==
    /\ pr \in [Ids -> Probes] /\ queue \in Seq(Ids) /\ slots \in Nat /\ late \in Nat
    /\ slots = late + Cardinality(Runs(pr)) /\ slots <= Capacity
    /\ queue # <<>> => slots = Capacity
    /\ Once(queue) /\ \A i \in Ids : In(i, queue) <=> pr[i] \in Waiting

\* What rows no worker has taken
RowsAreFresh(list, pr, busy) ==
    /\ list \in Seq(Ids) /\ Once(list) /\ busy \in BOOLEAN
    /\ \A i \in Ids : In(i, list) => pr[i] = "none"
    /\ ~busy => list = <<>> /\ \A i \in Ids : pr[i] \notin Waiting \cup Running

\* The errors
ErrorsAreSound(map, last) ==
    /\ map \in [DOMAIN map -> [error : Failures, at : Nat]] /\ DOMAIN map \subseteq Ids
    /\ last \in [Ids -> Failures \cup {"ok", "none"}]
    /\ \A i \in DOMAIN map : last[i] = map[i].error
    /\ Cardinality(DOMAIN map) <= RowCapacity

\* A request leaves a chain, wherever it is.
LEMMA ChainLoses ==
    ASSUME NEW S, NEW q \in Seq(S), Once(q), NEW n \in DOMAIN q
    PROVE  /\ RemoveAt(q, n) \in Seq(S) /\ Once(RemoveAt(q, n))
           /\ \A x : In(x, RemoveAt(q, n)) <=> In(x, q) /\ x # q[n]
  <1> DEFINE a == SubSeq(q, 1, n - 1)
             b == SubSeq(q, n + 1, Len(q))
             z == RemoveAt(q, n)
  <1>1. /\ Len(q) \in Nat /\ n \in 1 .. Len(q) /\ DOMAIN q = 1 .. Len(q)
    OBVIOUS
  <1>2. /\ a \in Seq(S) /\ Len(a) = n - 1 /\ \A k \in 1 .. n - 1 : a[k] = q[k]
    BY <1>1, SubSeqProperties
  <1>3. /\ b \in Seq(S) /\ Len(b) = Len(q) - n /\ \A k \in 1 .. Len(q) - n : b[k] = q[k + n]
    BY <1>1, SubSeqProperties
  <1>4. /\ z \in Seq(S) /\ DOMAIN z = 1 .. Len(q) - 1
        /\ \A k \in 1 .. n - 1 : z[k] = q[k]
        /\ \A k \in n .. Len(q) - 1 : z[k] = q[k + 1]
    <2>1. z = a \o b
      BY DEF RemoveAt
    <2> HIDE DEF a, b, z
    <2>2. z \in Seq(S) /\ Len(z) = Len(a) + Len(b)
      BY <1>2, <1>3, <2>1, ConcatProperties
    <2>3. Len(z) = Len(q) - 1
      BY <1>1, <1>2, <1>3, <2>2
    <2>5. \A k \in 1 .. Len(a) + Len(b) :
             z[k] = IF k <= Len(a) THEN a[k] ELSE b[k - Len(a)]
      BY <1>2, <1>3, <2>1, ConcatProperties
    <2>4. ASSUME NEW k \in n .. Len(q) - 1 PROVE z[k] = q[k + 1]
      <3>1. k - (n - 1) \in 1 .. Len(q) - n /\ k - (n - 1) + n = k + 1
        BY <1>1
      <3>2. k \in 1 .. Len(a) + Len(b) /\ ~(k <= Len(a)) /\ k - Len(a) = k - (n - 1)
        BY <1>1, <1>2, <1>3
      <3> QED BY <1>3, <2>5, <3>1, <3>2
    <2> QED BY <1>1, <1>2, <1>3, <2>2, <2>3, <2>4, <2>5
  <1> HIDE DEF a, b, z
  <1>5. Once(z)
    <2> DEFINE at(k) == IF k < n THEN k ELSE k + 1
    <2>1. \A k \in DOMAIN z : at(k) \in DOMAIN q /\ z[k] = q[at(k)]
      BY <1>1, <1>4
    <2>2. \A k, l \in DOMAIN z : at(k) = at(l) => k = l
      BY <1>1, <1>4
    <2> HIDE DEF at
    <2> QED BY <2>1, <2>2 DEF Once
  <1>6. ASSUME NEW x PROVE In(x, z) <=> In(x, q) /\ x # q[n]
    <2>1. ASSUME In(x, z) PROVE In(x, q) /\ x # q[n]
      <3> PICK k \in DOMAIN z : z[k] = x
        BY <2>1 DEF In
      <3> QED BY <1>1, <1>4 DEF In, Once
    <2>2. ASSUME In(x, q), x # q[n] PROVE In(x, z)
      <3> PICK k \in DOMAIN q : q[k] = x
        BY <2>2 DEF In
      <3>1. k < n \/ k - 1 \in n .. Len(q) - 1
        BY <1>1, <2>2
      <3>2. k < n => z[k] = x /\ k \in DOMAIN z
        BY <1>1, <1>4
      <3>3. k - 1 \in n .. Len(q) - 1 => z[k - 1] = x /\ k - 1 \in DOMAIN z
        BY <1>1, <1>4
      <3> QED BY <3>1, <3>2, <3>3 DEF In
    <2> QED BY <2>1, <2>2
  <1> QED BY <1>4, <1>5, <1>6 DEF z

\* The invariant, taken apart and put together again
LEMMA AccountedParts ==
    ASSUME SlotsAreAccounted
    PROVE  /\ GateIsSound(probe, active, waiters, hung) /\ RowsAreFresh(rows, probe, building)
           /\ ErrorsAreSound(errors, outcome) /\ tabs \in Seq(Ids) /\ Once(tabs)
           /\ reads \in Nat /\ actions \in Nat
           /\ snapshotReader \in [Readers -> {"idle", "waiting"}]
  <1>1. \A i \in Ids : In(i, waiters) <=> probe[i] \in Waiting
    BY DEF SlotsAreAccounted, NobodyWaitsForAFreeSlot, ToSet, Of, In
  <1>2. Once(waiters) /\ Once(rows) /\ Once(tabs)
    BY DEF SlotsAreAccounted, NobodyWaitsForAFreeSlot, RowsAreTakenOnce, IsInjective, Once
  <1>3. GateIsSound(probe, active, waiters, hung)
    BY <1>1, <1>2 DEF SlotsAreAccounted, NobodyWaitsForAFreeSlot, AdminTypeOK, SlotsAddUp, Of,
       Runs, Probes, GateIsSound
  <1>4. RowsAreFresh(rows, probe, building)
    BY <1>2 DEF SlotsAreAccounted, RowsAreTakenOnce, AdminTypeOK, RowsAreFresh, In, Of
  <1>5. ErrorsAreSound(errors, outcome)
    BY DEF SlotsAreAccounted, AdminTypeOK, ErrorsAreOfTheLastAction, ErrorsAreSound
  <1> QED BY <1>2, <1>3, <1>4, <1>5 DEF SlotsAreAccounted, AdminTypeOK

\* The parts of the invariant, each about the new state, are the invariant.
LEMMA AccountedAgain ==
    ASSUME GateIsSound(probe', active', waiters', hung'), RowsAreFresh(rows', probe', building'),
           ErrorsAreSound(errors', outcome'), tabs' \in Seq(Ids), Once(tabs'), reads' \in Nat,
           actions' \in Nat, snapshotReader' \in [Readers -> {"idle", "waiting"}]
    PROVE  SlotsAreAccounted'
  <1>1. AdminTypeOK'
    BY DEF AdminTypeOK, GateIsSound, RowsAreFresh, ErrorsAreSound, Probes
  <1>2. SlotsAddUp'
    BY DEF SlotsAddUp, Of, GateIsSound, Runs
  <1>3. NobodyWaitsForAFreeSlot'
    <2>1. DOMAIN waiters' = 1 .. Len(waiters') /\ \A n \in DOMAIN waiters' : waiters'[n] \in Ids
      BY DEF GateIsSound
    <2>2. ToSet(waiters') = {i \in Ids : probe'[i] \in Waiting}
      BY <2>1 DEF GateIsSound, ToSet, In
    <2> QED BY <2>2 DEF NobodyWaitsForAFreeSlot, GateIsSound, Of, Once, IsInjective
  <1>4. RowsAreTakenOnce'
    <2>1. \A n \in DOMAIN rows' : rows'[n] \in Ids
      BY DEF RowsAreFresh
    <2> QED BY <2>1 DEF RowsAreTakenOnce, RowsAreFresh, Of, In, Once, IsInjective
  <1>5. ErrorsAreOfTheLastAction'
    BY DEF ErrorsAreOfTheLastAction, ErrorsAreSound
  <1> QED BY <1>1, <1>2, <1>3, <1>4, <1>5 DEF SlotsAreAccounted

\* A probe changes its state: what the table is then
LEMMA ProbeMoves ==
    ASSUME IdsAssumption, NEW pr \in [Ids -> Probes], NEW i \in Ids, NEW p \in Probes,
           NEW q, q = [pr EXCEPT ![i] = p]
    PROVE  /\ q \in [Ids -> Probes] /\ q[i] = p /\ \A j \in Ids : j # i => q[j] = pr[j]
           /\ IsFiniteSet(Runs(pr)) /\ IsFiniteSet(Runs(q))
           /\ Cardinality(Runs(pr)) \in Nat /\ Cardinality(Runs(q)) \in Nat
  <1>1. q \in [Ids -> Probes] /\ q[i] = p /\ \A j \in Ids : j # i => q[j] = pr[j]
    OBVIOUS
  <1>2. IsFiniteSet(Runs(pr)) /\ IsFiniteSet(Runs(q))
    BY FS_Subset DEF IdsAssumption, Runs
  <1>3. Cardinality(Runs(pr)) \in Nat /\ Cardinality(Runs(q)) \in Nat
    BY <1>2, FS_CardinalityType
  <1> QED BY <1>1, <1>2, <1>3

\* A running probe ends.
LEMMA ProbeEnds ==
    ASSUME IdsAssumption, NEW pr \in [Ids -> Probes], NEW i \in Ids, NEW p \in Probes,
           NEW q, q = [pr EXCEPT ![i] = p], pr[i] \in Running, p \notin Running
    PROVE  Cardinality(Runs(q)) + 1 = Cardinality(Runs(pr))
  <1>1. /\ q[i] = p /\ \A j \in Ids : j # i => q[j] = pr[j]
        /\ IsFiniteSet(Runs(pr)) /\ IsFiniteSet(Runs(q))
        /\ Cardinality(Runs(pr)) \in Nat /\ Cardinality(Runs(q)) \in Nat
    BY ProbeMoves
  <1>2. Runs(q) = Runs(pr) \ {i} /\ i \in Runs(pr)
    BY <1>1 DEF Runs
  <1>3. Cardinality(Runs(q)) = Cardinality(Runs(pr)) - 1
    BY <1>1, <1>2, FS_RemoveElement
  <1> QED BY <1>1, <1>3

\* A probe starts to run.
LEMMA ProbeStarts ==
    ASSUME IdsAssumption, NEW pr \in [Ids -> Probes], NEW i \in Ids, NEW p \in Probes,
           NEW q, q = [pr EXCEPT ![i] = p], pr[i] \notin Running, p \in Running
    PROVE  Cardinality(Runs(q)) = Cardinality(Runs(pr)) + 1
  <1>1. /\ q[i] = p /\ \A j \in Ids : j # i => q[j] = pr[j]
        /\ IsFiniteSet(Runs(pr)) /\ IsFiniteSet(Runs(q))
        /\ Cardinality(Runs(pr)) \in Nat /\ Cardinality(Runs(q)) \in Nat
    BY ProbeMoves
  <1>2. Runs(q) = Runs(pr) \cup {i} /\ i \notin Runs(pr)
    BY <1>1 DEF Runs
  <1> QED BY <1>1, <1>2, FS_AddElement

\* A probe that does not run changes its state.
LEMMA ProbeRests ==
    ASSUME IdsAssumption, NEW pr \in [Ids -> Probes], NEW i \in Ids, NEW p \in Probes,
           NEW q, q = [pr EXCEPT ![i] = p], pr[i] \notin Running, p \notin Running
    PROVE  Runs(q) = Runs(pr)
  <1>1. /\ q[i] = p /\ \A j \in Ids : j # i => q[j] = pr[j]
        /\ IsFiniteSet(Runs(pr)) /\ IsFiniteSet(Runs(q))
        /\ Cardinality(Runs(pr)) \in Nat /\ Cardinality(Runs(q)) \in Nat
    BY ProbeMoves
  <1> QED BY <1>1 DEF Runs

\* release and drain: of a gate with a slot that nobody holds any more they make a
\* sound one, by starting the first of the queue if there is one.
LEMMA ReleaseKeeps ==
    ASSUME IdsAssumption, RoomAssumption, NEW pr \in [Ids -> Probes], NEW queue \in Seq(Ids),
           NEW late \in Nat, active \in Nat, active = late + Cardinality(Runs(pr)) + 1,
           active <= Capacity, queue # <<>> /\ Tail(queue) # <<>> => active = Capacity,
           Once(queue), \A i \in Ids : In(i, queue) <=> pr[i] \in Waiting, Release(pr, queue)
    PROVE  /\ GateIsSound(probe', active', waiters', late)
           /\ \A i \in Ids : pr[i] \notin Waiting => probe'[i] = pr[i]
           /\ \A i \in Ids : pr[i] \in Waiting => probe'[i] \in Waiting \cup Running
  <1>0. Capacity \in Nat /\ Cardinality(Runs(pr)) \in Nat
    <2>1. IsFiniteSet(Runs(pr))
      BY FS_Subset DEF IdsAssumption, Runs
    <2> QED BY <2>1, FS_CardinalityType DEF RoomAssumption
  <1>1. CASE queue = <<>>
    <2>1. active' = active - 1 /\ waiters' = queue /\ probe' = pr
      BY <1>1 DEF Release
    <2>2. GateIsSound(probe', active', waiters', late)
      BY <1>0, <1>1, <2>1 DEF GateIsSound
    <2> QED BY <2>1, <2>2
  <1>2. CASE queue # <<>>
    <2> DEFINE i == Head(queue)
    <2>1. /\ waiters' = Tail(queue) /\ active' = active
          /\ probe' = [pr EXCEPT ![i] = Started(pr[i])]
      BY <1>2, Zenon DEF Release
    <2>2. /\ Tail(queue) \in Seq(Ids) /\ Once(Tail(queue)) /\ i \in Ids /\ In(i, queue)
          /\ \A x : In(x, Tail(queue)) <=> In(x, queue) /\ x # i
      BY <1>2, ChainShrinks
    <2>3. Started(pr[i]) \in Running /\ Started(pr[i]) \in Probes /\ Started(pr[i]) \notin Waiting
      BY DEF Started, Running, Waiting, Probes
    <2>4. pr[i] \in Waiting /\ pr[i] \notin Running
      BY <2>2 DEF Waiting, Running
    <2> DEFINE p == Started(pr[i])
    <2>10. probe' = [pr EXCEPT ![i] = p]
      BY <2>1
    <2> HIDE DEF i, p
    <2>11. p \in Running /\ p \in Probes
      BY <2>3 DEF p
    <2>12. /\ probe' \in [Ids -> Probes] /\ probe'[i] = p
           /\ \A j \in Ids : j # i => probe'[j] = pr[j]
           /\ Cardinality(Runs(probe')) = Cardinality(Runs(pr)) + 1
      BY <2>2, <2>4, <2>10, <2>11, ProbeMoves, ProbeStarts
    <2>5. /\ probe' \in [Ids -> Probes] /\ probe'[i] = Started(pr[i])
          /\ \A j \in Ids : j # i => probe'[j] = pr[j]
          /\ Cardinality(Runs(probe')) = Cardinality(Runs(pr)) + 1
      BY <2>12 DEF p
    <2>6. \A j \in Ids : In(j, waiters') <=> probe'[j] \in Waiting
      BY <2>1, <2>2, <2>3, <2>5
    <2>7. active' = late + Cardinality(Runs(probe')) /\ active' \in Nat /\ active' <= Capacity
      BY <1>0, <2>1, <2>5
    <2>8. waiters' # <<>> => active' = Capacity
      BY <1>2, <2>1
    <2>9. GateIsSound(probe', active', waiters', late)
      BY <2>1, <2>2, <2>5, <2>6, <2>7, <2>8 DEF GateIsSound
    <2> QED BY <2>3, <2>4, <2>5, <2>9
  <1> QED BY <1>1, <1>2

\* Rows stay fresh when no probe but those that wait or run moves.
LEMMA RowsStayFresh ==
    ASSUME RowsAreFresh(rows, probe, building), rows' = rows, building' = building,
           \A i \in Ids : probe[i] \notin Waiting \cup Running => probe'[i] = probe[i]
    PROVE  RowsAreFresh(rows', probe', building')
  <1>1. "none" \notin Waiting \cup Running
    BY DEF Waiting, Running
  <1> QED BY <1>1 DEF RowsAreFresh

\* A slot is released by a probe that has an answer.
LEMMA AnswerReleases ==
    ASSUME IdsAssumption, RoomAssumption, GateIsSound(probe, active, waiters, hung),
           NEW i \in Ids, probe[i] \in Running, NEW answer \in Done,
           Release([probe EXCEPT ![i] = answer], waiters)
    PROVE  /\ GateIsSound(probe', active', waiters', hung)
           /\ \A j \in Ids : probe[j] \notin Waiting \cup Running => probe'[j] = probe[j]
  <1> DEFINE pr == [probe EXCEPT ![i] = answer]
  <1>1. answer \in Probes /\ answer \notin Running /\ answer \notin Waiting /\ probe[i] \notin Waiting
    BY DEF Probes, Running, Waiting, Done
  <1>2. /\ pr \in [Ids -> Probes] /\ pr[i] = answer /\ \A j \in Ids : j # i => pr[j] = probe[j]
        /\ Cardinality(Runs(pr)) + 1 = Cardinality(Runs(probe))
        /\ Cardinality(Runs(pr)) \in Nat
    <2>1. pr = [probe EXCEPT ![i] = answer] /\ probe \in [Ids -> Probes]
      BY DEF GateIsSound
    <2> HIDE DEF pr
    <2> QED BY <1>1, <2>1, ProbeMoves, ProbeEnds
  <1> HIDE DEF pr
  <1>3. /\ waiters \in Seq(Ids) /\ hung \in Nat /\ active \in Nat /\ active <= Capacity
        /\ active = hung + Cardinality(Runs(pr)) + 1
        /\ waiters # <<>> => active = Capacity
        /\ Once(waiters) /\ \A j \in Ids : In(j, waiters) <=> pr[j] \in Waiting
    BY <1>1, <1>2 DEF GateIsSound
  <1>4. Release(pr, waiters)
    BY DEF pr
  <1>5. /\ GateIsSound(probe', active', waiters', hung)
        /\ \A j \in Ids : pr[j] \notin Waiting => probe'[j] = pr[j]
    BY <1>2, <1>3, <1>4, ReleaseKeeps
  <1> QED BY <1>2, <1>5

\* A probe whose row is asked for its eligibility next
LEMMA JudgingReleases ==
    ASSUME IdsAssumption, RoomAssumption, GateIsSound(probe, active, waiters, hung),
           NEW i \in Ids, probe[i] \in Running, ReleaseAndJudge(i)
    PROVE  /\ GateIsSound(probe', active', waiters', hung)
           /\ \A j \in Ids : probe[j] \notin Waiting \cup Running => probe'[j] = probe[j]
  <1> DEFINE pr == [probe EXCEPT ![i] = "judging"]
             queue == Append(waiters, i)
  <1>1. /\ "judging" \in Probes /\ "judging" \notin Running /\ "judging" \in Waiting
        /\ probe[i] \notin Waiting
    BY DEF Probes, Running, Waiting, Done
  <1>2. /\ pr \in [Ids -> Probes] /\ pr[i] = "judging" /\ \A j \in Ids : j # i => pr[j] = probe[j]
        /\ Cardinality(Runs(pr)) + 1 = Cardinality(Runs(probe))
        /\ Cardinality(Runs(pr)) \in Nat
    <2>1. pr = [probe EXCEPT ![i] = "judging"] /\ probe \in [Ids -> Probes]
      BY DEF GateIsSound
    <2> HIDE DEF pr
    <2> QED BY <1>1, <2>1, ProbeMoves, ProbeEnds
  <1>3. /\ queue \in Seq(Ids) /\ Once(queue) /\ \A x : In(x, queue) <=> In(x, waiters) \/ x = i
    <2>1. ~In(i, waiters)
      BY <1>1 DEF GateIsSound
    <2> QED BY <2>1, ChainGrows DEF GateIsSound
  <1>4. queue # <<>> /\ (waiters = <<>> => Tail(queue) = <<>>)
    <2>1. waiters \in Seq(Ids) /\ Len(queue) = Len(waiters) + 1 /\ Len(waiters) \in Nat
      BY DEF GateIsSound
    <2>2. queue # <<>>
      BY <2>1
    <2>4. waiters = <<>> => Tail(queue) = <<>>
      BY <2>1, HeadTailAppend
    <2> QED BY <2>2, <2>4
  <1> HIDE DEF pr, queue
  <1>5. /\ hung \in Nat /\ active \in Nat /\ active <= Capacity
        /\ active = hung + Cardinality(Runs(pr)) + 1
        /\ Tail(queue) # <<>> => active = Capacity
        /\ \A j \in Ids : In(j, queue) <=> pr[j] \in Waiting
    BY <1>1, <1>2, <1>3, <1>4 DEF GateIsSound
  <1>6. Release(pr, queue)
    BY DEF pr, queue, ReleaseAndJudge
  <1>7. /\ GateIsSound(probe', active', waiters', hung)
        /\ \A j \in Ids : pr[j] \notin Waiting => probe'[j] = pr[j]
    BY <1>2, <1>3, <1>5, <1>6, ReleaseKeeps
  <1> QED BY <1>2, <1>7

\* The service starts with a free gate and no rows.
LEMMA AdminStarts ==
    ASSUME IdsAssumption, RoomAssumption, AdminInit
    PROVE  SlotsAreAccounted
  <1>1. /\ rows = <<>> /\ probe = [i \in Ids |-> "none"] /\ building = FALSE /\ active = 0
        /\ waiters = <<>> /\ hung = 0 /\ errors = [i \in {} |-> 0]
        /\ outcome = [i \in Ids |-> "none"] /\ reads = 0 /\ actions = 0
        /\ snapshotReader = [r \in Readers |-> "idle"] /\ tabs \in SetToSeqs(Ids)
    BY DEF AdminInit
  <1>2. Of(Waiting) = {} /\ Of(Running) = {} /\ Of(Waiting \cup Running) = {}
    BY <1>1 DEF Of, Waiting, Running
  <1>3. Cardinality({}) = 0
    BY FS_EmptySet
  <1>4. tabs \in Seq(Ids) /\ IsInjective(tabs)
    <2>1. Cardinality(Ids) \in Nat
      BY FS_CardinalityType DEF IdsAssumption
    <2>2. tabs \in [1 .. Cardinality(Ids) -> Ids]
          /\ \A i, j \in 1 .. Cardinality(Ids) : i # j => tabs[i] # tabs[j]
      BY <1>1 DEF SetToSeqs
    <2>3. tabs \in Seq(Ids)
      BY <2>1, <2>2, SeqDef
    <2> QED BY <2>2, <2>3 DEF IsInjective
  <1>5. DOMAIN errors = {}
    BY <1>1
  <1>6. AdminTypeOK
    <2>1. errors \in [DOMAIN errors -> [error : Failures, at : Nat]]
      BY <1>1, <1>5
    <2>2. rows \in Seq(Ids) /\ waiters \in Seq(Ids)
      BY <1>1
    <2>3. probe \in [Ids -> Waiting \cup Running \cup Done \cup {"none"}]
      BY <1>1
    <2>4. /\ outcome \in [Ids -> Failures \cup {"ok", "none"}]
          /\ snapshotReader \in [Readers -> {"idle", "waiting"}]
      BY <1>1
    <2> QED BY <1>1, <1>4, <1>5, <2>1, <2>2, <2>3, <2>4 DEF AdminTypeOK
  <1>7. SlotsAddUp
    BY <1>1, <1>2, <1>3 DEF SlotsAddUp, RoomAssumption
  <1>8. NobodyWaitsForAFreeSlot
    BY <1>1, <1>2 DEF NobodyWaitsForAFreeSlot, ToSet, IsInjective
  <1>9. RowsAreTakenOnce
    <2>1. DOMAIN rows = {}
      BY <1>1
    <2> QED BY <1>1, <1>2, <1>4, <2>1 DEF RowsAreTakenOnce, IsInjective
  <1>10. ErrorsAreOfTheLastAction
    BY <1>3, <1>5 DEF ErrorsAreOfTheLastAction, RoomAssumption
  <1> QED BY <1>6, <1>7, <1>8, <1>9, <1>10 DEF SlotsAreAccounted

\* A probe that runs has its answer, and the row may be asked a second question.
LEMMA ProbeAnswers ==
    ASSUME IdsAssumption, RoomAssumption, SlotsAreAccounted, NEW i \in Ids,
           Existed(i) \/ Assessed(i)
    PROVE  SlotsAreAccounted'
  <1>1. /\ GateIsSound(probe, active, waiters, hung) /\ RowsAreFresh(rows, probe, building)
        /\ ErrorsAreSound(errors, outcome) /\ tabs \in Seq(Ids) /\ Once(tabs)
        /\ reads \in Nat /\ actions \in Nat
        /\ snapshotReader \in [Readers -> {"idle", "waiting"}]
    BY AccountedParts
  <1>2. /\ rows' = rows /\ building' = building /\ snapshotReader' = snapshotReader
        /\ hung' = hung /\ tabs' = tabs /\ errors' = errors /\ outcome' = outcome
        /\ reads' = reads /\ actions' = actions
    BY DEF Existed, Assessed, Existing, Judged, sourceVars
  <1>3. /\ probe[i] \in Running
        /\ \/ ReleaseAndJudge(i)
           \/ \E answer \in Done : Release([probe EXCEPT ![i] = answer], waiters)
    BY DEF Existed, Assessed, Existing, Judged, Running, Done
  <1>4. /\ GateIsSound(probe', active', waiters', hung)
        /\ \A j \in Ids : probe[j] \notin Waiting \cup Running => probe'[j] = probe[j]
    BY <1>1, <1>3, AnswerReleases, JudgingReleases
  <1>5. RowsAreFresh(rows', probe', building')
    BY <1>1, <1>2, <1>4, RowsStayFresh
  <1> QED BY <1>1, <1>2, <1>4, <1>5, AccountedAgain

\* A probe that was given up ends: its slot goes to the next one.
LEMMA LateProbeEnds ==
    ASSUME IdsAssumption, RoomAssumption, SlotsAreAccounted, LateSettlement
    PROVE  SlotsAreAccounted'
  <1>1. /\ GateIsSound(probe, active, waiters, hung) /\ RowsAreFresh(rows, probe, building)
        /\ ErrorsAreSound(errors, outcome) /\ tabs \in Seq(Ids) /\ Once(tabs)
        /\ reads \in Nat /\ actions \in Nat
        /\ snapshotReader \in [Readers -> {"idle", "waiting"}]
    BY AccountedParts
  <1>2. /\ rows' = rows /\ building' = building /\ snapshotReader' = snapshotReader
        /\ hung > 0 /\ hung' = hung - 1 /\ tabs' = tabs /\ errors' = errors
        /\ outcome' = outcome /\ reads' = reads /\ actions' = actions
        /\ Release(probe, waiters)
    BY DEF LateSettlement, sourceVars
  <1>3. Cardinality(Runs(probe)) \in Nat
    BY FS_Subset, FS_CardinalityType DEF IdsAssumption, Runs
  <1>4. /\ hung' \in Nat /\ active = hung' + Cardinality(Runs(probe)) + 1
        /\ active \in Nat /\ active <= Capacity /\ waiters \in Seq(Ids)
        /\ probe \in [Ids -> Probes] /\ Once(waiters)
        /\ waiters # <<>> => active = Capacity
        /\ \A j \in Ids : In(j, waiters) <=> probe[j] \in Waiting
    BY <1>1, <1>2, <1>3 DEF GateIsSound
  <1>5. /\ GateIsSound(probe', active', waiters', hung')
        /\ \A j \in Ids : probe[j] \notin Waiting => probe'[j] = probe[j]
    BY <1>2, <1>4, ReleaseKeeps
  <1>6. RowsAreFresh(rows', probe', building')
    BY <1>1, <1>2, <1>5, RowsStayFresh
  <1> QED BY <1>1, <1>2, <1>5, <1>6, AccountedAgain

\* The timer of a probe: a waiting one leaves the queue, a running one keeps its slot.
LEMMA TimeoutKeeps ==
    ASSUME IdsAssumption, RoomAssumption, SlotsAreAccounted, NEW i \in Ids, Timeout(i)
    PROVE  SlotsAreAccounted'
  <1>1. /\ GateIsSound(probe, active, waiters, hung) /\ RowsAreFresh(rows, probe, building)
        /\ ErrorsAreSound(errors, outcome) /\ tabs \in Seq(Ids) /\ Once(tabs)
        /\ reads \in Nat /\ actions \in Nat
        /\ snapshotReader \in [Readers -> {"idle", "waiting"}]
    BY AccountedParts
  <1>2. /\ rows' = rows /\ building' = building /\ snapshotReader' = snapshotReader
        /\ tabs' = tabs /\ errors' = errors /\ outcome' = outcome /\ reads' = reads
        /\ actions' = actions
    BY DEF Timeout, sourceVars
  <1> DEFINE p == GivenUp(probe[i])
  <1>3. p \in Probes /\ p \notin Running /\ p \notin Waiting
    BY DEF GivenUp, Probes, Running, Waiting, Done
  <1>4. probe' = [probe EXCEPT ![i] = p]
    BY Zenon DEF Timeout, Cancelled, ProbeAbandoned
  <1> HIDE DEF p
  <1>5. probe \in [Ids -> Probes] /\ hung \in Nat /\ active \in Nat
    BY <1>1 DEF GateIsSound
  <1>6. /\ probe' \in [Ids -> Probes] /\ probe'[i] = p
        /\ \A j \in Ids : j # i => probe'[j] = probe[j]
        /\ Cardinality(Runs(probe)) \in Nat /\ Cardinality(Runs(probe')) \in Nat
    BY <1>3, <1>4, <1>5, ProbeMoves
  <1>7. CASE probe[i] \in Waiting
    <2>1. Cancelled(i) /\ probe[i] \notin Running
      BY <1>7 DEF Timeout, Waiting, Running
    <2> PICK n \in DOMAIN waiters : waiters[n] = i /\ waiters' = RemoveAt(waiters, n)
      BY <2>1 DEF Cancelled
    <2>2. active' = active /\ hung' = hung
      BY <2>1 DEF Cancelled
    <2>3. Runs(probe') = Runs(probe)
      BY <1>3, <1>4, <1>5, <2>1, ProbeRests
    <2>4. /\ waiters' \in Seq(Ids) /\ Once(waiters')
          /\ \A x : In(x, waiters') <=> In(x, waiters) /\ x # i
      BY <1>1, ChainLoses DEF GateIsSound
    <2>5. In(i, waiters)
      BY DEF In
    <2>6. waiters # <<>>
      BY <1>1 DEF GateIsSound
    <2>7. \A j \in Ids : In(j, waiters') <=> probe'[j] \in Waiting
      BY <1>1, <1>3, <1>6, <2>4 DEF GateIsSound
    <2>8. GateIsSound(probe', active', waiters', hung')
      BY <1>1, <1>6, <2>2, <2>3, <2>4, <2>6, <2>7 DEF GateIsSound
    <2>9. RowsAreFresh(rows', probe', building')
      BY <1>1, <1>2, <1>6, <1>7, RowsStayFresh
    <2> QED BY <1>1, <1>2, <2>8, <2>9, AccountedAgain
  <1>8. CASE probe[i] \in Running
    <2>1. ProbeAbandoned(i) /\ probe[i] \notin Waiting
      BY <1>8 DEF Timeout, Waiting, Running
    <2>2. active' = active /\ waiters' = waiters /\ hung' = hung + 1
      BY <2>1 DEF ProbeAbandoned
    <2>3. Cardinality(Runs(probe')) + 1 = Cardinality(Runs(probe))
      BY <1>3, <1>4, <1>5, <1>8, ProbeEnds
    <2>4. active' = hung' + Cardinality(Runs(probe')) /\ hung' \in Nat
      BY <1>1, <1>5, <1>6, <2>2, <2>3 DEF GateIsSound
    <2>5. \A j \in Ids : In(j, waiters') <=> probe'[j] \in Waiting
      BY <1>1, <1>3, <1>6, <2>1, <2>2 DEF GateIsSound
    <2>6. GateIsSound(probe', active', waiters', hung')
      BY <1>1, <1>6, <2>2, <2>4, <2>5 DEF GateIsSound
    <2>7. RowsAreFresh(rows', probe', building')
      BY <1>1, <1>2, <1>6, <1>8, RowsStayFresh
    <2> QED BY <1>1, <1>2, <2>6, <2>7, AccountedAgain
  <1> QED BY <1>7, <1>8 DEF Timeout

\* A worker takes a row, and its probe gets a slot or waits.
LEMMA TakeKeeps ==
    ASSUME IdsAssumption, RoomAssumption, SlotsAreAccounted, Take
    PROVE  SlotsAreAccounted'
  <1>1. /\ GateIsSound(probe, active, waiters, hung) /\ RowsAreFresh(rows, probe, building)
        /\ ErrorsAreSound(errors, outcome) /\ tabs \in Seq(Ids) /\ Once(tabs)
        /\ reads \in Nat /\ actions \in Nat
        /\ snapshotReader \in [Readers -> {"idle", "waiting"}]
    BY AccountedParts
  <1> DEFINE i == Head(rows)
  <1>2. /\ building /\ rows # <<>> /\ rows' = Tail(rows) /\ Acquire(i, "asking")
        /\ building' = building /\ snapshotReader' = snapshotReader /\ hung' = hung
        /\ tabs' = tabs /\ errors' = errors /\ outcome' = outcome /\ reads' = reads
        /\ actions' = actions
    BY DEF Take, sourceVars
  <1>3. /\ Tail(rows) \in Seq(Ids) /\ Once(Tail(rows)) /\ i \in Ids /\ In(i, rows)
        /\ \A x : In(x, Tail(rows)) <=> In(x, rows) /\ x # i
    BY <1>1, <1>2, ChainShrinks DEF RowsAreFresh
  <1> HIDE DEF i
  <1>4. /\ probe[i] = "none" /\ "none" \notin Running /\ "none" \notin Waiting
        /\ "asking" \in Waiting /\ "asking" \notin Running /\ "asking" \in Probes
        /\ Started("asking") = "existing" /\ "existing" \in Running /\ "existing" \in Probes
        /\ "existing" \notin Waiting /\ probe[i] \notin Running
    BY <1>1, <1>3 DEF RowsAreFresh, Running, Waiting, Probes, Started
  <1>5. /\ probe \in [Ids -> Probes] /\ hung \in Nat /\ active \in Nat /\ waiters \in Seq(Ids)
        /\ Capacity \in Nat /\ Cardinality(Runs(probe)) \in Nat
    BY <1>1, FS_Subset, FS_CardinalityType DEF GateIsSound, RoomAssumption, IdsAssumption, Runs
  <1>6. ASSUME probe' \in [Ids -> Probes], probe'[i] \in Waiting \cup Running,
               \A j \in Ids : j # i => probe'[j] = probe[j]
        PROVE  RowsAreFresh(rows', probe', building')
    BY <1>1, <1>2, <1>3, <1>6 DEF RowsAreFresh
  <1>7. CASE active < Capacity /\ waiters = <<>>
    <2>1. /\ active' = active + 1 /\ waiters' = waiters
          /\ probe' = [probe EXCEPT ![i] = "existing"]
      BY <1>2, <1>4, <1>7 DEF Acquire
    <2> DEFINE p == "existing"
    <2>6. probe' = [probe EXCEPT ![i] = p] /\ p \in Probes /\ p \in Running
      BY <1>4, <2>1
    <2> HIDE DEF p
    <2>7. /\ probe' \in [Ids -> Probes] /\ probe'[i] = p
          /\ \A j \in Ids : j # i => probe'[j] = probe[j]
      BY <1>3, <1>5, <2>6, ProbeMoves
    <2>8. Cardinality(Runs(probe')) = Cardinality(Runs(probe)) + 1
      BY <1>3, <1>4, <1>5, <2>6, ProbeStarts
    <2>2. /\ probe' \in [Ids -> Probes] /\ probe'[i] = "existing"
          /\ \A j \in Ids : j # i => probe'[j] = probe[j]
          /\ Cardinality(Runs(probe')) = Cardinality(Runs(probe)) + 1
      BY <2>7, <2>8 DEF p
    <2>3. \A j \in Ids : In(j, waiters') <=> probe'[j] \in Waiting
      BY <1>1, <1>4, <2>1, <2>2 DEF GateIsSound
    <2>4. /\ active' = hung' + Cardinality(Runs(probe')) /\ active' \in Nat
          /\ active' <= Capacity
      BY <1>1, <1>2, <1>5, <1>7, <2>1, <2>2 DEF GateIsSound
    <2>5. GateIsSound(probe', active', waiters', hung')
      BY <1>1, <1>2, <1>7, <2>1, <2>2, <2>3, <2>4 DEF GateIsSound
    <2> QED BY <1>1, <1>2, <1>4, <1>6, <2>2, <2>5, AccountedAgain
  <1>8. CASE ~(active < Capacity /\ waiters = <<>>)
    <2>1. /\ waiters' = Append(waiters, i) /\ active' = active
          /\ probe' = [probe EXCEPT ![i] = "asking"]
      BY <1>2, <1>8 DEF Acquire
    <2> DEFINE p == "asking"
    <2>7. probe' = [probe EXCEPT ![i] = p] /\ p \in Probes /\ p \notin Running
      BY <1>4, <2>1
    <2> HIDE DEF p
    <2>8. /\ probe' \in [Ids -> Probes] /\ probe'[i] = p
          /\ \A j \in Ids : j # i => probe'[j] = probe[j]
      BY <1>3, <1>5, <2>7, ProbeMoves
    <2>9. Runs(probe') = Runs(probe)
      BY <1>3, <1>4, <1>5, <2>7, ProbeRests
    <2>2. /\ probe' \in [Ids -> Probes] /\ probe'[i] = "asking"
          /\ \A j \in Ids : j # i => probe'[j] = probe[j]
          /\ Runs(probe') = Runs(probe)
      BY <2>8, <2>9 DEF p
    <2>3. /\ waiters' \in Seq(Ids) /\ Once(waiters')
          /\ \A x : In(x, waiters') <=> In(x, waiters) \/ x = i
      <3>1. ~In(i, waiters) /\ Once(waiters)
        BY <1>1, <1>3, <1>4 DEF GateIsSound
      <3> QED BY <1>3, <1>5, <2>1, <3>1, ChainGrows
    <2>4. active = Capacity
      BY <1>1, <1>5, <1>8 DEF GateIsSound
    <2>5. \A j \in Ids : In(j, waiters') <=> probe'[j] \in Waiting
      BY <1>1, <1>4, <2>2, <2>3 DEF GateIsSound
    <2>6. GateIsSound(probe', active', waiters', hung')
      BY <1>1, <1>2, <2>1, <2>2, <2>3, <2>4, <2>5 DEF GateIsSound
    <2> QED BY <1>1, <1>2, <1>4, <1>6, <2>2, <2>6, AccountedAgain
  <1> QED BY <1>7, <1>8

\* A snapshot is complete.
LEMMA FinishKeeps ==
    ASSUME SlotsAreAccounted, FinishSnapshot
    PROVE  SlotsAreAccounted'
  <1>1. /\ GateIsSound(probe, active, waiters, hung) /\ RowsAreFresh(rows, probe, building)
        /\ ErrorsAreSound(errors, outcome) /\ tabs \in Seq(Ids) /\ Once(tabs)
        /\ reads \in Nat /\ actions \in Nat
    BY AccountedParts
  <1>2. /\ rows = <<>> /\ building' = FALSE /\ rows' = rows /\ probe' = probe
        /\ active' = active /\ waiters' = waiters /\ hung' = hung /\ tabs' = tabs
        /\ errors' = errors /\ outcome' = outcome /\ reads' = reads /\ actions' = actions
        /\ snapshotReader' = [r \in Readers |-> "idle"] /\ Of(Waiting \cup Running) = {}
    BY DEF FinishSnapshot, gateVars, sourceVars
  <1>3. RowsAreFresh(rows', probe', building')
    BY <1>1, <1>2 DEF RowsAreFresh, Of
  <1>4. snapshotReader' \in [Readers -> {"idle", "waiting"}]
    BY <1>2
  <1> QED BY <1>1, <1>2, <1>3, <1>4, AccountedAgain

\* A prefix of a chain without repetitions has none.
LEMMA PrefixIsOnce ==
    ASSUME NEW S, NEW q \in Seq(S), Once(q), NEW n \in 0 .. Len(q)
    PROVE  SubSeq(q, 1, n) \in Seq(S) /\ Once(SubSeq(q, 1, n))
  <1> DEFINE z == SubSeq(q, 1, n)
  <1>1. Len(q) \in Nat /\ DOMAIN q = 1 .. Len(q) /\ n \in Nat /\ n <= Len(q)
    OBVIOUS
  <1>2. z \in Seq(S) /\ Len(z) = n /\ \A k \in 1 .. n : z[k] = q[k]
    BY <1>1, SubSeqProperties
  <1> HIDE DEF z
  <1>3. DOMAIN z = 1 .. n
    BY <1>2
  <1>4. Once(z)
    BY <1>1, <1>2, <1>3 DEF Once
  <1> QED BY <1>2, <1>4 DEF z

\* A request joins the snapshot in flight or starts one, which drops the errors of
\* tabs that are gone.
LEMMA ReadAdminKeeps ==
    ASSUME IdsAssumption, RoomAssumption, SlotsAreAccounted, NEW r \in Readers, ReadAdmin(r)
    PROVE  SlotsAreAccounted'
  <1>1. /\ GateIsSound(probe, active, waiters, hung) /\ RowsAreFresh(rows, probe, building)
        /\ ErrorsAreSound(errors, outcome) /\ tabs \in Seq(Ids) /\ Once(tabs)
        /\ reads \in Nat /\ actions \in Nat
        /\ snapshotReader \in [Readers -> {"idle", "waiting"}]
    BY AccountedParts
  <1>2. /\ active' = active /\ waiters' = waiters /\ hung' = hung /\ tabs' = tabs
        /\ outcome' = outcome /\ actions' = actions
        /\ snapshotReader' = [snapshotReader EXCEPT ![r] = "waiting"]
    BY DEF ReadAdmin, gateVars
  <1>3. snapshotReader' \in [Readers -> {"idle", "waiting"}]
    BY <1>1, <1>2
  <1>4. CASE building
    <2>1. /\ rows' = rows /\ probe' = probe /\ building' = building /\ errors' = errors
          /\ reads' = reads
      BY <1>4 DEF ReadAdmin
    <2> QED BY <1>1, <1>2, <1>3, <2>1, AccountedAgain
  <1>5. CASE ~building
    <2>1. /\ reads' = reads + 1 /\ building' = TRUE /\ rows' = OrderedTabs
          /\ probe' = [i \in Ids |-> "none"]
          /\ errors' = [i \in DOMAIN errors \cap ToSet(OrderedTabs) |-> errors[i]]
      BY <1>5 DEF ReadAdmin, RetainCurrentErrors
    <2>2. OrderedTabs \in Seq(Ids) /\ Once(OrderedTabs)
      <3>1. (IF Len(tabs) < RowCapacity THEN Len(tabs) ELSE RowCapacity) \in 0 .. Len(tabs)
        BY <1>1 DEF RoomAssumption
      <3> QED BY <1>1, <3>1, PrefixIsOnce DEF OrderedTabs
    <2>3. RowsAreFresh(rows', probe', building')
      BY <2>1, <2>2 DEF RowsAreFresh
    <2>4. /\ Runs(probe') = {} /\ Runs(probe) = {} /\ probe' \in [Ids -> Probes]
          /\ \A i \in Ids : probe'[i] \notin Waiting /\ probe[i] \notin Waiting
      BY <1>1, <1>5, <2>1 DEF RowsAreFresh, Runs, Running, Waiting, Probes
    <2>5. GateIsSound(probe', active', waiters', hung')
      BY <1>1, <1>2, <2>4 DEF GateIsSound
    <2>6. ErrorsAreSound(errors', outcome')
      <3>1. IsFiniteSet(DOMAIN errors) /\ DOMAIN errors' \subseteq DOMAIN errors
        BY <1>1, <2>1, FS_Subset DEF IdsAssumption, ErrorsAreSound
      <3>2. /\ Cardinality(DOMAIN errors') <= Cardinality(DOMAIN errors)
            /\ Cardinality(DOMAIN errors') \in Nat /\ Cardinality(DOMAIN errors) \in Nat
        BY <3>1, FS_Subset, FS_CardinalityType
      <3>3. Cardinality(DOMAIN errors') <= RowCapacity
        BY <1>1, <3>2 DEF ErrorsAreSound, RoomAssumption
      <3> QED BY <1>1, <1>2, <2>1, <3>1, <3>3 DEF ErrorsAreSound
    <2> QED BY <1>1, <1>2, <1>3, <2>1, <2>3, <2>5, <2>6, AccountedAgain
  <1> QED BY <1>4, <1>5
\* Errors that are left out, or those of other sessions only
LEMMA ErrorsLeft ==
    ASSUME IdsAssumption, RoomAssumption, ErrorsAreSound(errors, outcome), NEW D,
           D \subseteq DOMAIN errors, NEW map, map = [j \in D |-> errors[j]],
           NEW last \in [Ids -> Failures \cup {"ok", "none"}],
           \A j \in D : last[j] = outcome[j]
    PROVE  ErrorsAreSound(map, last)
  <1>1. IsFiniteSet(DOMAIN errors) /\ DOMAIN errors \subseteq Ids
    BY FS_Subset DEF IdsAssumption, ErrorsAreSound
  <1>2. /\ Cardinality(D) <= Cardinality(DOMAIN errors)
        /\ Cardinality(D) \in Nat /\ Cardinality(DOMAIN errors) \in Nat
    BY <1>1, FS_Subset, FS_CardinalityType
  <1>3. Cardinality(DOMAIN map) <= RowCapacity /\ DOMAIN map = D
    BY <1>2 DEF ErrorsAreSound, RoomAssumption
  <1> QED BY <1>1, <1>3 DEF ErrorsAreSound

\* recordLifecycleError: the map has room again after the oldest entry is gone,
\* and the entries left are those of the last actions.
LEMMA ErrorsRecorded ==
    ASSUME IdsAssumption, RoomAssumption, ErrorsAreSound(errors, outcome), actions \in Nat,
           NEW i \in Ids, NEW error \in Failures, Recording(i, error),
           NEW last \in [Ids -> Failures \cup {"ok", "none"}], last[i] = error,
           \A j \in Ids : j # i => last[j] = outcome[j]
    PROVE  ErrorsAreSound(errors', last)
  <1> DEFINE all == Renewed(i, error)
             D == DOMAIN errors \cup {i}
  <1>1. /\ DOMAIN all = D /\ D \subseteq Ids /\ all \in [D -> [error : Failures, at : Nat]]
        /\ \A j \in D : last[j] = all[j].error
    <2>1. DOMAIN all = D /\ D \subseteq Ids
      BY DEF Renewed, ErrorsAreSound
    <2>2. all[i] = [error |-> error, at |-> actions + 1]
      BY DEF Renewed
    <2>3. \A j \in D : j # i => j \in DOMAIN errors /\ all[j] = errors[j]
      BY DEF Renewed
    <2>4. \A j \in D : all[j] \in [error : Failures, at : Nat]
      BY <2>2, <2>3 DEF ErrorsAreSound
    <2>5. all = [j \in D |-> all[j]]
      BY DEF Renewed
    <2>6. all \in [D -> [error : Failures, at : Nat]]
      <3> HIDE DEF all, D
      <3> QED BY <2>4, <2>5
    <2>7. \A j \in D : last[j] = all[j].error
      <3> HIDE DEF all, D
      <3>1. all[i].error = error
        BY <2>2
      <3> QED BY <2>1, <2>3, <3>1 DEF ErrorsAreSound
    <2> QED BY <2>1, <2>6, <2>7
  <1>2. /\ IsFiniteSet(D) /\ Cardinality(D) \in Nat /\ Cardinality(D) <= RowCapacity + 1
        /\ RowCapacity \in Nat
    <2>1. IsFiniteSet(DOMAIN errors)
      BY FS_Subset DEF IdsAssumption, ErrorsAreSound
    <2>2. Cardinality(DOMAIN errors) \in Nat /\ Cardinality(DOMAIN errors) <= RowCapacity
      BY <2>1, FS_CardinalityType DEF ErrorsAreSound
    <2>3. /\ IsFiniteSet(D)
          /\ Cardinality(D) = Cardinality(DOMAIN errors) \/ Cardinality(D) = Cardinality(DOMAIN errors) + 1
      BY <2>1, FS_AddElement
    <2> QED BY <2>2, <2>3 DEF RoomAssumption
  <1>3. IF Cardinality(DOMAIN all) <= RowCapacity THEN errors' = all
        ELSE \E old \in DOMAIN all : errors' = [j \in DOMAIN all \ {old} |-> all[j]]
    BY DEF Recording
  <1> HIDE DEF all, D
  <1>4. CASE Cardinality(D) <= RowCapacity
    BY <1>1, <1>3, <1>4 DEF ErrorsAreSound
  <1>5. CASE ~(Cardinality(D) <= RowCapacity)
    <2> PICK old \in D : errors' = [j \in D \ {old} |-> all[j]]
      BY <1>1, <1>3, <1>5
    <2>1. Cardinality(D \ {old}) = Cardinality(D) - 1
      BY <1>2, FS_RemoveElement
    <2>2. DOMAIN errors' = D \ {old} /\ Cardinality(DOMAIN errors') <= RowCapacity
      BY <1>2, <2>1
    <2> QED BY <1>1, <2>2 DEF ErrorsAreSound
  <1> QED BY <1>4, <1>5

\* An action on a session ends.
LEMMA ActionEndsKeeps ==
    ASSUME IdsAssumption, RoomAssumption, SlotsAreAccounted, NEW i \in Ids,
           NEW result \in Failures \cup {"ok", "tab_not_found"}, ActionEnds(i, result)
    PROVE  SlotsAreAccounted'
  <1>1. /\ GateIsSound(probe, active, waiters, hung) /\ RowsAreFresh(rows, probe, building)
        /\ ErrorsAreSound(errors, outcome) /\ tabs \in Seq(Ids) /\ Once(tabs)
        /\ reads \in Nat /\ actions \in Nat
        /\ snapshotReader \in [Readers -> {"idle", "waiting"}]
    BY AccountedParts
  <1>2. /\ rows' = rows /\ probe' = probe /\ building' = building /\ active' = active
        /\ waiters' = waiters /\ hung' = hung /\ tabs' = tabs /\ reads' = reads
        /\ actions' = actions + 1 /\ snapshotReader' = snapshotReader
    BY DEF ActionEnds, rowVars, gateVars
  <1>3. outcome' = [outcome EXCEPT ![i] = IF result = "tab_not_found" THEN outcome[i] ELSE result]
    BY Zenon DEF ActionEnds
  <1>4. /\ outcome' \in [Ids -> Failures \cup {"ok", "none"}]
        /\ outcome'[i] = IF result = "tab_not_found" THEN outcome[i] ELSE result
        /\ \A j \in Ids : j # i => outcome'[j] = outcome[j]
    BY <1>1, <1>3 DEF ErrorsAreSound
  <1>5. ErrorsAreSound(errors', outcome')
    <2>1. CASE result = "ok"
      <3>1. errors' = [j \in DOMAIN errors \ {i} |-> errors[j]]
        BY <2>1 DEF ActionEnds, ClearLifecycleError, Failures
      <3>2. \A j \in DOMAIN errors \ {i} : outcome'[j] = outcome[j]
        BY <1>1, <1>4 DEF ErrorsAreSound
      <3> DEFINE D == DOMAIN errors \ {i}
      <3>3. D \subseteq DOMAIN errors /\ errors' = [j \in D |-> errors[j]]
        BY <3>1
      <3>4. \A j \in D : outcome'[j] = outcome[j]
        BY <3>2
      <3> HIDE DEF D
      <3> QED BY <1>1, <1>4, <3>3, <3>4, ErrorsLeft
    <2>2. CASE result \in Failures
      <3>1. Recording(i, result) /\ outcome'[i] = result
        BY <1>4, <2>2 DEF ActionEnds, Failures
      <3> QED BY <1>1, <1>4, <2>2, <3>1, ErrorsRecorded
    <2>3. CASE result = "tab_not_found"
      <3>1. errors' = errors /\ outcome' = outcome
        BY <1>1, <1>3, <2>3 DEF ActionEnds, Failures, ErrorsAreSound
      <3> QED BY <1>1, <3>1
    <2> QED BY <2>1, <2>2, <2>3
  <1> QED BY <1>1, <1>2, <1>5, AccountedAgain

\* A tab is closed by another route.
LEMMA ElsewhereKeeps ==
    ASSUME SlotsAreAccounted, Elsewhere
    PROVE  SlotsAreAccounted'
  <1>1. /\ GateIsSound(probe, active, waiters, hung) /\ RowsAreFresh(rows, probe, building)
        /\ ErrorsAreSound(errors, outcome) /\ tabs \in Seq(Ids) /\ Once(tabs)
        /\ reads \in Nat /\ actions \in Nat
        /\ snapshotReader \in [Readers -> {"idle", "waiting"}]
    BY AccountedParts
  <1>2. /\ rows' = rows /\ probe' = probe /\ building' = building /\ active' = active
        /\ waiters' = waiters /\ hung' = hung /\ errors' = errors /\ outcome' = outcome
        /\ reads' = reads /\ actions' = actions + 1 /\ snapshotReader' = snapshotReader
    BY DEF Elsewhere, rowVars, gateVars
  <1> PICK n \in DOMAIN tabs : tabs' = RemoveAt(tabs, n)
    BY DEF Elsewhere
  <1>3. tabs' \in Seq(Ids) /\ Once(tabs')
    BY <1>1, ChainLoses
  <1> QED BY <1>1, <1>2, <1>3, AccountedAgain

\* The gate of admin-service.ts never runs more than probeConcurrency commands of
\* tmux, however many probes were given up while they ran, loses no slot while a
\* probe waits for one, takes each row once, and every error a row shows is that of
\* the last action on it: for any number of tabs, readers and slots.
THEOREM GateStaysAccounted ==
    ASSUME IdsAssumption, RoomAssumption
    PROVE  AdminSpec => []SlotsAreAccounted
  <1>1. AdminInit => SlotsAreAccounted
    BY AdminStarts
  <1>2. SlotsAreAccounted /\ [AdminNext]_adminVars => SlotsAreAccounted'
    <2> SUFFICES ASSUME SlotsAreAccounted, [AdminNext]_adminVars
                 PROVE  SlotsAreAccounted'
      OBVIOUS
    <2>1. ASSUME UNCHANGED adminVars PROVE SlotsAreAccounted'
      <3>1. /\ GateIsSound(probe, active, waiters, hung) /\ RowsAreFresh(rows, probe, building)
            /\ ErrorsAreSound(errors, outcome) /\ tabs \in Seq(Ids) /\ Once(tabs)
            /\ reads \in Nat /\ actions \in Nat
            /\ snapshotReader \in [Readers -> {"idle", "waiting"}]
        BY AccountedParts
      <3>2. /\ rows' = rows /\ probe' = probe /\ building' = building /\ active' = active
            /\ waiters' = waiters /\ hung' = hung /\ errors' = errors /\ outcome' = outcome
            /\ reads' = reads /\ actions' = actions /\ snapshotReader' = snapshotReader
            /\ tabs' = tabs
        BY <2>1 DEF adminVars
      <3> QED BY <3>1, <3>2, AccountedAgain
    <2>2. ASSUME Take PROVE SlotsAreAccounted'
      BY <2>2, TakeKeeps
    <2>3. ASSUME FinishSnapshot PROVE SlotsAreAccounted'
      BY <2>3, FinishKeeps
    <2>4. ASSUME LateSettlement PROVE SlotsAreAccounted'
      BY <2>4, LateProbeEnds
    <2>5. ASSUME Elsewhere PROVE SlotsAreAccounted'
      BY <2>5, ElsewhereKeeps
    <2>6. ASSUME NEW r \in Readers, ReadAdmin(r) PROVE SlotsAreAccounted'
      BY <2>6, ReadAdminKeeps
    <2>7. ASSUME NEW i \in Ids, Existed(i) \/ Assessed(i) PROVE SlotsAreAccounted'
      BY <2>7, ProbeAnswers
    <2>8. ASSUME NEW i \in Ids, Timeout(i) PROVE SlotsAreAccounted'
      BY <2>8, TimeoutKeeps
    <2>9. ASSUME NEW i \in Ids, NEW result \in Failures \cup {"ok", "tab_not_found"},
                 ActionEnds(i, result)
          PROVE  SlotsAreAccounted'
      BY <2>9, ActionEndsKeeps
    <2> QED BY <2>1, <2>2, <2>3, <2>4, <2>5, <2>6, <2>7, <2>8, <2>9 DEF AdminNext
  <1> QED BY <1>1, <1>2, PTL DEF AdminSpec

-----------------------------------------------------------------------------
(***************************************************************************)
(* Loops over sequences, and keys in the order of their insertion.         *)
(*                                                                         *)
(* A loop of the models is a function that is defined by recursion on the  *)
(* turns it has taken.  That there is such a function, and what holds      *)
(* after each turn, follows by induction, here in the form that a set of   *)
(* natural numbers has a least element (LeastNatural): the first turn that *)
(* would break a claim is not turn 0, and the turn before it would break   *)
(* the claim already (UpTo).                                               *)
(***************************************************************************)
\* A set of natural numbers has a least element.
LEMMA LeastNatural ==
    ASSUME NEW T \in SUBSET Nat, T # {}
    PROVE  \E x \in T : \A y \in T : x <= y
  <1> DEFINE R == OpToRel(<, Nat)
  <1>1. IsWellFoundedOn(R, Nat)
    BY NatLessThanWellFounded
  <1>2. \A x, y \in Nat : x < y => <<x, y>> \in R
    BY DEF OpToRel
  <1> HIDE DEF R
  <1> PICK x \in T : \A y \in T : ~(<<y, x>> \in R)
    BY <1>1, WFMin
  <1>3. x \in Nat /\ \A y \in T : y \in Nat /\ ~(y < x)
    BY <1>2
  <1>4. \A y \in T : x <= y
    BY <1>3
  <1> QED BY <1>4

\* Induction up to n: a set that has 0, and each number whose predecessor it has
LEMMA UpTo ==
    ASSUME NEW n \in Nat, NEW S, 0 \in S, \A k \in 1 .. n : k - 1 \in S => k \in S
    PROVE  \A k \in 0 .. n : k \in S
  <1> DEFINE T == {k \in 0 .. n : k \notin S}
  <1> SUFFICES ASSUME T # {} PROVE FALSE
    OBVIOUS
  <1>1. T \in SUBSET Nat
    OBVIOUS
  <1>2. \E x \in T : \A y \in T : x <= y
    <2> HIDE DEF T
    <2> QED BY <1>1, LeastNatural
  <1> PICK x \in T : \A y \in T : x <= y
    BY <1>2
  <1>3. x \in 1 .. n /\ x \notin S /\ x - 1 \in 0 .. n /\ ~(x <= x - 1)
    OBVIOUS
  <1>4. x - 1 \in S
    BY <1>3
  <1> QED BY <1>3, <1>4

\* What a loop over a sequence r makes of g, step by step
Loop(f, F, g, r, n) == f = [k \in 0 .. n |-> IF k = 0 THEN g ELSE F[<<f[k - 1], r[k]>>]]

\* Its steps
LEMMA LoopSteps ==
    ASSUME NEW f, NEW F, NEW g, NEW r, NEW n \in Nat, Loop(f, F, g, r, n)
    PROVE  /\ f[0] = g /\ \A k \in 1 .. n : f[k] = F[<<f[k - 1], r[k]>>]
           /\ f = [k \in 0 .. n |-> f[k]]
  <1> DEFINE Body(k) == IF k = 0 THEN g ELSE F[<<f[k - 1], r[k]>>]
             e == [k \in 0 .. n |-> Body(k)]
  <1>1. f = e
    BY DEF Loop
  <1>2. /\ \A k \in 0 .. n : e[k] = Body(k)
        /\ e = [k \in 0 .. n |-> e[k]]
    <2> HIDE DEF Body
    <2> QED OBVIOUS
  <1>3. Body(0) = g /\ \A k \in 1 .. n : Body(k) = F[<<f[k - 1], r[k]>>]
    OBVIOUS
  <1> HIDE DEF e, Body
  <1>4. \A k \in 0 .. n : f[k] = Body(k)
    BY <1>1, <1>2
  <1>5. f = [k \in 0 .. n |-> f[k]]
    BY <1>1, <1>2
  <1>6. f[0] = g
    BY <1>3, <1>4
  <1>7. ASSUME NEW k \in 1 .. n PROVE f[k] = F[<<f[k - 1], r[k]>>]
    <2>1. k \in 0 .. n
      OBVIOUS
    <2> QED BY <1>3, <1>4, <2>1
  <1> QED BY <1>5, <1>6, <1>7

\* There is such a loop.
LEMMA LoopExists ==
    ASSUME NEW F, NEW g, NEW r, NEW m \in Nat
    PROVE  \E f : Loop(f, F, g, r, m)
  <1> DEFINE S == {n \in Nat : \E f : Loop(f, F, g, r, n)}
  <1>1. 0 \in S
    <2> DEFINE f == [k \in 0 .. 0 |-> g]
    <2>1. f = [k \in 0 .. 0 |-> IF k = 0 THEN g ELSE F[<<f[k - 1], r[k]>>]]
      OBVIOUS
    <2>2. Loop(f, F, g, r, 0)
      BY <2>1 DEF Loop
    <2> QED BY <2>2
  <1>2. ASSUME NEW i \in 1 .. m, i - 1 \in S PROVE i \in S
    <2> DEFINE n == i - 1
    <2>1. n \in Nat /\ n + 1 = i /\ \E f : Loop(f, F, g, r, n)
      BY <1>2
    <2> HIDE DEF n
    <2> PICK f : Loop(f, F, g, r, n)
      BY <2>1
    <2> DEFINE h == [k \in 0 .. n + 1 |->
                        IF k = n + 1 THEN F[<<f[n], r[n + 1]>>] ELSE f[k]]
    <2>2. /\ DOMAIN h = 0 .. n + 1 /\ h[n + 1] = F[<<f[n], r[n + 1]>>]
          /\ \A k \in 0 .. n : h[k] = f[k]
      BY <2>1
    <2>3. f[0] = g /\ \A k \in 1 .. n : f[k] = F[<<f[k - 1], r[k]>>]
      BY <2>1, LoopSteps
    <2>5. h = [k \in 0 .. n + 1 |-> h[k]]
      OBVIOUS
    <2> HIDE DEF h
    <2>4. \A k \in 0 .. n + 1 : h[k] = IF k = 0 THEN g ELSE F[<<h[k - 1], r[k]>>]
      <3>1. h[0] = g
        BY <2>1, <2>2, <2>3
      <3>2. ASSUME NEW k \in 1 .. n PROVE h[k] = F[<<h[k - 1], r[k]>>]
        BY <2>1, <2>2, <2>3
      <3>3. h[n + 1] = F[<<h[n + 1 - 1], r[n + 1]>>]
        <4>1. n + 1 - 1 = n /\ n \in 0 .. n
          BY <2>1
        <4> QED BY <2>2, <4>1
      <3> QED BY <2>1, <3>1, <3>2, <3>3
    <2>6. Loop(h, F, g, r, n + 1)
      BY <2>4, <2>5 DEF Loop
    <2> QED BY <2>1, <2>6
  <1>3. m \in S
    <2> HIDE DEF S
    <2>1. \A k \in 0 .. m : k \in S
      BY <1>1, <1>2, UpTo
    <2> QED BY <2>1
  <1> QED BY <1>3

\* A loop through G
TypedLoop(f, F, G, g, r) ==
    /\ f \in [0 .. Len(r) -> G] /\ f[0] = g
    /\ \A k \in 1 .. Len(r) : f[k] = F[<<f[k - 1], r[k]>>]

\* A loop whose steps stay in G stays in G.
LEMMA LoopIsTyped ==
    ASSUME NEW G, NEW T, NEW F \in [G \X T -> G], NEW g \in G, NEW r \in Seq(T)
    PROVE  \E f : TypedLoop(f, F, G, g, r)
  <1>0. Len(r) \in Nat /\ \A k \in 1 .. Len(r) : r[k] \in T
    OBVIOUS
  <1> PICK f : Loop(f, F, g, r, Len(r))
    BY <1>0, LoopExists
  <1> DEFINE S == {k \in Nat : f[k] \in G}
  <1>1. /\ f[0] = g /\ \A k \in 1 .. Len(r) : f[k] = F[<<f[k - 1], r[k]>>]
        /\ f = [k \in 0 .. Len(r) |-> f[k]]
    BY <1>0, LoopSteps
  <1>2. 0 \in S
    BY <1>1
  <1>3. ASSUME NEW k \in 1 .. Len(r), k - 1 \in S PROVE k \in S
    <2>1. f[k - 1] \in G /\ r[k] \in T /\ k \in Nat
      BY <1>0, <1>3
    <2>2. F[<<f[k - 1], r[k]>>] \in G
      BY <2>1
    <2> QED BY <1>1, <2>1, <2>2
  <1>4. \A k \in 0 .. Len(r) : k \in S
    <2> HIDE DEF S
    <2> QED BY <1>0, <1>2, <1>3, UpTo
  <1>5. f \in [0 .. Len(r) -> G]
    BY <1>1, <1>4
  <1> QED BY <1>1, <1>5 DEF TypedLoop

\* Keys in the order of their insertion: one is deleted.
LEMMA Forgets ==
    ASSUME NEW S, NEW q \in Seq(S), Once(q), NEW x
    PROVE  /\ Forget(q, x) \in Seq(S) /\ Once(Forget(q, x))
           /\ \A y : In(y, Forget(q, x)) <=> In(y, q) /\ y # x
           /\ Len(Forget(q, x)) <= Len(q)
  <1>0. DOMAIN q = 1 .. Len(q) /\ Len(q) \in Nat /\ (Contains(q, x) <=> In(x, q))
    BY DEF Contains, In
  <1>1. CASE In(x, q)
    <2> DEFINE n == CHOOSE n \in 1 .. Len(q) : q[n] = x
    <2>1. n \in DOMAIN q /\ q[n] = x
      BY <1>0, <1>1 DEF In
    <2>2. Forget(q, x) = RemoveAt(q, n)
      BY <1>0, <1>1 DEF Forget
    <2> HIDE DEF n
    <2>3. /\ RemoveAt(q, n) \in Seq(S) /\ Once(RemoveAt(q, n))
          /\ \A y : In(y, RemoveAt(q, n)) <=> In(y, q) /\ y # q[n]
      BY <2>1, ChainLoses
    <2>4. Len(RemoveAt(q, n)) <= Len(q)
      <3>1. SubSeq(q, 1, n - 1) \in Seq(S) /\ Len(SubSeq(q, 1, n - 1)) = n - 1
        BY <1>0, <2>1, SubSeqProperties
      <3>2. SubSeq(q, n + 1, Len(q)) \in Seq(S) /\ Len(SubSeq(q, n + 1, Len(q))) = Len(q) - n
        BY <1>0, <2>1, SubSeqProperties
      <3>3. Len(RemoveAt(q, n)) = Len(q) - 1
        BY <1>0, <2>1, <3>1, <3>2, ConcatProperties DEF RemoveAt
      <3> QED BY <1>0, <3>3
    <2> QED BY <2>1, <2>2, <2>3, <2>4
  <1>2. CASE ~In(x, q)
    <2>1. Forget(q, x) = q
      BY <1>0, <1>2 DEF Forget
    <2> QED BY <1>0, <1>2, <2>1
  <1> QED BY <1>1, <1>2

\* Keys q, of which x was renewed, are the keys all; there is room for the m of kept.
KeysKept(S, q, x, m, all, kept) ==
    /\ kept \in Seq(S) /\ Once(kept) /\ Len(kept) <= m /\ In(x, kept)
    /\ \A y : In(y, kept) => In(y, q) \/ y = x
    /\ \A y : In(y, q) /\ ~In(y, kept) => Len(all) > m /\ y = Head(all) /\ y # x
    /\ Len(all) > m => Head(all) \in S /\ Head(all) # x /\ In(Head(all), q)

\* A key of a map with room for m keys is renewed, and the first key goes if there
\* are too many: the new one stays.
LEMMA RenewsBounded ==
    ASSUME NEW S, NEW q \in Seq(S), Once(q), NEW x \in S, NEW m \in Nat \ {0}, Len(q) <= m,
           NEW all, all = Renew(q, x), NEW kept, kept = IF Len(all) > m THEN Tail(all) ELSE all
    PROVE  KeysKept(S, q, x, m, all, kept)
  <1> DEFINE p == Forget(q, x)
  <1>1. /\ p \in Seq(S) /\ Once(p) /\ (\A y : In(y, p) <=> In(y, q) /\ y # x)
        /\ Len(p) <= Len(q)
    BY Forgets
  <1>2. all = Append(p, x)
    BY DEF Renew
  <1> HIDE DEF p
  <1>3. /\ all \in Seq(S) /\ Once(all) /\ \A y : In(y, all) <=> In(y, p) \/ y = x
    BY <1>1, <1>2, ChainGrows
  <1>4. /\ Len(all) = Len(p) + 1 /\ all[Len(all)] = x /\ Len(p) \in Nat /\ Len(q) \in Nat
        /\ DOMAIN all = 1 .. Len(all)
    BY <1>1, <1>2
  <1>5. CASE Len(all) > m
    <2>1. all # <<>> /\ kept = Tail(all)
      BY <1>4, <1>5
    <2>2. /\ Tail(all) \in Seq(S) /\ Once(Tail(all)) /\ Head(all) \in S /\ In(Head(all), all)
          /\ \A y : In(y, Tail(all)) <=> In(y, all) /\ y # Head(all)
      BY <1>3, <2>1, ChainShrinks
    <2>3. Head(all) # x
      <3>1. Head(all) = all[1] /\ 1 \in DOMAIN all /\ Len(all) \in DOMAIN all /\ Len(all) # 1
        BY <1>3, <1>4, <1>5
      <3> QED BY <1>3, <1>4, <3>1 DEF Once
    <2>4. Len(kept) = Len(all) - 1
      BY <1>3, <2>1
    <2>5. Len(kept) <= m
      BY <1>1, <1>4, <2>4
    <2> QED BY <1>1, <1>3, <1>5, <2>1, <2>2, <2>3, <2>5 DEF KeysKept
  <1>6. CASE ~(Len(all) > m)
    <2>1. kept = all
      BY <1>6
    <2>2. Len(kept) <= m
      BY <1>4, <1>6, <2>1
    <2> QED BY <1>1, <1>3, <1>6, <2>1, <2>2 DEF KeysKept
  <1> QED BY <1>5, <1>6

\* A key is added.
LEMMA Adds ==
    ASSUME NEW S, NEW q \in Seq(S), Once(q), NEW x \in S
    PROVE  /\ Add(q, x) \in Seq(S) /\ Once(Add(q, x))
           /\ \A y : In(y, Add(q, x)) <=> In(y, q) \/ y = x
  <1>0. DOMAIN q = 1 .. Len(q) /\ (Contains(q, x) <=> In(x, q))
    BY DEF Contains, In
  <1>1. CASE In(x, q)
    <2>1. Add(q, x) = q
      BY <1>0, <1>1 DEF Add
    <2> QED BY <1>1, <2>1
  <1>2. CASE ~In(x, q)
    <2>1. Add(q, x) = Append(q, x)
      BY <1>0, <1>2 DEF Add
    <2> QED BY <1>2, <2>1, ChainGrows
  <1> QED BY <1>1, <1>2

\* Keys are added one after the other.
LEMMA AddsAll ==
    ASSUME NEW S, NEW q \in Seq(S), Once(q), NEW r \in Seq(S)
    PROVE  /\ AddAll(q, r) \in Seq(S) /\ Once(AddAll(q, r))
           /\ \A y : In(y, AddAll(q, r)) <=> In(y, q) \/ In(y, r)
  <1> DEFINE G == {p \in Seq(S) : Once(p)}
             F == [p \in G \X S |-> Add(p[1], p[2])]
             Run(f) == f = [n \in 0 .. Len(r) |-> IF n = 0 THEN q ELSE Add(f[n - 1], r[n])]
             f == CHOOSE f : Run(f)
  <1>0. Len(r) \in Nat /\ DOMAIN r = 1 .. Len(r) /\ \A k \in 1 .. Len(r) : r[k] \in S
    OBVIOUS
  <1>1. F \in [G \X S -> G]
    <2>1. ASSUME NEW p \in G, NEW x \in S PROVE Add(p, x) \in G
      BY Adds
    <2> HIDE DEF G
    <2> QED BY <2>1
  <1>2. \E h : Run(h)
    <2>0. q \in G
      OBVIOUS
    <2>1. \E h : TypedLoop(h, F, G, q, r)
      <3> HIDE DEF F, G
      <3> QED BY <1>1, <2>0, LoopIsTyped
    <2> PICK h : TypedLoop(h, F, G, q, r)
      BY <2>1
    <2>5. /\ h \in [0 .. Len(r) -> G] /\ h[0] = q
          /\ \A k \in 1 .. Len(r) : h[k] = F[<<h[k - 1], r[k]>>]
      <3> HIDE DEF F, G
      <3> QED BY DEF TypedLoop
    <2>2. ASSUME NEW k \in 1 .. Len(r) PROVE h[k] = Add(h[k - 1], r[k])
      <3>1. h[k - 1] \in G /\ r[k] \in S
        <4> HIDE DEF G
        <4>1. k - 1 \in 0 .. Len(r)
          BY <1>0
        <4> QED BY <1>0, <2>5, <4>1
      <3> HIDE DEF G
      <3> QED BY <2>5, <3>1
    <2> HIDE DEF F, G
    <2>3. \A k \in 0 .. Len(r) : h[k] = IF k = 0 THEN q ELSE Add(h[k - 1], r[k])
      BY <1>0, <2>2, <2>5
    <2>4. Run(h)
      BY <2>3, <2>5
    <2> QED BY <2>4
  <1>3. Run(f)
    BY <1>2
  <1>4. AddAll(q, r) = f[Len(r)]
    BY DEF AddAll
  <1> HIDE DEF f, F, G
  <1>5. f[0] = q /\ \A k \in 1 .. Len(r) : f[k] = Add(f[k - 1], r[k])
    <2> DEFINE Body(n) == IF n = 0 THEN q ELSE Add(f[n - 1], r[n])
               e == [n \in 0 .. Len(r) |-> Body(n)]
    <2>1. f = e
      BY <1>3
    <2>2. \A n \in 0 .. Len(r) : e[n] = Body(n)
      <3> HIDE DEF Body
      <3> QED OBVIOUS
    <2>3. Body(0) = q /\ \A k \in 1 .. Len(r) : Body(k) = Add(f[k - 1], r[k])
      OBVIOUS
    <2>4. 0 \in 0 .. Len(r) /\ \A k \in 1 .. Len(r) : k \in 0 .. Len(r)
      BY <1>0
    <2> HIDE DEF Body, e
    <2> QED BY <2>1, <2>2, <2>3, <2>4
  <1> DEFINE P(k) == /\ f[k] \in Seq(S) /\ Once(f[k])
                     /\ \A y : In(y, f[k]) <=> In(y, q) \/ \E i \in 1 .. k : r[i] = y
             D == {k \in Nat : P(k)}
  <1>6. 0 \in D
    BY <1>5
  <1>7. ASSUME NEW k \in 1 .. Len(r), k - 1 \in D PROVE k \in D
    <2>1. P(k - 1) /\ k \in Nat
      BY <1>7
    <2>2. f[k] = Add(f[k - 1], r[k]) /\ r[k] \in S
      BY <1>0, <1>5
    <2> DEFINE b == f[k - 1]
               x == r[k]
    <2>5. b \in Seq(S) /\ Once(b) /\ x \in S /\ f[k] = Add(b, x)
      BY <2>1, <2>2
    <2>6. /\ f[k] \in Seq(S) /\ Once(f[k]) /\ \A y : In(y, f[k]) <=> In(y, b) \/ y = x
      <3> HIDE DEF b, x
      <3> QED BY <2>5, Adds
    <2>3. /\ f[k] \in Seq(S) /\ Once(f[k])
          /\ \A y : In(y, f[k]) <=> In(y, f[k - 1]) \/ y = r[k]
      BY <2>6
    <2>4. \A y : (\E i \in 1 .. k : r[i] = y) <=> (\E i \in 1 .. k - 1 : r[i] = y) \/ y = r[k]
      <3>1. \A i : i \in 1 .. k <=> i \in 1 .. k - 1 \/ i = k
        OBVIOUS
      <3> QED BY <3>1
    <2> QED BY <2>1, <2>3, <2>4
  <1>8. Len(r) \in D
    <2> HIDE DEF D
    <2>1. \A k \in 0 .. Len(r) : k \in D
      BY <1>0, <1>6, <1>7, UpTo
    <2> QED BY <1>0, <2>1
  <1>9. P(Len(r))
    BY <1>8
  <1> QED BY <1>0, <1>4, <1>9 DEF In

-----------------------------------------------------------------------------
\* The generations of the tracker, as a predicate, and that of a tab
GoodGens(g) ==
    /\ g \in [tracked : Seq(Tabs), value : [Tabs -> Nat], clock : Nat, evicted : Nat]
    /\ Once(g.tracked) /\ Len(g.tracked) <= MaxTracked
    /\ g.evicted <= g.clock /\ \A t \in Tabs : g.value[t] <= g.clock
GenOf(g, t) == IF In(t, g.tracked) THEN g.value[t] ELSE g.evicted

\* The generation of a tab is a number that the clock has reached.
LEMMA GenIsNumber ==
    ASSUME NEW g, GoodGens(g), NEW t \in Tabs
    PROVE  GenOf(g, t) \in Nat /\ GenOf(g, t) <= g.clock
  BY DEF GoodGens, GenOf

\* advanceCleanupGeneration makes the generation of the tab grow and lets none
\* shrink, also that of the tab it evicts.
LEMMA AdvanceGrows ==
    ASSUME MaxTrackedAssumption, NEW g, GoodGens(g), NEW t \in Tabs, NEW h, h = Advance(g, t)
    PROVE  /\ GoodGens(h) /\ GenOf(g, t) < GenOf(h, t)
           /\ \A u \in Tabs : GenOf(g, u) <= GenOf(h, u)
  <1> DEFINE all == Renew(g.tracked, t)
             kept == IF Len(all) > MaxTracked THEN Tail(all) ELSE all
  <1>1. /\ g.tracked \in Seq(Tabs) /\ Once(g.tracked) /\ Len(g.tracked) <= MaxTracked
        /\ g.value \in [Tabs -> Nat] /\ g.clock \in Nat /\ g.evicted \in Nat
        /\ g.evicted <= g.clock /\ \A u \in Tabs : g.value[u] <= g.clock
        /\ MaxTracked \in Nat \ {0}
    BY DEF GoodGens, MaxTrackedAssumption
  <1>2. h = [tracked |-> kept, value |-> [g.value EXCEPT ![t] = g.clock + 1],
             clock |-> g.clock + 1,
             evicted |-> IF Len(all) > MaxTracked THEN g.clock + 1 ELSE g.evicted]
    BY DEF Advance
  <1> HIDE DEF all, kept
  <1>3. /\ kept \in Seq(Tabs) /\ Once(kept) /\ Len(kept) <= MaxTracked /\ In(t, kept)
        /\ \A y : In(y, kept) => In(y, g.tracked) \/ y = t
        /\ \A y : In(y, g.tracked) /\ ~In(y, kept) => Len(all) > MaxTracked
    <2> DEFINE q == g.tracked
    <2>1. q \in Seq(Tabs) /\ Once(q) /\ Len(q) <= MaxTracked /\ all = Renew(q, t)
      BY <1>1 DEF all
    <2>2. kept = IF Len(all) > MaxTracked THEN Tail(all) ELSE all
      BY DEF kept
    <2> HIDE DEF q
    <2>3. KeysKept(Tabs, q, t, MaxTracked, all, kept)
      BY <1>1, <2>1, <2>2, RenewsBounded
    <2> QED BY <2>3 DEF q, KeysKept
  <1>4. /\ h.tracked = kept /\ h.clock = g.clock + 1 /\ h.value \in [Tabs -> Nat]
        /\ h.value[t] = g.clock + 1 /\ \A u \in Tabs : u # t => h.value[u] = g.value[u]
        /\ h.evicted = IF Len(all) > MaxTracked THEN g.clock + 1 ELSE g.evicted
        /\ h \in [tracked : Seq(Tabs), value : [Tabs -> Nat], clock : Nat, evicted : Nat]
    BY <1>1, <1>2, <1>3
  <1>5. GoodGens(h)
    <2>1. h.evicted <= h.clock
      BY <1>1, <1>4
    <2>2. ASSUME NEW u \in Tabs PROVE h.value[u] <= h.clock
      <3>1. CASE u = t
        BY <1>1, <1>4, <3>1
      <3>2. CASE u # t
        <4>1. h.value[u] = g.value[u] /\ g.value[u] \in Nat /\ g.value[u] <= g.clock
          BY <1>1, <1>4, <3>2
        <4> QED BY <1>1, <1>4, <4>1
      <3> QED BY <3>1, <3>2
    <2> QED BY <1>3, <1>4, <2>1, <2>2 DEF GoodGens
  <1>6. GenOf(g, t) < GenOf(h, t)
    <2>1. GenOf(h, t) = g.clock + 1
      BY <1>3, <1>4 DEF GenOf
    <2> QED BY <1>1, <2>1, GenIsNumber
  <1>7. ASSUME NEW u \in Tabs PROVE GenOf(g, u) <= GenOf(h, u)
    <2>1. CASE u = t
      <3>1. GenOf(g, t) \in Nat /\ GenOf(h, t) \in Nat
        BY <1>5, GenIsNumber
      <3> QED BY <1>6, <2>1, <3>1
    <2>2. CASE u # t /\ In(u, h.tracked)
      BY <1>1, <1>3, <1>4, <2>2 DEF GenOf
    <2>3. CASE u # t /\ ~In(u, h.tracked)
      <3>1. CASE In(u, g.tracked)
        <4>1. h.evicted = g.clock + 1
          BY <1>3, <1>4, <2>3, <3>1
        <4> QED BY <1>1, <2>3, <3>1, <4>1 DEF GenOf
      <3>2. CASE ~In(u, g.tracked)
        <4>1. g.evicted <= h.evicted
          BY <1>1, <1>4
        <4> QED BY <2>3, <3>2, <4>1 DEF GenOf
      <3> QED BY <3>1, <3>2
    <2> QED BY <2>1, <2>2, <2>3
  <1> QED BY <1>5, <1>6, <1>7

\* The same of several tabs, one after the other
LEMMA AdvanceEachGrows ==
    ASSUME MaxTrackedAssumption, NEW g, GoodGens(g), NEW ids \in Seq(Tabs)
    PROVE  /\ GoodGens(AdvanceEach(g, ids))
           /\ \A u \in Tabs : /\ GenOf(g, u) <= GenOf(AdvanceEach(g, ids), u)
                              /\ In(u, ids) => GenOf(g, u) < GenOf(AdvanceEach(g, ids), u)
  <1> DEFINE G == {h \in [tracked : Seq(Tabs), value : [Tabs -> Nat], clock : Nat,
                          evicted : Nat] : GoodGens(h)}
             F == [p \in G \X Tabs |-> Advance(p[1], p[2])]
             Run(f) == f = [n \in 0 .. Len(ids) |-> IF n = 0 THEN g ELSE Advance(f[n - 1], ids[n])]
             f == CHOOSE f : Run(f)
  <1>0. Len(ids) \in Nat /\ DOMAIN ids = 1 .. Len(ids) /\ \A k \in 1 .. Len(ids) : ids[k] \in Tabs
    OBVIOUS
  <1>10. \A h : GoodGens(h) <=> h \in G
    BY DEF GoodGens
  <1> HIDE DEF G
  <1>1. F \in [G \X Tabs -> G]
    <2>1. ASSUME NEW p \in G, NEW x \in Tabs PROVE Advance(p, x) \in G
      <3> DEFINE h == Advance(p, x)
      <3>1. h = Advance(p, x) /\ GoodGens(p)
        BY <1>10
      <3> HIDE DEF h
      <3>2. GoodGens(h)
        BY <3>1, AdvanceGrows
      <3> QED BY <1>10, <3>2 DEF h
    <2> QED BY <2>1
  <1>2. \E h : Run(h)
    <2>0. g \in G
      BY <1>10
    <2>1. \E h : TypedLoop(h, F, G, g, ids)
      <3> HIDE DEF F
      <3> QED BY <1>1, <2>0, LoopIsTyped
    <2> PICK h : TypedLoop(h, F, G, g, ids)
      BY <2>1
    <2>5. /\ h \in [0 .. Len(ids) -> G] /\ h[0] = g
          /\ \A k \in 1 .. Len(ids) : h[k] = F[<<h[k - 1], ids[k]>>]
      <3> HIDE DEF F
      <3> QED BY DEF TypedLoop
    <2>2. ASSUME NEW k \in 1 .. Len(ids) PROVE h[k] = Advance(h[k - 1], ids[k])
      <3>1. h[k - 1] \in G /\ ids[k] \in Tabs
        <4>1. k - 1 \in 0 .. Len(ids)
          BY <1>0
        <4> QED BY <1>0, <2>5, <4>1
      <3> QED BY <2>5, <3>1
    <2> HIDE DEF F
    <2>3. \A k \in 0 .. Len(ids) : h[k] = IF k = 0 THEN g ELSE Advance(h[k - 1], ids[k])
      BY <1>0, <2>2, <2>5
    <2>4. Run(h)
      BY <2>3, <2>5
    <2> QED BY <2>4
  <1>3. Run(f)
    BY <1>2
  <1>4. AdvanceEach(g, ids) = f[Len(ids)]
    BY DEF AdvanceEach
  <1> HIDE DEF f, F
  <1>5. f[0] = g /\ \A k \in 1 .. Len(ids) : f[k] = Advance(f[k - 1], ids[k])
    <2> DEFINE Body(n) == IF n = 0 THEN g ELSE Advance(f[n - 1], ids[n])
               e == [n \in 0 .. Len(ids) |-> Body(n)]
    <2>1. f = e
      BY <1>3
    <2>2. \A n \in 0 .. Len(ids) : e[n] = Body(n)
      <3> HIDE DEF Body
      <3> QED OBVIOUS
    <2>3. Body(0) = g /\ \A k \in 1 .. Len(ids) : Body(k) = Advance(f[k - 1], ids[k])
      OBVIOUS
    <2>4. 0 \in 0 .. Len(ids) /\ \A k \in 1 .. Len(ids) : k \in 0 .. Len(ids)
      BY <1>0
    <2> HIDE DEF Body, e
    <2> QED BY <2>1, <2>2, <2>3, <2>4
  <1> DEFINE P(k) ==
        /\ GoodGens(f[k])
        /\ \A u \in Tabs : GenOf(g, u) <= GenOf(f[k], u)
        /\ \A u \in Tabs : (\E i \in 1 .. k : ids[i] = u) => GenOf(g, u) < GenOf(f[k], u)
             D == {k \in Nat : P(k)}
  <1>6. 0 \in D
    <2>1. \A u \in Tabs : GenOf(g, u) \in Nat
      BY GenIsNumber
    <2> QED BY <1>5, <2>1
  <1>7. ASSUME NEW k \in 1 .. Len(ids), k - 1 \in D PROVE k \in D
    <2> DEFINE b == f[k - 1]
               c == f[k]
               x == ids[k]
    <2>1. P(k - 1) /\ k \in Nat
      BY <1>7
    <2>2. GoodGens(b) /\ c = Advance(b, x) /\ x \in Tabs
      BY <1>0, <1>5, <2>1
    <2>3. /\ GoodGens(c) /\ GenOf(b, x) < GenOf(c, x)
          /\ \A u \in Tabs : GenOf(b, u) <= GenOf(c, u)
      <3> HIDE DEF b, c, x
      <3> QED BY <2>2, AdvanceGrows
    <2>4. ASSUME NEW u \in Tabs
          PROVE  GenOf(g, u) \in Nat /\ GenOf(b, u) \in Nat /\ GenOf(c, u) \in Nat
      <3> HIDE DEF b, c, x
      <3> QED BY <2>2, <2>3, GenIsNumber
    <2>5. \A u \in Tabs : GenOf(g, u) <= GenOf(b, u)
      BY <2>1
    <2>6. \A u \in Tabs : (\E i \in 1 .. k - 1 : ids[i] = u) => GenOf(g, u) < GenOf(b, u)
      BY <2>1
    <2>7. \A i : i \in 1 .. k <=> i \in 1 .. k - 1 \/ i = k
      OBVIOUS
    <2>8. x = ids[k]
      OBVIOUS
    <2>12. f[k] = c
      OBVIOUS
    <2> HIDE DEF b, c, x
    <2>9. \A u \in Tabs : GenOf(g, u) <= GenOf(c, u)
      BY <2>3, <2>4, <2>5
    <2>10. ASSUME NEW u \in Tabs, \E i \in 1 .. k : ids[i] = u PROVE GenOf(g, u) < GenOf(c, u)
      <3>1. CASE u = x
        BY <2>2, <2>3, <2>4, <2>5, <3>1
      <3>2. CASE \E i \in 1 .. k - 1 : ids[i] = u
        BY <2>3, <2>4, <2>6, <3>2
      <3> QED BY <2>7, <2>8, <2>10, <3>1, <3>2
    <2>11. P(k)
      BY <2>3, <2>9, <2>10, <2>12
    <2> QED BY <2>1, <2>11
  <1>8. Len(ids) \in D
    <2> HIDE DEF D
    <2>1. \A k \in 0 .. Len(ids) : k \in D
      BY <1>0, <1>6, <1>7, UpTo
    <2> QED BY <1>0, <2>1
  <1>9. P(Len(ids))
    BY <1>8
  <1> QED BY <1>0, <1>4, <1>9 DEF In

-----------------------------------------------------------------------------
(***************************************************************************)
(* The activity tracker.                                                   *)
(*                                                                         *)
(* The two halves of its invariant are apart: what is not saved is dirty   *)
(* or in the one write that runs (FlowIsSound), and generations grow       *)
(* whenever a tab becomes dirty, is taken or is written (SeenIsSound).     *)
(***************************************************************************)
\* The sets of tabs, the timer, the two writes and the marks they cover, as a predicate
FlowIsSound(d, f, tm, fl, sh, m, tk, sv) ==
    /\ d \in Seq(Tabs) /\ Once(d) /\ f \in Seq(Tabs) /\ Once(f) /\ tm \in BOOLEAN
    /\ fl \in {"none", "storing", "settling"}
    /\ sh \in {"none", "waiting", "storing", "resolved", "rejected"}
    /\ m \in [Tabs -> Nat] /\ tk \in [Tabs -> Nat] /\ sv \in [Tabs -> Nat]
    /\ fl = "none" /\ sh # "storing" => f = <<>>
    /\ sh \in {"storing", "resolved", "rejected"} => fl = "none"
    /\ sh # "none" => ~tm
    /\ sh = "storing" => d = <<>>
    /\ \A t \in Tabs : sv[t] <= tk[t] /\ tk[t] <= m[t]
    /\ \A t \in Tabs : sv[t] < m[t] =>
          In(t, d) \/ (fl # "settling" /\ In(t, f) /\ tk[t] = m[t])
    /\ sh = "none" /\ d # <<>> => tm \/ fl # "none"
    /\ sh = "resolved" => \A t \in Tabs : sv[t] = m[t]

\* What a reader has seen of a tab, with dirty tabs d and tabs f being written
SeenIsSound(g, sn, d, f) ==
    /\ GoodGens(g)
    /\ sn \in [tab : Tabs, generation : Nat, pending : BOOLEAN, changed : BOOLEAN]
    /\ sn.generation <= GenOf(g, sn.tab)
    /\ sn.changed => sn.generation < GenOf(g, sn.tab)
    /\ ~sn.changed => (sn.pending <=> In(sn.tab, d) \/ In(sn.tab, f))

\* Contains in terms of In
LEMMA ContainsIn ==
    ASSUME NEW S, NEW q \in Seq(S), NEW x
    PROVE  Contains(q, x) <=> In(x, q)
  BY DEF Contains, In

\* The invariant of the tracker in its two parts
LEMMA TrackerParts ==
    ASSUME ActivityIsKept
    PROVE  /\ FlowIsSound(dirty, flushing, timer, flush, shutdown, marks, taken, saved)
           /\ SeenIsSound(gens, seen, dirty, flushing)
           /\ failures \in Nat
  <1>1. /\ dirty \in Seq(Tabs) /\ Once(dirty) /\ flushing \in Seq(Tabs) /\ Once(flushing)
        /\ timer \in BOOLEAN /\ flush \in {"none", "storing", "settling"}
        /\ shutdown \in {"none", "waiting", "storing", "resolved", "rejected"}
        /\ marks \in [Tabs -> Nat] /\ taken \in [Tabs -> Nat] /\ saved \in [Tabs -> Nat]
        /\ failures \in Nat
        /\ gens \in [tracked : Seq(Tabs), value : [Tabs -> Nat], clock : Nat, evicted : Nat]
        /\ Once(gens.tracked) /\ Len(gens.tracked) <= MaxTracked
        /\ seen \in [tab : Tabs, generation : Nat, pending : BOOLEAN, changed : BOOLEAN]
    BY DEF ActivityIsKept, ActivityTypeOK, Once, IsInjective
  <1>2. \A t : (Contains(dirty, t) <=> In(t, dirty)) /\ (Contains(flushing, t) <=> In(t, flushing))
    BY <1>1, ContainsIn
  <1>3. gens.tracked \in Seq(Tabs) /\ seen.tab \in Tabs
    BY <1>1
  <1>4. \A t : Contains(gens.tracked, t) <=> In(t, gens.tracked)
    <2> DEFINE q == gens.tracked
    <2>1. q \in Seq(Tabs)
      BY <1>3
    <2> HIDE DEF q
    <2>2. \A t : Contains(q, t) <=> In(t, q)
      BY <2>1, ContainsIn
    <2> QED BY <2>2 DEF q
  <1>5. FlowIsSound(dirty, flushing, timer, flush, shutdown, marks, taken, saved)
    BY <1>1, <1>2 DEF ActivityIsKept, OneWrite, UnsavedIsTracked, DirtyIsScheduled, Accepting,
                      ShutdownSavesEverything, FlowIsSound
  <1>6. GoodGens(gens)
    BY <1>1 DEF ActivityIsKept, ClockLeads, GoodGens
  <1>7. Generation(seen.tab) = GenOf(gens, seen.tab)
    BY <1>4 DEF Generation, GenOf
  <1>8. Pending(seen.tab) <=> In(seen.tab, dirty) \/ In(seen.tab, flushing)
    BY <1>2 DEF Pending
  <1>9. /\ seen.generation <= Generation(seen.tab)
        /\ seen.changed => seen.generation < Generation(seen.tab)
        /\ ~seen.changed => Pending(seen.tab) = seen.pending
    BY DEF ActivityIsKept, EqualGenerationMeansNoChange
  <1>10. SeenIsSound(gens, seen, dirty, flushing)
    BY <1>1, <1>6, <1>7, <1>8, <1>9 DEF SeenIsSound
  <1> QED BY <1>1, <1>5, <1>10

\* The two parts after a step
LEMMA TrackerAgain ==
    ASSUME FlowIsSound(dirty', flushing', timer', flush', shutdown', marks', taken', saved'),
           SeenIsSound(gens', seen', dirty', flushing'), failures' \in Nat
    PROVE  ActivityIsKept'
  <1>1. /\ dirty' \in Seq(Tabs) /\ flushing' \in Seq(Tabs)
        /\ gens' \in [tracked : Seq(Tabs), value : [Tabs -> Nat], clock : Nat, evicted : Nat]
        /\ Once(gens'.tracked) /\ Len(gens'.tracked) <= MaxTracked
        /\ seen' \in [tab : Tabs, generation : Nat, pending : BOOLEAN, changed : BOOLEAN]
    BY DEF FlowIsSound, SeenIsSound, GoodGens
  <1> DEFINE q == gens'.tracked
             d == dirty'
             f == flushing'
  <1>2. q \in Seq(Tabs) /\ d \in Seq(Tabs) /\ f \in Seq(Tabs) /\ seen'.tab \in Tabs
    BY <1>1
  <1>3. \A t : /\ Contains(q, t) <=> In(t, q)
               /\ Contains(d, t) <=> In(t, d)
               /\ Contains(f, t) <=> In(t, f)
    <2> HIDE DEF q, d, f
    <2> QED BY <1>2, ContainsIn
  <1>4. ActivityTypeOK'
    BY <1>1 DEF FlowIsSound, ActivityTypeOK, Once, IsInjective
  <1>5. ClockLeads'
    BY DEF SeenIsSound, GoodGens, ClockLeads
  <1>6. OneWrite' /\ DirtyIsScheduled' /\ ShutdownSavesEverything'
    BY DEF FlowIsSound, OneWrite, DirtyIsScheduled, Accepting, ShutdownSavesEverything
  <1>7. UnsavedIsTracked'
    BY <1>3 DEF FlowIsSound, UnsavedIsTracked
  <1>8. Generation(seen.tab)' = GenOf(gens', seen'.tab)
    BY <1>3 DEF Generation, GenOf
  <1>9. Pending(seen.tab)' <=> In(seen'.tab, dirty') \/ In(seen'.tab, flushing')
    BY <1>3 DEF Pending
  <1>10. Pending(seen.tab)' \in BOOLEAN /\ seen'.pending \in BOOLEAN
    BY <1>1 DEF Pending, Contains
  <1>11. EqualGenerationMeansNoChange'
    BY <1>8, <1>9, <1>10 DEF SeenIsSound, EqualGenerationMeansNoChange
  <1> QED BY <1>4, <1>5, <1>6, <1>7, <1>11 DEF ActivityIsKept

\* What changes tabs, and with them their generations, leaves no reader in the dark.
LEMMA ChangeIsSeen ==
    ASSUME MaxTrackedAssumption, NEW d, NEW f, SeenIsSound(gens, seen, d, f),
           NEW ids \in Seq(Tabs), Changed(ids), NEW d2, NEW f2,
           \A t \in Tabs : ~In(t, ids) => (In(t, d2) \/ In(t, f2) <=> In(t, d) \/ In(t, f))
    PROVE  SeenIsSound(gens', seen', d2, f2)
  <1> DEFINE h == AdvanceEach(gens, ids)
             u == seen.tab
  <1>1. GoodGens(gens) /\ u \in Tabs
        /\ seen \in [tab : Tabs, generation : Nat, pending : BOOLEAN, changed : BOOLEAN]
    BY DEF SeenIsSound
  <1>2. /\ gens' = h /\ (Contains(ids, u) <=> In(u, ids))
        /\ seen' = [seen EXCEPT !.changed = seen.changed \/ Contains(ids, u)]
    BY ContainsIn DEF Changed
  <1>3. /\ GoodGens(h)
        /\ \A t \in Tabs : /\ GenOf(gens, t) <= GenOf(h, t)
                           /\ In(t, ids) => GenOf(gens, t) < GenOf(h, t)
    BY <1>1, AdvanceEachGrows
  <1> HIDE DEF h, u
  <1>4. GenOf(gens, u) \in Nat /\ GenOf(h, u) \in Nat
    BY <1>1, <1>3, GenIsNumber
  <1>5. /\ GenOf(gens, u) <= GenOf(h, u) /\ (In(u, ids) => GenOf(gens, u) < GenOf(h, u))
    BY <1>1, <1>3
  <1>6. /\ seen'.tab = u /\ seen'.generation = seen.generation /\ seen.generation \in Nat
        /\ seen'.pending = seen.pending /\ (seen'.changed <=> seen.changed \/ In(u, ids))
        /\ seen' \in [tab : Tabs, generation : Nat, pending : BOOLEAN, changed : BOOLEAN]
    <2> DEFINE c == seen.changed \/ Contains(ids, u)
    <2>1. c \in BOOLEAN /\ (c <=> seen.changed \/ In(u, ids)) /\ seen' = [seen EXCEPT !.changed = c]
      BY <1>1, <1>2
    <2> HIDE DEF c
    <2>2. /\ seen'.tab = u /\ seen'.generation = seen.generation /\ seen.generation \in Nat
          /\ seen'.pending = seen.pending /\ seen'.changed = c
          /\ seen' \in [tab : Tabs, generation : Nat, pending : BOOLEAN, changed : BOOLEAN]
      BY <1>1, <2>1 DEF u
    <2> QED BY <2>1, <2>2
  <1>7. /\ seen.generation <= GenOf(gens, u)
        /\ seen.changed => seen.generation < GenOf(gens, u)
        /\ ~seen.changed => (seen.pending <=> In(u, d) \/ In(u, f))
    BY DEF SeenIsSound, u
  <1>8. seen'.generation <= GenOf(h, u)
    BY <1>4, <1>5, <1>6, <1>7
  <1>9. ASSUME seen'.changed PROVE seen'.generation < GenOf(h, u)
    <2>1. CASE seen.changed
      BY <1>4, <1>5, <1>6, <1>7, <2>1
    <2>2. CASE In(u, ids)
      BY <1>4, <1>5, <1>6, <1>7, <2>2
    <2> QED BY <1>6, <1>9, <2>1, <2>2
  <1>10. ASSUME ~seen'.changed PROVE seen'.pending <=> In(u, d2) \/ In(u, f2)
    BY <1>1, <1>6, <1>7, <1>10
  <1> QED BY <1>2, <1>3, <1>6, <1>8, <1>9, <1>10 DEF SeenIsSound

\* A step that changes no generation and no tab's being pending
LEMMA NothingToSee ==
    ASSUME NEW d, NEW f, SeenIsSound(gens, seen, d, f), UNCHANGED <<gens, seen>>, NEW d2, NEW f2,
           \A t \in Tabs : In(t, d2) \/ In(t, f2) <=> In(t, d) \/ In(t, f)
    PROVE  SeenIsSound(gens', seen', d2, f2)
  <1>1. seen.tab \in Tabs
    BY DEF SeenIsSound
  <1> QED BY <1>1 DEF SeenIsSound

\* mark
LEMMA MarkKeeps ==
    ASSUME MaxTrackedAssumption, ActivityIsKept, NEW t \in Tabs, Mark(t)
    PROVE  ActivityIsKept'
  <1>1. /\ FlowIsSound(dirty, flushing, timer, flush, shutdown, marks, taken, saved)
        /\ SeenIsSound(gens, seen, dirty, flushing) /\ failures \in Nat
    BY TrackerParts
  <1>2. dirty \in Seq(Tabs) /\ Once(dirty)
    BY <1>1 DEF FlowIsSound
  <1>3. /\ shutdown = "none" /\ dirty' = Add(dirty, t) /\ Changed(<<t>>)
        /\ timer' = (timer \/ (shutdown = "none" /\ flush = "none" /\ dirty' # <<>>))
        /\ marks' = [marks EXCEPT ![t] = marks[t] + 1]
        /\ flushing' = flushing /\ flush' = flush /\ shutdown' = shutdown /\ taken' = taken
        /\ saved' = saved /\ failures' = failures
    BY DEF Mark, Accepting, Scheduled
  <1>4. /\ dirty' \in Seq(Tabs) /\ Once(dirty')
        /\ \A y : In(y, dirty') <=> In(y, dirty) \/ y = t
    BY <1>2, <1>3, Adds
  <1>5. <<t>> \in Seq(Tabs) /\ \A y : In(y, <<t>>) <=> y = t
    BY DEF In
  <1>6. SeenIsSound(gens', seen', dirty', flushing')
    <2> DEFINE ids == <<t>>
    <2>1. ids \in Seq(Tabs) /\ Changed(ids) /\ \A y : In(y, ids) <=> y = t
      BY <1>3, <1>5
    <2> HIDE DEF ids
    <2>2. \A u \in Tabs : ~In(u, ids) =>
              (In(u, dirty') \/ In(u, flushing') <=> In(u, dirty) \/ In(u, flushing))
      BY <1>3, <1>4, <2>1
    <2> QED BY <1>1, <2>1, <2>2, ChangeIsSeen
  <1>7. /\ marks' \in [Tabs -> Nat] /\ marks'[t] = marks[t] + 1
        /\ \A u \in Tabs : u # t => marks'[u] = marks[u]
    <2>1. marks \in [Tabs -> Nat]
      BY <1>1 DEF FlowIsSound
    <2> QED BY <1>3, <2>1
  <1>8. timer' \in BOOLEAN /\ (timer' <=> timer \/ (flush = "none" /\ dirty' # <<>>))
    BY <1>1, <1>3 DEF FlowIsSound
  <1>9. \A u \in Tabs : saved'[u] <= taken'[u] /\ taken'[u] <= marks'[u]
    BY <1>1, <1>3, <1>7 DEF FlowIsSound
  <1>10. ASSUME NEW u \in Tabs, saved'[u] < marks'[u]
         PROVE  In(u, dirty') \/ (flush' # "settling" /\ In(u, flushing') /\ taken'[u] = marks'[u])
    <2>1. CASE u = t
      BY <1>4, <2>1
    <2>2. CASE u # t
      BY <1>1, <1>3, <1>4, <1>7, <1>10, <2>2 DEF FlowIsSound
    <2> QED BY <2>1, <2>2
  <1>11. FlowIsSound(dirty', flushing', timer', flush', shutdown', marks', taken', saved')
    BY <1>1, <1>3, <1>4, <1>7, <1>8, <1>9, <1>10 DEF FlowIsSound
  <1> QED BY <1>1, <1>3, <1>6, <1>11, TrackerAgain

\* takeDirtySnapshot, once no write has taken tabs
LEMMA TakeDirtyMoves ==
    ASSUME MaxTrackedAssumption, ActivityIsKept, flushing = <<>>, TakeDirty
    PROVE  /\ dirty' = <<>> /\ flushing' \in Seq(Tabs) /\ Once(flushing')
           /\ \A t : In(t, flushing') <=> In(t, dirty)
           /\ taken' \in [Tabs -> Nat]
           /\ \A t \in Tabs : taken'[t] = IF In(t, dirty) THEN marks[t] ELSE taken[t]
           /\ SeenIsSound(gens', seen', dirty', flushing')
  <1>1. /\ FlowIsSound(dirty, flushing, timer, flush, shutdown, marks, taken, saved)
        /\ SeenIsSound(gens, seen, dirty, flushing)
    BY TrackerParts
  <1>2. /\ dirty \in Seq(Tabs) /\ Once(dirty) /\ flushing \in Seq(Tabs) /\ Once(flushing)
        /\ marks \in [Tabs -> Nat] /\ taken \in [Tabs -> Nat]
    BY <1>1 DEF FlowIsSound
  <1>3. /\ dirty' = <<>> /\ flushing' = AddAll(flushing, dirty) /\ Changed(dirty)
        /\ taken' = [t \in Tabs |-> IF Contains(dirty, t) THEN marks[t] ELSE taken[t]]
    BY DEF TakeDirty
  <1>4. /\ flushing' \in Seq(Tabs) /\ Once(flushing')
        /\ \A y : In(y, flushing') <=> In(y, flushing) \/ In(y, dirty)
    BY <1>2, <1>3, AddsAll
  <1>5. \A y : ~In(y, flushing) /\ ~In(y, dirty')
    BY <1>3 DEF In
  <1>6. \A y : Contains(dirty, y) <=> In(y, dirty)
    BY <1>2, ContainsIn
  <1>7. /\ taken' \in [Tabs -> Nat]
        /\ \A t \in Tabs : taken'[t] = IF In(t, dirty) THEN marks[t] ELSE taken[t]
    BY <1>2, <1>3, <1>6
  <1>8. SeenIsSound(gens', seen', dirty', flushing')
    <2>1. \A u \in Tabs : ~In(u, dirty) =>
              (In(u, dirty') \/ In(u, flushing') <=> In(u, dirty) \/ In(u, flushing))
      BY <1>4, <1>5
    <2> QED BY <1>1, <1>2, <1>3, <2>1, ChangeIsSeen
  <1> QED BY <1>3, <1>4, <1>5, <1>7, <1>8

\* A write that has taken the dirty tabs covers every mark that is not saved.
LEMMA WriteCovers ==
    ASSUME MaxTrackedAssumption, ActivityIsKept, flushing = <<>>, TakeDirty, UNCHANGED <<marks, saved>>
    PROVE  /\ \A t \in Tabs : saved'[t] <= taken'[t] /\ taken'[t] <= marks'[t]
           /\ \A t \in Tabs : saved'[t] < marks'[t] => In(t, flushing') /\ taken'[t] = marks'[t]
  <1>1. FlowIsSound(dirty, flushing, timer, flush, shutdown, marks, taken, saved)
    BY TrackerParts
  <1>2. /\ \A t : In(t, flushing') <=> In(t, dirty)
        /\ \A t \in Tabs : taken'[t] = IF In(t, dirty) THEN marks[t] ELSE taken[t]
    BY TakeDirtyMoves
  <1>3. \A y : ~In(y, flushing)
    BY DEF In
  <1>4. marks \in [Tabs -> Nat] /\ taken \in [Tabs -> Nat] /\ saved \in [Tabs -> Nat]
    BY <1>1 DEF FlowIsSound
  <1>5. ASSUME NEW t \in Tabs
        PROVE  /\ saved[t] <= taken[t] /\ taken[t] <= marks[t]
               /\ saved[t] < marks[t] => In(t, dirty)
    BY <1>1, <1>3 DEF FlowIsSound
  <1>6. ASSUME NEW t \in Tabs
        PROVE  /\ saved'[t] <= taken'[t] /\ taken'[t] <= marks'[t]
               /\ saved'[t] < marks'[t] => In(t, flushing') /\ taken'[t] = marks'[t]
    <2>1. marks[t] \in Nat /\ taken[t] \in Nat /\ saved[t] \in Nat
      BY <1>4
    <2> QED BY <1>2, <1>5, <2>1
  <1> QED BY <1>6

\* The timer fires.
LEMMA FireTimerKeeps ==
    ASSUME MaxTrackedAssumption, ActivityIsKept, FireTimer
    PROVE  ActivityIsKept'
  <1>1. /\ FlowIsSound(dirty, flushing, timer, flush, shutdown, marks, taken, saved)
        /\ SeenIsSound(gens, seen, dirty, flushing) /\ failures \in Nat
    BY TrackerParts
  <1>2. /\ timer /\ timer' = FALSE /\ shutdown' = shutdown /\ marks' = marks /\ saved' = saved
        /\ failures' = failures
    BY DEF FireTimer
  <1>3. CASE flush = "none" /\ dirty # <<>>
    <2>1. TakeDirty /\ flush' = "storing"
      BY <1>3 DEF FireTimer
    <2>2. flushing = <<>> /\ shutdown \in {"none", "waiting"}
      BY <1>1, <1>2, <1>3 DEF FlowIsSound
    <2>3. /\ dirty' = <<>> /\ flushing' \in Seq(Tabs) /\ Once(flushing')
          /\ taken' \in [Tabs -> Nat] /\ SeenIsSound(gens', seen', dirty', flushing')
      BY <2>1, <2>2, TakeDirtyMoves
    <2>4. /\ \A t \in Tabs : saved'[t] <= taken'[t] /\ taken'[t] <= marks'[t]
          /\ \A t \in Tabs : saved'[t] < marks'[t] => In(t, flushing') /\ taken'[t] = marks'[t]
      BY <1>2, <2>1, <2>2, WriteCovers
    <2>5. dirty' \in Seq(Tabs) /\ Once(dirty')
      BY <2>3 DEF Once
    <2>6. FlowIsSound(dirty', flushing', timer', flush', shutdown', marks', taken', saved')
      BY <1>1, <1>2, <2>1, <2>2, <2>3, <2>4, <2>5 DEF FlowIsSound
    <2> QED BY <1>1, <1>2, <2>3, <2>6, TrackerAgain
  <1>4. CASE ~(flush = "none" /\ dirty # <<>>)
    <2>1. UNCHANGED <<dirty, flushing, gens, seen, taken, flush>>
      BY <1>4 DEF FireTimer
    <2>2. FlowIsSound(dirty', flushing', timer', flush', shutdown', marks', taken', saved')
      BY <1>1, <1>2, <1>4, <2>1 DEF FlowIsSound
    <2>3. SeenIsSound(gens', seen', dirty', flushing')
      BY <1>1, <2>1
    <2> QED BY <1>1, <1>2, <2>2, <2>3, TrackerAgain
  <1> QED BY <1>3, <1>4

\* A write fails: its tabs are dirty again.
LEMMA FailMoves ==
    ASSUME ActivityIsKept, Fail(flushing)
    PROVE  /\ failures' \in Nat /\ saved' = saved /\ dirty' \in Seq(Tabs) /\ Once(dirty')
           /\ \A y : In(y, dirty') <=> In(y, dirty) \/ In(y, flushing)
  <1>1. /\ FlowIsSound(dirty, flushing, timer, flush, shutdown, marks, taken, saved)
        /\ failures \in Nat
    BY TrackerParts
  <1>2. dirty \in Seq(Tabs) /\ Once(dirty) /\ flushing \in Seq(Tabs)
    BY <1>1 DEF FlowIsSound
  <1>3. dirty' = AddAll(dirty, flushing) /\ saved' = saved /\ failures' = failures + 1
    BY DEF Fail
  <1>4. /\ dirty' \in Seq(Tabs) /\ Once(dirty')
        /\ \A y : In(y, dirty') <=> In(y, dirty) \/ In(y, flushing)
    BY <1>2, <1>3, AddsAll
  <1> QED BY <1>1, <1>3, <1>4

\* A write succeeds: what it has taken is saved, and what came later is dirty.
LEMMA SaveMoves ==
    ASSUME ActivityIsKept, Save(flushing), flush # "settling"
    PROVE  /\ failures' \in Nat /\ dirty' = dirty /\ saved' \in [Tabs -> Nat]
           /\ \A t \in Tabs : saved'[t] <= taken[t]
           /\ \A t \in Tabs : saved'[t] < marks[t] => In(t, dirty)
  <1>1. /\ FlowIsSound(dirty, flushing, timer, flush, shutdown, marks, taken, saved)
        /\ failures \in Nat
    BY TrackerParts
  <1>2. /\ flushing \in Seq(Tabs) /\ taken \in [Tabs -> Nat] /\ saved \in [Tabs -> Nat]
        /\ marks \in [Tabs -> Nat]
    BY <1>1 DEF FlowIsSound
  <1>3. \A y : Contains(flushing, y) <=> In(y, flushing)
    BY <1>2, ContainsIn
  <1>4. /\ dirty' = dirty /\ failures' = failures
        /\ saved' = [t \in Tabs |-> IF Contains(flushing, t) THEN taken[t] ELSE saved[t]]
    BY DEF Save
  <1>5. /\ saved' \in [Tabs -> Nat]
        /\ \A t \in Tabs : saved'[t] = IF In(t, flushing) THEN taken[t] ELSE saved[t]
    BY <1>2, <1>3, <1>4
  <1>6. ASSUME NEW t \in Tabs
        PROVE  saved'[t] <= taken[t] /\ (saved'[t] < marks[t] => In(t, dirty))
    <2>1. taken[t] \in Nat /\ saved[t] \in Nat /\ marks[t] \in Nat
      BY <1>2
    <2>2. /\ saved[t] <= taken[t]
          /\ saved[t] < marks[t] => In(t, dirty) \/ (In(t, flushing) /\ taken[t] = marks[t])
      BY <1>1 DEF FlowIsSound
    <2> QED BY <1>5, <2>1, <2>2
  <1> QED BY <1>1, <1>4, <1>5, <1>6

\* The store has answered the periodic write.
LEMMA StoredKeeps ==
    ASSUME ActivityIsKept, Stored
    PROVE  ActivityIsKept'
  <1>1. /\ FlowIsSound(dirty, flushing, timer, flush, shutdown, marks, taken, saved)
        /\ SeenIsSound(gens, seen, dirty, flushing) /\ failures \in Nat
    BY TrackerParts
  <1>2. /\ flush = "storing" /\ flush' = "settling" /\ (Save(flushing) \/ Fail(flushing))
        /\ flushing' = flushing /\ timer' = timer /\ shutdown' = shutdown /\ gens' = gens
        /\ marks' = marks /\ taken' = taken /\ seen' = seen
    BY DEF Stored
  <1>3. shutdown \in {"none", "waiting"}
    BY <1>1, <1>2 DEF FlowIsSound
  <1>4. CASE Save(flushing)
    <2>1. /\ failures' \in Nat /\ dirty' = dirty /\ saved' \in [Tabs -> Nat]
          /\ \A t \in Tabs : saved'[t] <= taken[t]
          /\ \A t \in Tabs : saved'[t] < marks[t] => In(t, dirty)
      BY <1>2, <1>4, SaveMoves
    <2>2. FlowIsSound(dirty', flushing', timer', flush', shutdown', marks', taken', saved')
      BY <1>1, <1>2, <1>3, <2>1 DEF FlowIsSound
    <2>3. SeenIsSound(gens', seen', dirty', flushing')
      BY <1>1, <1>2, <2>1
    <2> QED BY <2>1, <2>2, <2>3, TrackerAgain
  <1>5. CASE Fail(flushing)
    <2>1. /\ failures' \in Nat /\ saved' = saved /\ dirty' \in Seq(Tabs) /\ Once(dirty')
          /\ \A y : In(y, dirty') <=> In(y, dirty) \/ In(y, flushing)
      BY <1>5, FailMoves
    <2>2. FlowIsSound(dirty', flushing', timer', flush', shutdown', marks', taken', saved')
      BY <1>1, <1>2, <1>3, <2>1 DEF FlowIsSound
    <2>3. SeenIsSound(gens', seen', dirty', flushing')
      BY <1>1, <1>2, <2>1, NothingToSee
    <2> QED BY <2>1, <2>2, <2>3, TrackerAgain
  <1> QED BY <1>2, <1>4, <1>5

\* The tabs of a write leave the set of those being written.
LEMMA WriteLeaves ==
    ASSUME MaxTrackedAssumption, ActivityIsKept, Changed(flushing), flushing' = <<>>,
           \A y : In(y, dirty') => In(y, dirty) \/ In(y, flushing),
           \A y : In(y, dirty) => In(y, dirty')
    PROVE  SeenIsSound(gens', seen', dirty', flushing')
  <1>1. SeenIsSound(gens, seen, dirty, flushing) /\ flushing \in Seq(Tabs)
    BY TrackerParts DEF FlowIsSound
  <1>2. \A y : ~In(y, flushing')
    BY DEF In
  <1>3. \A u \in Tabs : ~In(u, flushing) =>
            (In(u, dirty') \/ In(u, flushing') <=> In(u, dirty) \/ In(u, flushing))
    BY <1>2
  <1> QED BY <1>1, <1>3, ChangeIsSeen

\* The finally handler of the periodic write
LEMMA FlushSettledKeeps ==
    ASSUME MaxTrackedAssumption, ActivityIsKept, FlushSettled
    PROVE  ActivityIsKept'
  <1>1. /\ FlowIsSound(dirty, flushing, timer, flush, shutdown, marks, taken, saved)
        /\ failures \in Nat
    BY TrackerParts
  <1>2. /\ flush = "settling" /\ flush' = "none" /\ flushing' = <<>> /\ Changed(flushing)
        /\ dirty' = dirty /\ shutdown' = shutdown /\ marks' = marks /\ taken' = taken
        /\ saved' = saved /\ failures' = failures
    BY DEF FlushSettled
  <1>3. timer' \in BOOLEAN /\ (timer' <=> timer \/ (shutdown = "none" /\ dirty # <<>>))
    BY <1>1 DEF FlushSettled, Scheduled, Accepting, FlowIsSound
  <1>4. flushing' \in Seq(Tabs) /\ Once(flushing')
    BY <1>2 DEF Once
  <1>5. FlowIsSound(dirty', flushing', timer', flush', shutdown', marks', taken', saved')
    BY <1>1, <1>2, <1>3, <1>4 DEF FlowIsSound
  <1>6. SeenIsSound(gens', seen', dirty', flushing')
    BY <1>2, WriteLeaves
  <1> QED BY <1>1, <1>2, <1>5, <1>6, TrackerAgain

\* The shutdown has waited for the periodic write and takes what is left.
LEMMA FinishShutdownKeeps ==
    ASSUME MaxTrackedAssumption, ActivityIsKept, shutdown \in {"none", "waiting"}, flush = "none",
           FinishShutdown, UNCHANGED <<flush, marks, saved, failures>>, timer' \in BOOLEAN, ~timer'
    PROVE  ActivityIsKept'
  <1>1. /\ FlowIsSound(dirty, flushing, timer, flush, shutdown, marks, taken, saved)
        /\ SeenIsSound(gens, seen, dirty, flushing) /\ failures \in Nat
    BY TrackerParts
  <1>2. flushing = <<>> /\ \A y : ~In(y, flushing)
    BY <1>1 DEF FlowIsSound, In
  <1>3. CASE dirty = <<>> /\ shutdown' = "resolved" /\ UNCHANGED <<dirty, flushing, gens, seen, taken>>
    <2>1. \A y : ~In(y, dirty)
      BY <1>3 DEF In
    <2>2. ASSUME NEW t \in Tabs PROVE saved[t] = marks[t]
      <3>1. /\ saved[t] \in Nat /\ marks[t] \in Nat /\ taken[t] \in Nat
            /\ saved[t] <= taken[t] /\ taken[t] <= marks[t] /\ ~(saved[t] < marks[t])
        BY <1>1, <1>2, <2>1 DEF FlowIsSound
      <3> QED BY <3>1
    <2>3. FlowIsSound(dirty', flushing', timer', flush', shutdown', marks', taken', saved')
      BY <1>1, <1>2, <1>3, <2>2 DEF FlowIsSound
    <2>4. SeenIsSound(gens', seen', dirty', flushing')
      BY <1>1, <1>3
    <2> QED BY <1>1, <2>3, <2>4, TrackerAgain
  <1>4. CASE dirty # <<>> /\ TakeDirty /\ shutdown' = "storing"
    <2>1. /\ dirty' = <<>> /\ flushing' \in Seq(Tabs) /\ Once(flushing')
          /\ taken' \in [Tabs -> Nat] /\ SeenIsSound(gens', seen', dirty', flushing')
      BY <1>2, <1>4, TakeDirtyMoves
    <2>2. /\ \A t \in Tabs : saved'[t] <= taken'[t] /\ taken'[t] <= marks'[t]
          /\ \A t \in Tabs : saved'[t] < marks'[t] => In(t, flushing') /\ taken'[t] = marks'[t]
      BY <1>2, <1>4, WriteCovers
    <2>3. dirty' \in Seq(Tabs) /\ Once(dirty')
      BY <2>1 DEF Once
    <2>4. FlowIsSound(dirty', flushing', timer', flush', shutdown', marks', taken', saved')
      BY <1>1, <1>4, <2>1, <2>2, <2>3 DEF FlowIsSound
    <2> QED BY <1>1, <2>1, <2>4, TrackerAgain
  <1> QED BY <1>3, <1>4 DEF FinishShutdown

\* shutdown is called.
LEMMA BeginShutdownKeeps ==
    ASSUME MaxTrackedAssumption, ActivityIsKept, BeginShutdown
    PROVE  ActivityIsKept'
  <1>1. /\ FlowIsSound(dirty, flushing, timer, flush, shutdown, marks, taken, saved)
        /\ SeenIsSound(gens, seen, dirty, flushing) /\ failures \in Nat
    BY TrackerParts
  <1>2. /\ shutdown = "none" /\ timer' = FALSE /\ UNCHANGED <<flush, marks, saved, failures>>
    BY DEF BeginShutdown
  <1>3. CASE flush = "none" /\ FinishShutdown
    BY <1>2, <1>3, FinishShutdownKeeps
  <1>4. CASE flush # "none" /\ shutdown' = "waiting" /\ UNCHANGED <<dirty, flushing, gens, seen, taken>>
    <2>1. FlowIsSound(dirty', flushing', timer', flush', shutdown', marks', taken', saved')
      BY <1>1, <1>2, <1>4 DEF FlowIsSound
    <2>2. SeenIsSound(gens', seen', dirty', flushing')
      BY <1>1, <1>4
    <2> QED BY <1>1, <1>2, <2>1, <2>2, TrackerAgain
  <1> QED BY <1>3, <1>4 DEF BeginShutdown

\* The shutdown goes on once the periodic write has settled.
LEMMA ContinueShutdownKeeps ==
    ASSUME MaxTrackedAssumption, ActivityIsKept, ContinueShutdown
    PROVE  ActivityIsKept'
  <1>1. FlowIsSound(dirty, flushing, timer, flush, shutdown, marks, taken, saved)
    BY TrackerParts
  <1>2. /\ shutdown = "waiting" /\ flush = "none" /\ FinishShutdown
        /\ UNCHANGED <<timer, flush, marks, saved, failures>>
    BY DEF ContinueShutdown
  <1>3. timer' \in BOOLEAN /\ ~timer'
    BY <1>1, <1>2 DEF FlowIsSound
  <1> QED BY <1>2, <1>3, FinishShutdownKeeps

\* The last write settles.
LEMMA ShutdownStoredKeeps ==
    ASSUME MaxTrackedAssumption, ActivityIsKept, ShutdownStored
    PROVE  ActivityIsKept'
  <1>1. FlowIsSound(dirty, flushing, timer, flush, shutdown, marks, taken, saved)
    BY TrackerParts
  <1>2. /\ shutdown = "storing" /\ flushing' = <<>> /\ Changed(flushing)
        /\ timer' = timer /\ flush' = flush /\ marks' = marks /\ taken' = taken
    BY DEF ShutdownStored
  <1>3. flush = "none" /\ ~timer /\ dirty = <<>> /\ \A y : ~In(y, dirty)
    BY <1>1, <1>2 DEF FlowIsSound, In
  <1>4. flushing' \in Seq(Tabs) /\ Once(flushing')
    BY <1>2 DEF Once
  <1>5. CASE Save(flushing) /\ shutdown' = "resolved"
    <2>1. /\ failures' \in Nat /\ dirty' = dirty /\ saved' \in [Tabs -> Nat]
          /\ \A t \in Tabs : saved'[t] <= taken[t]
          /\ \A t \in Tabs : saved'[t] < marks[t] => In(t, dirty)
      BY <1>3, <1>5, SaveMoves
    <2>2. ASSUME NEW t \in Tabs PROVE saved'[t] = marks[t]
      <3>1. /\ saved'[t] \in Nat /\ marks[t] \in Nat /\ taken[t] \in Nat
            /\ saved'[t] <= taken[t] /\ taken[t] <= marks[t] /\ ~(saved'[t] < marks[t])
        BY <1>1, <1>3, <2>1 DEF FlowIsSound
      <3> QED BY <3>1
    <2>3. FlowIsSound(dirty', flushing', timer', flush', shutdown', marks', taken', saved')
      BY <1>1, <1>2, <1>3, <1>4, <1>5, <2>1, <2>2 DEF FlowIsSound
    <2>4. SeenIsSound(gens', seen', dirty', flushing')
      BY <1>2, <2>1, WriteLeaves
    <2> QED BY <2>1, <2>3, <2>4, TrackerAgain
  <1>6. CASE Fail(flushing) /\ shutdown' = "rejected"
    <2>1. /\ failures' \in Nat /\ saved' = saved /\ dirty' \in Seq(Tabs) /\ Once(dirty')
          /\ \A y : In(y, dirty') <=> In(y, dirty) \/ In(y, flushing)
      BY <1>6, FailMoves
    <2>2. FlowIsSound(dirty', flushing', timer', flush', shutdown', marks', taken', saved')
      BY <1>1, <1>2, <1>3, <1>4, <1>6, <2>1 DEF FlowIsSound
    <2>3. SeenIsSound(gens', seen', dirty', flushing')
      BY <1>2, <2>1, WriteLeaves
    <2> QED BY <2>1, <2>2, <2>3, TrackerAgain
  <1> QED BY <1>5, <1>6 DEF ShutdownStored

\* A reader takes a snapshot.
LEMMA LookKeeps ==
    ASSUME ActivityIsKept, NEW t \in Tabs, Look(t)
    PROVE  ActivityIsKept'
  <1>1. /\ FlowIsSound(dirty, flushing, timer, flush, shutdown, marks, taken, saved)
        /\ SeenIsSound(gens, seen, dirty, flushing) /\ failures \in Nat
    BY TrackerParts
  <1>2. /\ dirty' = dirty /\ flushing' = flushing /\ timer' = timer /\ flush' = flush
        /\ shutdown' = shutdown /\ gens' = gens /\ marks' = marks /\ taken' = taken
        /\ saved' = saved /\ failures' = failures
        /\ seen' = [tab |-> t, generation |-> Generation(t), pending |-> Pending(t),
                    changed |-> FALSE]
    BY DEF Look
  <1>3. dirty \in Seq(Tabs) /\ flushing \in Seq(Tabs) /\ GoodGens(gens) /\ gens.tracked \in Seq(Tabs)
    BY <1>1 DEF FlowIsSound, SeenIsSound, GoodGens
  <1> DEFINE q == gens.tracked
  <1>4. /\ Contains(dirty, t) <=> In(t, dirty)
        /\ Contains(flushing, t) <=> In(t, flushing)
        /\ Contains(q, t) <=> In(t, q)
    <2>1. q \in Seq(Tabs)
      BY <1>3
    <2> HIDE DEF q
    <2> QED BY <1>3, <2>1, ContainsIn
  <1>5. Generation(t) = GenOf(gens, t) /\ GenOf(gens, t) \in Nat
    BY <1>3, <1>4, GenIsNumber DEF Generation, GenOf
  <1>6. Pending(t) \in BOOLEAN /\ (Pending(t) <=> In(t, dirty) \/ In(t, flushing))
    BY <1>4 DEF Pending, Contains
  <1> DEFINE gen == Generation(t)
             pen == Pending(t)
  <1>7. /\ seen' = [tab |-> t, generation |-> gen, pending |-> pen, changed |-> FALSE]
        /\ gen = GenOf(gens, t) /\ gen \in Nat
        /\ pen \in BOOLEAN /\ (pen <=> In(t, dirty) \/ In(t, flushing))
    BY <1>2, <1>5, <1>6
  <1> HIDE DEF gen, pen
  <1>8. /\ seen' \in [tab : Tabs, generation : Nat, pending : BOOLEAN, changed : BOOLEAN]
        /\ seen'.tab = t /\ seen'.generation = gen /\ seen'.pending = pen /\ ~seen'.changed
    BY <1>7
  <1>9. SeenIsSound(gens', seen', dirty', flushing')
    BY <1>2, <1>3, <1>7, <1>8 DEF SeenIsSound
  <1>10. FlowIsSound(dirty', flushing', timer', flush', shutdown', marks', taken', saved')
    BY <1>1, <1>2
  <1> QED BY <1>1, <1>2, <1>9, <1>10, TrackerAgain

\* The tracker starts with nothing.
LEMMA TrackerStarts ==
    ASSUME MaxTrackedAssumption, ActivityInit
    PROVE  ActivityIsKept
  <1>1. /\ dirty = <<>> /\ flushing = <<>> /\ timer = FALSE /\ flush = "none" /\ shutdown = "none"
        /\ gens = [tracked |-> <<>>, value |-> Zero, clock |-> 0, evicted |-> 0]
        /\ marks = Zero /\ taken = Zero /\ saved = Zero /\ failures = 0
        /\ seen \in [tab : Tabs, generation : {0}, pending : {FALSE}, changed : {FALSE}]
    BY DEF ActivityInit
  <1>2. Zero \in [Tabs -> Nat] /\ \A t \in Tabs : Zero[t] = 0
    BY DEF Zero
  <1>3. /\ gens.tracked = <<>> /\ gens.clock = 0 /\ gens.evicted = 0 /\ gens.value = Zero
        /\ gens \in [tracked : Seq(Tabs), value : [Tabs -> Nat], clock : Nat, evicted : Nat]
    BY <1>1, <1>2
  <1>4. \A x : ~Contains(<<>>, x)
    BY DEF Contains
  <1>5. ActivityTypeOK
    <2>1. /\ seen \in [tab : Tabs, generation : Nat, pending : BOOLEAN, changed : BOOLEAN]
          /\ timer \in BOOLEAN
      <3>1. {0} \subseteq Nat /\ {FALSE} \subseteq BOOLEAN
        OBVIOUS
      <3> DEFINE Z == {0}
                 N == {FALSE}
                 B == BOOLEAN
      <3>2. /\ Z \subseteq Nat /\ N \subseteq B
            /\ seen \in [tab : Tabs, generation : Z, pending : N, changed : N]
        BY <1>1, <3>1
      <3>3. timer \in BOOLEAN
        BY <1>1
      <3> HIDE DEF Z, N, B
      <3>4. seen \in [tab : Tabs, generation : Nat, pending : B, changed : B]
        BY <3>2
      <3> QED BY <3>3, <3>4 DEF B
    <2>2. /\ dirty \in Seq(Tabs) /\ IsInjective(dirty) /\ flushing \in Seq(Tabs)
          /\ IsInjective(flushing) /\ IsInjective(gens.tracked)
      BY <1>1, <1>3 DEF IsInjective
    <2>3. Len(gens.tracked) <= MaxTracked
      BY <1>3 DEF MaxTrackedAssumption
    <2> QED BY <1>1, <1>2, <1>3, <2>1, <2>2, <2>3 DEF ActivityTypeOK
  <1>6. ClockLeads /\ OneWrite /\ DirtyIsScheduled /\ ShutdownSavesEverything /\ UnsavedIsTracked
    BY <1>1, <1>2, <1>3 DEF ClockLeads, OneWrite, DirtyIsScheduled, ShutdownSavesEverything,
                            UnsavedIsTracked
  <1>7. EqualGenerationMeansNoChange
    <2>1. seen.generation = 0 /\ seen.pending = FALSE /\ seen.changed = FALSE
      BY <1>1
    <2>2. Generation(seen.tab) = 0
      BY <1>3, <1>4 DEF Generation
    <2>3. Pending(seen.tab) = FALSE
      BY <1>1, <1>4 DEF Pending
    <2>4. seen.generation <= Generation(seen.tab)
      BY <2>1, <2>2
    <2> QED BY <2>1, <2>3, <2>4, Zenon DEF EqualGenerationMeansNoChange
  <1> QED BY <1>5, <1>6, <1>7 DEF ActivityIsKept

\* The tracker loses no activity: whatever is not saved is dirty or in the running
\* write, and a timer or a write takes care of it; a shutdown that resolves has saved
\* every mark it accepted.  A reader of cleanupSnapshot who sees the same generation
\* twice may conclude that the tab was not used, although the map forgets tabs.  This
\* holds for any tabs, any capacity of the map and any number of marks and failures.
THEOREM ActivityStaysKept ==
    ASSUME MaxTrackedAssumption
    PROVE  ActivitySpec => []ActivityIsKept
  <1>1. ActivityInit => ActivityIsKept
    BY TrackerStarts
  <1>2. ActivityIsKept /\ [ActivityNext]_activityVars => ActivityIsKept'
    <2> SUFFICES ASSUME ActivityIsKept, [ActivityNext]_activityVars PROVE ActivityIsKept'
      OBVIOUS
    <2>1. ASSUME NEW t \in Tabs, Mark(t) PROVE ActivityIsKept'
      BY <2>1, MarkKeeps
    <2>2. ASSUME NEW t \in Tabs, Look(t) PROVE ActivityIsKept'
      BY <2>2, LookKeeps
    <2>3. CASE FireTimer
      BY <2>3, FireTimerKeeps
    <2>4. CASE Stored
      BY <2>4, StoredKeeps
    <2>5. CASE FlushSettled
      BY <2>5, FlushSettledKeeps
    <2>6. CASE BeginShutdown
      BY <2>6, BeginShutdownKeeps
    <2>7. CASE ContinueShutdown
      BY <2>7, ContinueShutdownKeeps
    <2>8. CASE ShutdownStored
      BY <2>8, ShutdownStoredKeeps
    <2>9. CASE UNCHANGED activityVars
      BY <2>9 DEF activityVars, ActivityIsKept, ActivityTypeOK, ClockLeads, OneWrite,
                  UnsavedIsTracked, DirtyIsScheduled, ShutdownSavesEverything,
                  EqualGenerationMeansNoChange, Generation, Pending, Accepting
    <2> QED BY <2>1, <2>2, <2>3, <2>4, <2>5, <2>6, <2>7, <2>8, <2>9
            DEF ActivityNext, FlushStep, ShutdownStep
  <1> QED BY <1>1, <1>2, PTL DEF ActivitySpec

-----------------------------------------------------------------------------
(***************************************************************************)
(* The authentication index of the WebSocket server.                       *)
(*                                                                         *)
(* Its invariant has three parts: the maps describe the same registrations *)
(* (Registered), generations grow with every registration that comes or    *)
(* goes, in whatever order several go (Reads), and every open socket is    *)
(* registered and may be open (StatesFit).  An end of a session or of the  *)
(* server cuts off the sockets for which the third part would fail.        *)
(***************************************************************************)
\* The generations of the index, as a predicate, and that of a tab
GoodCleanup(g) ==
    /\ g \in [order : Seq(SocketTabs), generation : [SocketTabs -> Nat], evicted : Nat]
    /\ Once(g.order) /\ Len(g.order) <= MaxGenerations
CleanOf(g, t) == IF In(t, g.order) THEN g.generation[t] ELSE g.evicted

\* It is the one of cleanupSnapshot, and a number.
LEMMA CleanIsNumber ==
    ASSUME NEW g, GoodCleanup(g), NEW t \in SocketTabs
    PROVE  CleanOf(g, t) \in Nat /\ CleanupGeneration(g, t) = CleanOf(g, t)
  <1> DEFINE q == g.order
  <1>1. /\ q \in Seq(SocketTabs) /\ q = g.order /\ g.generation \in [SocketTabs -> Nat]
        /\ g.evicted \in Nat
    BY DEF GoodCleanup
  <1> HIDE DEF q
  <1>2. Contains(q, t) <=> In(t, q)
    BY <1>1, ContainsIn
  <1> QED BY <1>1, <1>2 DEF CleanOf, CleanupGeneration

\* advanceCleanupGeneration makes the generation of the tab grow and lets none
\* shrink, also that of the tab it evicts.
LEMMA AdvanceCleanupGrows ==
    ASSUME CapacityAssumption, NEW g, GoodCleanup(g), NEW t \in SocketTabs,
           NEW h, h = AdvanceCleanupGeneration(g, t)
    PROVE  /\ GoodCleanup(h) /\ CleanOf(g, t) < CleanOf(h, t)
           /\ \A u \in SocketTabs : CleanOf(g, u) <= CleanOf(h, u)
  <1> DEFINE q == g.order
             all == Renew(q, t)
             kept == IF Len(all) > MaxGenerations THEN Tail(all) ELSE all
             old == g.generation[Head(all)]
             out == IF Len(all) > MaxGenerations THEN Evicted(g, old) ELSE g.evicted
             new == CleanupGeneration(g, t) + 1
  <1>1. /\ q \in Seq(SocketTabs) /\ Once(q) /\ Len(q) <= MaxGenerations
        /\ g.generation \in [SocketTabs -> Nat] /\ g.evicted \in Nat
        /\ MaxGenerations \in Nat \ {0}
    BY DEF GoodCleanup, CapacityAssumption
  <1>2. h = [order |-> kept, generation |-> [g.generation EXCEPT ![t] = new], evicted |-> out]
    BY DEF AdvanceCleanupGeneration
  <1>3. new = CleanOf(g, t) + 1 /\ new \in Nat /\ CleanOf(g, t) \in Nat
    BY CleanIsNumber
  <1>4. q = g.order
    OBVIOUS
  <1>5. KeysKept(SocketTabs, q, t, MaxGenerations, all, kept)
    <2>1. all = Renew(q, t) /\ kept = IF Len(all) > MaxGenerations THEN Tail(all) ELSE all
      OBVIOUS
    <2> HIDE DEF q, all, kept
    <2> QED BY <1>1, <2>1, RenewsBounded
  <1>6. /\ kept \in Seq(SocketTabs) /\ Once(kept) /\ Len(kept) <= MaxGenerations /\ In(t, kept)
        /\ \A y : In(y, kept) => In(y, q) \/ y = t
        /\ \A y : In(y, q) /\ ~In(y, kept) => Len(all) > MaxGenerations /\ y = Head(all)
        /\ Len(all) > MaxGenerations => Head(all) \in SocketTabs
    <2> HIDE DEF q, all, kept
    <2> QED BY <1>5 DEF KeysKept
  <1>7. /\ out \in Nat /\ g.evicted <= out
        /\ Len(all) > MaxGenerations => old \in Nat /\ old <= out
    <2> HIDE DEF q, all, kept, new
    <2>1. CASE Len(all) > MaxGenerations
      <3>1. old \in Nat /\ out = IF old > g.evicted + 1 THEN old ELSE g.evicted + 1
        BY <1>1, <1>6, <2>1 DEF Evicted
      <3> QED BY <1>1, <3>1
    <2>2. CASE ~(Len(all) > MaxGenerations)
      BY <1>1, <2>2
    <2> QED BY <2>1, <2>2
  <1>12. old = g.generation[Head(all)]
    OBVIOUS
  <1> HIDE DEF q, all, kept, new, old, out
  <1>8. /\ h.order = kept /\ h.evicted = out /\ h.generation \in [SocketTabs -> Nat]
        /\ h.generation[t] = new /\ \A u \in SocketTabs : u # t => h.generation[u] = g.generation[u]
        /\ h \in [order : Seq(SocketTabs), generation : [SocketTabs -> Nat], evicted : Nat]
    BY <1>1, <1>2, <1>3, <1>6, <1>7
  <1>9. GoodCleanup(h)
    BY <1>6, <1>8 DEF GoodCleanup
  <1>10. CleanOf(g, t) < CleanOf(h, t)
    BY <1>3, <1>6, <1>8 DEF CleanOf
  <1>11. ASSUME NEW u \in SocketTabs PROVE CleanOf(g, u) <= CleanOf(h, u)
    <2>0. CleanOf(g, u) \in Nat /\ CleanOf(h, u) \in Nat
      BY <1>9, CleanIsNumber
    <2>1. CASE u = t
      BY <1>10, <2>0, <2>1
    <2>2. CASE u # t /\ In(u, kept)
      <3>1. CleanOf(h, u) = CleanOf(g, u)
        BY <1>4, <1>6, <1>8, <2>2 DEF CleanOf
      <3> QED BY <2>0, <3>1
    <2>3. CASE u # t /\ ~In(u, kept)
      <3>0. CleanOf(h, u) = out
        BY <1>8, <2>3 DEF CleanOf
      <3>1. CASE In(u, q)
        <4>1. CleanOf(g, u) = old
          BY <1>4, <1>6, <1>12, <2>3, <3>1 DEF CleanOf
        <4> QED BY <1>6, <1>7, <2>3, <3>0, <3>1, <4>1
      <3>2. CASE ~In(u, q)
        BY <1>4, <1>7, <3>0, <3>2 DEF CleanOf
      <3> QED BY <3>1, <3>2
    <2> QED BY <2>1, <2>2, <2>3
  <1> QED BY <1>9, <1>10, <1>11

\* The same of the tabs of several sockets, one after the other
LEMMA AdvanceAllGrows ==
    ASSUME CapacityAssumption, \A s \in Sockets : socket[s].tab \in SocketTabs,
           NEW g, GoodCleanup(g), NEW ids \in Seq(Sockets)
    PROVE  /\ GoodCleanup(AdvanceAll(g, ids))
           /\ \A u \in SocketTabs :
                 /\ CleanOf(g, u) <= CleanOf(AdvanceAll(g, ids), u)
                 /\ (\E s : In(s, ids) /\ socket[s].tab = u)
                        => CleanOf(g, u) < CleanOf(AdvanceAll(g, ids), u)
  <1> DEFINE G == {h \in [order : Seq(SocketTabs), generation : [SocketTabs -> Nat],
                          evicted : Nat] : GoodCleanup(h)}
             Step(h, s) == AdvanceCleanupGeneration(h, socket[s].tab)
             F == [p \in G \X Sockets |-> Step(p[1], p[2])]
             Run(f) == f = [n \in 0 .. Len(ids) |-> IF n = 0 THEN g ELSE Step(f[n - 1], ids[n])]
             f == CHOOSE f : Run(f)
  <1>0. /\ Len(ids) \in Nat /\ DOMAIN ids = 1 .. Len(ids)
        /\ \A k \in 1 .. Len(ids) : ids[k] \in Sockets
    OBVIOUS
  <1>10. \A h : GoodCleanup(h) <=> h \in G
    BY DEF GoodCleanup
  <1>4. AdvanceAll(g, ids) = f[Len(ids)]
    BY DEF AdvanceAll
  <1>11. ASSUME NEW p, GoodCleanup(p), NEW s \in Sockets
         PROVE  /\ GoodCleanup(Step(p, s)) /\ CleanOf(p, socket[s].tab) < CleanOf(Step(p, s), socket[s].tab)
                /\ \A u \in SocketTabs : CleanOf(p, u) <= CleanOf(Step(p, s), u)
    <2> DEFINE h == Step(p, s)
               t == socket[s].tab
    <2>1. h = AdvanceCleanupGeneration(p, t) /\ t \in SocketTabs
      OBVIOUS
    <2> HIDE DEF h, t
    <2>2. /\ GoodCleanup(h) /\ CleanOf(p, t) < CleanOf(h, t)
          /\ \A u \in SocketTabs : CleanOf(p, u) <= CleanOf(h, u)
      BY <1>11, <2>1, AdvanceCleanupGrows
    <2> QED BY <2>2 DEF h, t
  <1> HIDE DEF G, Step
  <1>1. F \in [G \X Sockets -> G]
    BY <1>10, <1>11
  <1>2. \E h : Run(h)
    <2>0. g \in G
      BY <1>10
    <2>1. \E h : TypedLoop(h, F, G, g, ids)
      <3> HIDE DEF F
      <3> QED BY <1>1, <2>0, LoopIsTyped
    <2> PICK h : TypedLoop(h, F, G, g, ids)
      BY <2>1
    <2>5. /\ h \in [0 .. Len(ids) -> G] /\ h[0] = g
          /\ \A k \in 1 .. Len(ids) : h[k] = F[<<h[k - 1], ids[k]>>]
      <3> HIDE DEF F
      <3> QED BY DEF TypedLoop
    <2>2. ASSUME NEW k \in 1 .. Len(ids) PROVE h[k] = Step(h[k - 1], ids[k])
      <3>1. h[k - 1] \in G /\ ids[k] \in Sockets
        <4>1. k - 1 \in 0 .. Len(ids)
          BY <1>0
        <4> QED BY <1>0, <2>5, <4>1
      <3> QED BY <2>5, <3>1
    <2> HIDE DEF F
    <2>3. \A k \in 0 .. Len(ids) : h[k] = IF k = 0 THEN g ELSE Step(h[k - 1], ids[k])
      BY <1>0, <2>2, <2>5
    <2>4. Run(h)
      BY <2>3, <2>5
    <2> QED BY <2>4
  <1>3. Run(f)
    BY <1>2
  <1> HIDE DEF f, F
  <1>5. f[0] = g /\ \A k \in 1 .. Len(ids) : f[k] = Step(f[k - 1], ids[k])
    <2> DEFINE Body(n) == IF n = 0 THEN g ELSE Step(f[n - 1], ids[n])
               e == [n \in 0 .. Len(ids) |-> Body(n)]
    <2>1. f = e
      BY <1>3
    <2>2. \A n \in 0 .. Len(ids) : e[n] = Body(n)
      <3> HIDE DEF Body
      <3> QED OBVIOUS
    <2>3. Body(0) = g /\ \A k \in 1 .. Len(ids) : Body(k) = Step(f[k - 1], ids[k])
      OBVIOUS
    <2>4. 0 \in 0 .. Len(ids) /\ \A k \in 1 .. Len(ids) : k \in 0 .. Len(ids)
      BY <1>0
    <2> HIDE DEF Body, e
    <2> QED BY <2>1, <2>2, <2>3, <2>4
  <1> DEFINE P(k) ==
        /\ GoodCleanup(f[k])
        /\ \A u \in SocketTabs : CleanOf(g, u) <= CleanOf(f[k], u)
        /\ \A u \in SocketTabs :
              (\E i \in 1 .. k : socket[ids[i]].tab = u) => CleanOf(g, u) < CleanOf(f[k], u)
             D == {k \in Nat : P(k)}
  <1>6. 0 \in D
    <2>1. \A u \in SocketTabs : CleanOf(g, u) \in Nat
      BY CleanIsNumber
    <2> QED BY <1>5, <2>1
  <1>7. ASSUME NEW k \in 1 .. Len(ids), k - 1 \in D PROVE k \in D
    <2> DEFINE b == f[k - 1]
               c == f[k]
               x == socket[ids[k]].tab
    <2>1. P(k - 1) /\ k \in Nat
      BY <1>7
    <2>2. GoodCleanup(b) /\ c = Step(b, ids[k]) /\ ids[k] \in Sockets /\ x \in SocketTabs
      BY <1>0, <1>5, <2>1
    <2>3. /\ GoodCleanup(c) /\ CleanOf(b, x) < CleanOf(c, x)
          /\ \A u \in SocketTabs : CleanOf(b, u) <= CleanOf(c, u)
      BY <1>11, <2>2
    <2>5. \A u \in SocketTabs : CleanOf(g, u) <= CleanOf(b, u)
      BY <2>1
    <2>6. \A u \in SocketTabs :
              (\E i \in 1 .. k - 1 : socket[ids[i]].tab = u) => CleanOf(g, u) < CleanOf(b, u)
      BY <2>1
    <2>7. \A i : i \in 1 .. k <=> i \in 1 .. k - 1 \/ i = k
      OBVIOUS
    <2>8. x = socket[ids[k]].tab
      OBVIOUS
    <2>12. f[k] = c
      OBVIOUS
    <2> HIDE DEF b, c, x
    <2>4. ASSUME NEW u \in SocketTabs
          PROVE  CleanOf(g, u) \in Nat /\ CleanOf(b, u) \in Nat /\ CleanOf(c, u) \in Nat
      BY <2>2, <2>3, CleanIsNumber
    <2>9. \A u \in SocketTabs : CleanOf(g, u) <= CleanOf(c, u)
      BY <2>3, <2>4, <2>5
    <2>10. ASSUME NEW u \in SocketTabs, \E i \in 1 .. k : socket[ids[i]].tab = u
           PROVE  CleanOf(g, u) < CleanOf(c, u)
      <3>1. CASE u = x
        BY <2>2, <2>3, <2>4, <2>5, <3>1
      <3>2. CASE \E i \in 1 .. k - 1 : socket[ids[i]].tab = u
        BY <2>3, <2>4, <2>6, <3>2
      <3> QED BY <2>7, <2>8, <2>10, <3>1, <3>2
    <2>11. P(k)
      BY <2>3, <2>9, <2>10, <2>12
    <2> QED BY <2>1, <2>11
  <1>8. Len(ids) \in D
    <2> HIDE DEF D
    <2>1. \A k \in 0 .. Len(ids) : k \in D
      BY <1>0, <1>6, <1>7, UpTo
    <2> QED BY <1>0, <2>1
  <1>9. P(Len(ids))
    BY <1>8
  <1> QED BY <1>0, <1>4, <1>9 DEF In

\* The elements of a finite set in some order
LEMMA InSomeOrder ==
    ASSUME NEW S, IsFiniteSet(S), NEW q \in SetToSeqs(S)
    PROVE  q \in Seq(S) /\ ToSet(q) = S /\ \A x : In(x, q) <=> x \in S
  <1> DEFINE n == Cardinality(S)
             D == 1 .. n
  <1>1. n \in Nat
    BY FS_CardinalityType
  <1>2. q \in [D -> S] /\ \A i, j \in D : i # j => q[i] # q[j]
    BY DEF SetToSeqs
  <1> HIDE DEF n
  <1>3. Cardinality(D) = n
    <2>1. Cardinality(D) = IF 1 > n THEN 0 ELSE n - 1 + 1
      BY <1>1, FS_Interval
    <2> QED BY <1>1, <2>1
  <1>4. q \in Injection(D, S)
    BY <1>2 DEF Injection, IsInjective
  <1>5. q \in Surjection(D, S)
    <2>1. Cardinality(D) = Cardinality(S)
      BY <1>3 DEF n
    <2> HIDE DEF D
    <2> QED BY <1>4, <2>1, FS_Injection
  <1>6. \A x \in S : \E i \in D : q[i] = x
    BY <1>5 DEF Surjection
  <1>7. q \in Seq(S) /\ DOMAIN q = D
    BY <1>1, <1>2
  <1> QED BY <1>2, <1>6, <1>7 DEF ToSet, In

\* States, and sockets as a set of records
SocketStates == {"none", "authenticating", "open", "refused", "closing", "closed"}
SocketType == [Sockets -> [st : SocketStates, sess : AppSessions, tab : SocketTabs]]

\* The three maps of the index describe the same registrations.
Registered(bs, ses, tc) ==
    /\ bs \subseteq Sockets /\ ses \in [AppSessions -> SUBSET Sockets]
    /\ tc \in [SocketTabs -> Nat]
    /\ \A a \in AppSessions : ses[a] = {s \in bs : socket[s].sess = a}
    /\ \A t \in SocketTabs : tc[t] = Cardinality({s \in bs : socket[s].tab = t})

\* What the readers know of generations g
Reads(g, rd) ==
    /\ GoodCleanup(g) /\ rd \in [SocketTabs -> [generation : Nat, changed : BOOLEAN]]
    /\ \A t \in SocketTabs : /\ rd[t].generation <= CleanOf(g, t)
                             /\ rd[t].changed => rd[t].generation < CleanOf(g, t)

\* The states of sockets sk fit the sessions, the registrations and the server.
StatesFit(ss, sk, bs, ph) ==
    /\ ss \in [AppSessions -> {"live", "expired", "gone"}] /\ sk \in SocketType
    /\ ph \in {"serving", "stopping", "closing", "closed"}
    /\ \A s \in bs : sk[s].st \in {"open", "closing"}
    /\ \A s \in Sockets : sk[s].st = "open" => s \in bs
    /\ \A s \in Sockets : sk[s].st = "open" /\ (ph # "serving" \/ ss[sk[s].sess] = "gone")
                              => s \in Stubborn

\* A step moves no socket to another session or tab.
OwnersStay ==
    /\ socket' \in SocketType
    /\ \A s \in Sockets : socket'[s].sess = socket[s].sess /\ socket'[s].tab = socket[s].tab

\* The invariant of the index in its parts
LEMMA IndexParts ==
    ASSUME IndexIsSound
    PROVE  /\ Registered(bySocket, bySession, tabCounts) /\ Reads(cleanup, reader)
           /\ StatesFit(session, socket, bySocket, phase)
           /\ unanswered \subseteq Sockets /\ dead \subseteq Sockets
  <1>1. /\ session \in [AppSessions -> {"live", "expired", "gone"}] /\ socket \in SocketType
        /\ bySocket \subseteq Sockets /\ bySession \in [AppSessions -> SUBSET Sockets]
        /\ tabCounts \in [SocketTabs -> Nat] /\ unanswered \subseteq Sockets
        /\ dead \subseteq Sockets /\ phase \in {"serving", "stopping", "closing", "closed"}
        /\ reader \in [SocketTabs -> [generation : Nat, changed : BOOLEAN]]
    BY DEF IndexIsSound, IndexTypeOK, SocketType, SocketStates
  <1>2. GoodCleanup(cleanup)
    BY DEF IndexIsSound, IndexTypeOK, GoodCleanup, Once, IsInjective
  <1>3. Registered(bySocket, bySession, tabCounts)
    BY <1>1 DEF IndexIsSound, MapsAgree, Registered
  <1>4. Reads(cleanup, reader)
    BY <1>1, <1>2, CleanIsNumber DEF IndexIsSound, NoRepeatedGeneration, Reads
  <1>5. StatesFit(session, socket, bySocket, phase)
    <2>1. \A s \in bySocket : socket[s].st \in {"open", "closing"}
      BY DEF IndexIsSound, MapsAgree, ReadyState
    <2>2. \A s \in Sockets : socket[s].st = "open" => s \in bySocket
      BY DEF IndexIsSound, EndedSessionIsCutOff, Open, ReadyState
    <2>3. \A s \in Sockets :
             socket[s].st = "open" /\ (phase # "serving" \/ session[socket[s].sess] = "gone")
                 => s \in Stubborn
      BY DEF IndexIsSound, EndedSessionIsCutOff, Open, ReadyState
    <2> QED BY <1>1, <2>1, <2>2, <2>3 DEF StatesFit
  <1> QED BY <1>1, <1>3, <1>4, <1>5

\* The parts after a step
LEMMA IndexAgain ==
    ASSUME OwnersStay, Registered(bySocket', bySession', tabCounts'), Reads(cleanup', reader'),
           StatesFit(session', socket', bySocket', phase'),
           unanswered' \subseteq Sockets, dead' \subseteq Sockets
    PROVE  IndexIsSound'
  <1>1. bySocket' \subseteq Sockets
    BY DEF Registered
  <1>2. IndexTypeOK'
    <2>1. /\ session' \in [AppSessions -> {"live", "expired", "gone"}] /\ socket' \in SocketType
          /\ phase' \in {"serving", "stopping", "closing", "closed"}
      BY DEF StatesFit
    <2>2. /\ bySession' \in [AppSessions -> SUBSET Sockets] /\ tabCounts' \in [SocketTabs -> Nat]
      BY DEF Registered
    <2>3. /\ cleanup' \in [order : Seq(SocketTabs), generation : [SocketTabs -> Nat], evicted : Nat]
          /\ IsInjective(cleanup'.order) /\ Len(cleanup'.order) <= MaxGenerations
          /\ reader' \in [SocketTabs -> [generation : Nat, changed : BOOLEAN]]
      BY DEF Reads, GoodCleanup, Once, IsInjective
    <2> QED BY <1>1, <2>1, <2>2, <2>3 DEF IndexTypeOK, SocketType, SocketStates
  <1>3. MapsAgree'
    <2>1. ASSUME NEW a \in AppSessions
          PROVE  bySession'[a] = {s \in bySocket' : socket'[s].sess = a}
      <3>1. bySession'[a] = {s \in bySocket' : socket[s].sess = a}
        BY DEF Registered
      <3>2. \A s \in bySocket' : socket'[s].sess = socket[s].sess
        BY <1>1 DEF OwnersStay
      <3> QED BY <3>1, <3>2
    <2>2. ASSUME NEW t \in SocketTabs
          PROVE  tabCounts'[t] = Cardinality({s \in bySocket' : socket'[s].tab = t})
      <3>1. tabCounts'[t] = Cardinality({s \in bySocket' : socket[s].tab = t})
        BY DEF Registered
      <3>2. \A s \in bySocket' : socket'[s].tab = socket[s].tab
        BY <1>1 DEF OwnersStay
      <3>3. {s \in bySocket' : socket[s].tab = t} = {s \in bySocket' : socket'[s].tab = t}
        BY <3>2
      <3> QED BY <3>1, <3>3
    <2>3. \A s \in bySocket' : socket'[s].st \in {"open", "closing"}
      BY DEF StatesFit
    <2> QED BY <2>1, <2>2, <2>3 DEF MapsAgree, ReadyState
  <1>4. NoRepeatedGeneration'
    <2> DEFINE g == cleanup'
    <2>1. /\ GoodCleanup(g)
          /\ \A t \in SocketTabs : /\ reader'[t].generation <= CleanOf(g, t)
                                   /\ reader'[t].changed => reader'[t].generation < CleanOf(g, t)
      BY DEF Reads
    <2>2. \A t \in SocketTabs : CleanupGeneration(g, t) = CleanOf(g, t)
      <3> HIDE DEF g
      <3> QED BY <2>1, CleanIsNumber
    <2>3. ASSUME NEW t \in SocketTabs
          PROVE  /\ reader'[t].generation <= CleanupGeneration(g, t)
                 /\ reader'[t].changed => reader'[t].generation < CleanupGeneration(g, t)
      <3> HIDE DEF g
      <3>1. CleanupGeneration(g, t) = CleanOf(g, t)
        BY <2>2
      <3>2. /\ reader'[t].generation <= CleanOf(g, t)
            /\ reader'[t].changed => reader'[t].generation < CleanOf(g, t)
        BY <2>1, Zenon
      <3> QED BY <3>1, <3>2, Zenon
    <2> QED BY <2>3 DEF NoRepeatedGeneration
  <1>5. EndedSessionIsCutOff'
    BY DEF StatesFit, EndedSessionIsCutOff, Open, ReadyState
  <1> QED BY <1>2, <1>3, <1>4, <1>5 DEF IndexIsSound

\* A reader notices what registers and unregisters.
LEMMA ReadersNotice ==
    ASSUME NEW g, NEW h, Reads(g, reader), GoodCleanup(h), NEW S, Notice(S),
           \A u \in SocketTabs : /\ CleanOf(g, u) <= CleanOf(h, u)
                                 /\ (\E s \in S : socket[s].tab = u) => CleanOf(g, u) < CleanOf(h, u)
    PROVE  Reads(h, reader')
  <1> DEFINE C(t) == reader[t].changed \/ \E s \in S : socket[s].tab = t
  <1>1. reader' = [t \in SocketTabs |-> [reader[t] EXCEPT !.changed = C(t)]]
    BY Zenon DEF Notice
  <1>2. \A t \in SocketTabs : C(t) \in BOOLEAN
    BY DEF Reads
  <1>3. ASSUME NEW t \in SocketTabs
        PROVE  /\ reader'[t] \in [generation : Nat, changed : BOOLEAN]
               /\ reader'[t].generation <= CleanOf(h, t)
               /\ reader'[t].changed => reader'[t].generation < CleanOf(h, t)
    <2> DEFINE c == C(t)
               r == reader[t]
    <2>1. /\ r \in [generation : Nat, changed : BOOLEAN] /\ r.generation <= CleanOf(g, t)
          /\ r.changed => r.generation < CleanOf(g, t)
      BY DEF Reads
    <2>2. CleanOf(g, t) \in Nat /\ CleanOf(h, t) \in Nat
      BY CleanIsNumber DEF Reads
    <2>3. c \in BOOLEAN /\ (c <=> r.changed \/ \E s \in S : socket[s].tab = t)
      BY <1>2
    <2>4. reader'[t] = [r EXCEPT !.changed = c]
      BY <1>1
    <2> HIDE DEF c, r
    <2>5. /\ reader'[t] \in [generation : Nat, changed : BOOLEAN]
          /\ reader'[t].generation = r.generation /\ reader'[t].changed = c /\ r.generation \in Nat
      BY <2>1, <2>3, <2>4
    <2>6. c => r.generation < CleanOf(h, t)
      BY <2>1, <2>2, <2>3, <2>5
    <2> QED BY <2>1, <2>2, <2>5, <2>6
  <1>4. reader' \in [SocketTabs -> [generation : Nat, changed : BOOLEAN]]
    <2> DEFINE R == [generation : Nat, changed : BOOLEAN]
    <2>1. \A t \in SocketTabs : reader'[t] \in R
      BY <1>3
    <2>2. reader' = [t \in SocketTabs |-> reader'[t]]
      BY <1>1
    <2> HIDE DEF R
    <2>3. reader' \in [SocketTabs -> R]
      BY <2>1, <2>2
    <2> QED BY <2>3 DEF R
  <1> QED BY <1>3, <1>4 DEF Reads

\* unregister of the sockets of S
LEMMA UnregisterKeeps ==
    ASSUME SocketsAssumption, CapacityAssumption, IndexIsSound, NEW S \in SUBSET bySocket,
           NEW turns \in SetToSeqs(S), Unregister(turns)
    PROVE  /\ bySocket' = bySocket \ S /\ Registered(bySocket', bySession', tabCounts')
           /\ Reads(cleanup', reader')
  <1>1. /\ Registered(bySocket, bySession, tabCounts) /\ Reads(cleanup, reader)
        /\ StatesFit(session, socket, bySocket, phase)
    BY IndexParts
  <1>2. bySocket \subseteq Sockets /\ IsFiniteSet(bySocket) /\ IsFiniteSet(S)
    <2>1. bySocket \in SUBSET Sockets
      BY <1>1 DEF Registered
    <2>2. IsFiniteSet(bySocket)
      BY <2>1, FS_Subset DEF SocketsAssumption
    <2> QED BY <2>1, <2>2, FS_Subset
  <1>3. turns \in Seq(S) /\ ToSet(turns) = S /\ \A x : In(x, turns) <=> x \in S
    BY <1>2, InSomeOrder
  <1>4. turns \in Seq(Sockets)
    <2>1. S \subseteq Sockets
      BY <1>2
    <2> QED BY <1>3, <2>1
  <1>5. /\ bySocket' = bySocket \ S
        /\ bySession' = [a \in AppSessions |-> bySession[a] \ S]
        /\ tabCounts' = [t \in SocketTabs |->
                            tabCounts[t] - Cardinality({s \in S : socket[s].tab = t})]
        /\ cleanup' = AdvanceAll(cleanup, turns) /\ Notice(S)
    BY <1>3, Zenon DEF Unregister
  <1>6. ASSUME NEW a \in AppSessions
        PROVE  /\ bySession'[a] = {s \in bySocket' : socket[s].sess = a}
               /\ bySession'[a] \in SUBSET Sockets
    <2>1. bySession[a] = {s \in bySocket : socket[s].sess = a}
      BY <1>1 DEF Registered
    <2>2. bySession'[a] = bySession[a] \ S
      BY <1>5
    <2> QED BY <1>2, <1>5, <2>1, <2>2
  <1>7. ASSUME NEW t \in SocketTabs
        PROVE  /\ tabCounts'[t] = Cardinality({s \in bySocket' : socket[s].tab = t})
               /\ tabCounts'[t] \in Nat
    <2> DEFINE C == {s \in bySocket : socket[s].tab = t}
               E == {s \in S : socket[s].tab = t}
    <2>1. tabCounts[t] = Cardinality(C) /\ tabCounts'[t] = tabCounts[t] - Cardinality(E)
      BY <1>1, <1>5 DEF Registered
    <2>2. IsFiniteSet(C)
      BY <1>2, FS_Subset
    <2>3. C \cap E = E /\ C \ E = {s \in bySocket' : socket[s].tab = t}
      BY <1>5
    <2> HIDE DEF C, E
    <2>4. IsFiniteSet(C \ E) /\ Cardinality(C \ E) = Cardinality(C) - Cardinality(C \cap E)
      BY <2>2, FS_Difference
    <2>5. Cardinality(C \ E) \in Nat
      BY <2>4, FS_CardinalityType
    <2> QED BY <2>1, <2>3, <2>4, <2>5
  <1>8. Registered(bySocket', bySession', tabCounts')
    <2>1. bySession' \in [AppSessions -> SUBSET Sockets]
      BY <1>5, <1>6
    <2>2. tabCounts' \in [SocketTabs -> Nat]
      BY <1>5, <1>7
    <2> QED BY <1>2, <1>5, <1>6, <1>7, <2>1, <2>2 DEF Registered
  <1>9. \A s \in Sockets : socket[s].tab \in SocketTabs
    BY <1>1 DEF StatesFit, SocketType
  <1>10. Reads(cleanup', reader')
    <2> DEFINE g == cleanup
               h == cleanup'
    <2>0. GoodCleanup(g) /\ Reads(g, reader)
      BY <1>1 DEF Reads
    <2>1. /\ GoodCleanup(h)
          /\ \A u \in SocketTabs :
                 /\ CleanOf(g, u) <= CleanOf(h, u)
                 /\ (\E s : In(s, turns) /\ socket[s].tab = u) => CleanOf(g, u) < CleanOf(h, u)
      BY <1>4, <1>5, <1>9, <2>0, AdvanceAllGrows
    <2> HIDE DEF g, h
    <2>2. \A u \in SocketTabs :
                 /\ CleanOf(g, u) <= CleanOf(h, u)
                 /\ (\E s \in S : socket[s].tab = u) => CleanOf(g, u) < CleanOf(h, u)
      BY <1>3, <2>1
    <2>3. Reads(h, reader')
      BY <1>5, <2>0, <2>1, <2>2, ReadersNotice
    <2> QED BY <2>3 DEF h
  <1> QED BY <1>5, <1>8, <1>10

\* registerIfActive of a socket that is not in the index
LEMMA RegisterKeeps ==
    ASSUME SocketsAssumption, CapacityAssumption, IndexIsSound, NEW s \in Sockets \ bySocket,
           Register(s)
    PROVE  /\ bySocket' = bySocket \cup {s} /\ Registered(bySocket', bySession', tabCounts')
           /\ Reads(cleanup', reader')
  <1>1. /\ Registered(bySocket, bySession, tabCounts) /\ Reads(cleanup, reader)
        /\ StatesFit(session, socket, bySocket, phase)
    BY IndexParts
  <1> DEFINE a == socket[s].sess
             t == socket[s].tab
  <1>2. a \in AppSessions /\ t \in SocketTabs /\ bySocket \subseteq Sockets
    BY <1>1 DEF StatesFit, SocketType, Registered
  <1>3. /\ bySocket' = bySocket \cup {s}
        /\ bySession' = [bySession EXCEPT ![a] = bySession[a] \cup {s}]
        /\ tabCounts' = [tabCounts EXCEPT ![t] = tabCounts[t] + 1]
        /\ cleanup' = AdvanceCleanupGeneration(cleanup, t) /\ Notice({s})
    BY DEF Register
  <1>4. /\ bySession' \in [AppSessions -> SUBSET Sockets]
        /\ bySession'[a] = bySession[a] \cup {s}
        /\ \A b \in AppSessions : b # a => bySession'[b] = bySession[b]
    BY <1>1, <1>2, <1>3 DEF Registered
  <1>5. /\ tabCounts' \in [SocketTabs -> Nat] /\ tabCounts'[t] = tabCounts[t] + 1
        /\ \A u \in SocketTabs : u # t => tabCounts'[u] = tabCounts[u]
    BY <1>1, <1>2, <1>3 DEF Registered
  <1>6. ASSUME NEW b \in AppSessions
        PROVE  bySession'[b] = {o \in bySocket' : socket[o].sess = b}
    <2>1. bySession[b] = {o \in bySocket : socket[o].sess = b}
      BY <1>1 DEF Registered
    <2>2. CASE b = a
      BY <1>3, <1>4, <2>1, <2>2
    <2>3. CASE b # a
      BY <1>3, <1>4, <2>1, <2>3
    <2> QED BY <2>2, <2>3
  <1>7. ASSUME NEW u \in SocketTabs
        PROVE  tabCounts'[u] = Cardinality({o \in bySocket' : socket[o].tab = u})
    <2> DEFINE C == {o \in bySocket : socket[o].tab = u}
               E == {o \in bySocket' : socket[o].tab = u}
    <2>1. tabCounts[u] = Cardinality(C)
      BY <1>1 DEF Registered
    <2>2. CASE u = t
      <3>1. E = C \cup {s} /\ s \notin C
        BY <1>3, <2>2
      <3>2. IsFiniteSet(C)
        BY <1>2, FS_Subset DEF SocketsAssumption
      <3> HIDE DEF C, E
      <3>3. Cardinality(E) = Cardinality(C) + 1
        BY <3>1, <3>2, FS_AddElement
      <3>4. tabCounts'[u] = Cardinality(E)
        BY <1>5, <2>1, <2>2, <3>3
      <3> QED BY <3>4 DEF E
    <2>3. CASE u # t
      <3>1. E = C
        BY <1>3, <2>3
      <3> QED BY <1>5, <2>1, <2>3, <3>1
    <2> QED BY <2>2, <2>3
  <1>8. Registered(bySocket', bySession', tabCounts')
    BY <1>2, <1>3, <1>4, <1>5, <1>6, <1>7 DEF Registered
  <1>9. Reads(cleanup', reader')
    <2> DEFINE g == cleanup
               h == cleanup'
               S == {s}
    <2>0. GoodCleanup(g) /\ Reads(g, reader) /\ h = AdvanceCleanupGeneration(g, t) /\ Notice(S)
          /\ \A u : (\E o \in S : socket[o].tab = u) <=> u = t
      BY <1>1, <1>3 DEF Reads
    <2> HIDE DEF g, h, t, S
    <2>1. /\ GoodCleanup(h) /\ CleanOf(g, t) < CleanOf(h, t)
          /\ \A u \in SocketTabs : CleanOf(g, u) <= CleanOf(h, u)
      BY <1>2, <2>0, AdvanceCleanupGrows
    <2>2. \A u \in SocketTabs :
                 /\ CleanOf(g, u) <= CleanOf(h, u)
                 /\ (\E o \in S : socket[o].tab = u) => CleanOf(g, u) < CleanOf(h, u)
      BY <2>0, <2>1
    <2>3. Reads(h, reader')
      BY <2>0, <2>1, <2>2, ReadersNotice
    <2> QED BY <2>3 DEF h
  <1> QED BY <1>3, <1>8, <1>9

\* closeAuthenticationRequired unregisters the sockets that it could secure.
LEMMA CutOffKeeps ==
    ASSUME SocketsAssumption, CapacityAssumption, IndexIsSound, NEW S, CutOff(S)
    PROVE  /\ bySocket' = bySocket \ Secured(S) /\ Registered(bySocket', bySession', tabCounts')
           /\ Reads(cleanup', reader')
  <1> DEFINE T == Secured(S) \cap bySocket
  <1>1. T \in SUBSET bySocket /\ bySocket \ T = bySocket \ Secured(S)
    OBVIOUS
  <1> PICK turns \in SetToSeqs(T) : Unregister(turns)
    BY DEF CutOff
  <1> HIDE DEF T
  <1>2. /\ bySocket' = bySocket \ T /\ Registered(bySocket', bySession', tabCounts')
        /\ Reads(cleanup', reader')
    BY <1>1, UnregisterKeeps
  <1> QED BY <1>1, <1>2

\* Maps that a step leaves alone
LEMMA MapsStay ==
    ASSUME IndexIsSound, UNCHANGED mapVars
    PROVE  /\ bySocket' = bySocket /\ Registered(bySocket', bySession', tabCounts')
           /\ Reads(cleanup', reader')
  <1>1. /\ bySocket' = bySocket /\ bySession' = bySession /\ tabCounts' = tabCounts
        /\ cleanup' = cleanup /\ reader' = reader
    BY DEF mapVars
  <1> QED BY <1>1, IndexParts

\* Sockets of S get state to, the others keep theirs.
Moved(S, to) ==
    \A s \in Sockets : socket'[s].st = IF s \in S THEN to ELSE socket[s].st

\* SetStates moves sockets, and only their states.
LEMMA StatesMove ==
    ASSUME IndexIsSound, NEW to \in SocketStates, NEW S, SetStates(to, S)
    PROVE  OwnersStay /\ Moved(S, to)
  <1>1. socket \in SocketType
    BY IndexParts DEF StatesFit
  <1>2. socket' = [s \in Sockets |-> IF s \in S THEN [socket[s] EXCEPT !.st = to] ELSE socket[s]]
    BY DEF SetStates
  <1> DEFINE R == [st : SocketStates, sess : AppSessions, tab : SocketTabs]
  <1>3. ASSUME NEW s \in Sockets
        PROVE  /\ socket'[s] \in R /\ socket'[s].sess = socket[s].sess
               /\ socket'[s].tab = socket[s].tab
               /\ socket'[s].st = IF s \in S THEN to ELSE socket[s].st
    <2> DEFINE r == socket[s]
    <2>1. r \in [st : SocketStates, sess : AppSessions, tab : SocketTabs]
      BY <1>1 DEF SocketType
    <2>2. socket'[s] = IF s \in S THEN [r EXCEPT !.st = to] ELSE r
      BY <1>2
    <2>3. r = socket[s]
      OBVIOUS
    <2> HIDE DEF r
    <2> QED BY <2>1, <2>2, <2>3
  <1>4. socket' \in [Sockets -> R]
    <2> HIDE DEF R
    <2> QED BY <1>2, <1>3
  <1>5. OwnersStay
    BY <1>3, <1>4 DEF OwnersStay, SocketType
  <1>6. Moved(S, to)
    BY <1>3 DEF Moved
  <1> QED BY <1>5, <1>6

\* A socket is closed and others begin to close.
LEMMA EndsMove ==
    ASSUME IndexIsSound, NEW s, NEW cut, Ends(s, cut)
    PROVE  /\ OwnersStay
           /\ \A o \in Sockets : socket'[o].st = IF o = s THEN "closed"
                                  ELSE IF o \in Closing(cut) THEN "closing" ELSE socket[o].st
  <1>1. socket \in SocketType
    BY IndexParts DEF StatesFit
  <1> DEFINE New(o) == IF o = s THEN "closed"
                       ELSE IF o \in Closing(cut) THEN "closing" ELSE socket[o].st
  <1>2. socket' = [o \in Sockets |-> [socket[o] EXCEPT !.st = New(o)]]
    BY Zenon DEF Ends
  <1> DEFINE R == [st : SocketStates, sess : AppSessions, tab : SocketTabs]
  <1>3. ASSUME NEW o \in Sockets
        PROVE  /\ socket'[o] \in R /\ socket'[o].sess = socket[o].sess
               /\ socket'[o].tab = socket[o].tab /\ socket'[o].st = New(o)
    <2> DEFINE r == socket[o]
               n == New(o)
    <2>1. r \in [st : SocketStates, sess : AppSessions, tab : SocketTabs]
      BY <1>1 DEF SocketType
    <2>2. socket'[o] = [r EXCEPT !.st = n]
      BY <1>2
    <2>3. r = socket[o] /\ n = New(o)
      OBVIOUS
    <2>4. n \in SocketStates
      BY <2>1 DEF SocketStates
    <2> HIDE DEF r, n, New
    <2> QED BY <2>1, <2>2, <2>3, <2>4
  <1>4. socket' \in [Sockets -> R]
    <2> HIDE DEF R, New
    <2> QED BY <1>2, <1>3
  <1> QED BY <1>3, <1>4 DEF OwnersStay, SocketType

\* Sessions of A are gone.
LEMMA SessionsEnd ==
    ASSUME IndexIsSound, NEW A, session' = SessionsWithout(A)
    PROVE  /\ session' \in [AppSessions -> {"live", "expired", "gone"}]
           /\ \A a \in AppSessions : session'[a] = IF a \in A THEN "gone" ELSE session[a]
  BY IndexParts DEF StatesFit, SessionsWithout

\* Sockets that are cut off with their sessions, or with the server: those of ss and ph
\* begin to close, the ones that cannot be closed stay registered, and no socket opens.
LEMMA CutKeeps ==
    ASSUME IndexIsSound, OwnersStay, NEW cut \in SUBSET Sockets,
           session' \in [AppSessions -> {"live", "expired", "gone"}],
           phase' \in {"serving", "stopping", "closing", "closed"},
           bySocket' = bySocket \ Secured(cut),
           \A s \in Sockets : \/ socket'[s].st = socket[s].st /\ s \notin Closing(cut)
                              \/ socket'[s].st = "closing" /\ socket[s].st \in {"open", "refused"},
           \A s \in Sockets : socket[s].st = "open"
                              /\ (phase' # "serving" \/ session'[socket[s].sess] = "gone")
                                  => s \in cut \/ s \in Stubborn
    PROVE  StatesFit(session', socket', bySocket', phase') /\ NoLateSocket
  <1>1. /\ Registered(bySocket, bySession, tabCounts)
        /\ StatesFit(session, socket, bySocket, phase)
    BY IndexParts
  <1>2. bySocket \subseteq Sockets /\ socket' \in SocketType
    BY <1>1 DEF Registered, OwnersStay
  <1>3. \A s \in Sockets : s \in Secured(cut) /\ socket[s].st = "open" => s \in Closing(cut)
    BY DEF Secured, Closing, ReadyState
  <1>4. \A s \in bySocket' : socket'[s].st \in {"open", "closing"}
    BY <1>1, <1>2 DEF StatesFit
  <1>5. ASSUME NEW s \in Sockets, socket'[s].st = "open" PROVE s \in bySocket'
    <2>1. socket[s].st = "open" /\ s \notin Closing(cut)
      BY <1>5
    <2>2. s \in bySocket
      BY <1>1, <2>1 DEF StatesFit
    <2> QED BY <1>3, <2>1, <2>2
  <1>6. ASSUME NEW s \in Sockets, socket'[s].st = "open",
               phase' # "serving" \/ session'[socket'[s].sess] = "gone"
        PROVE  s \in Stubborn
    <2>1. socket[s].st = "open" /\ s \notin Closing(cut) /\ socket'[s].sess = socket[s].sess
      BY <1>6 DEF OwnersStay
    <2>2. s \in cut => s \in Stubborn
      BY <2>1 DEF Closing, ReadyState
    <2> QED BY <1>6, <2>1, <2>2
  <1>7. NoLateSocket
    BY DEF NoLateSocket, ReadyState
  <1> QED BY <1>2, <1>4, <1>5, <1>6, <1>7 DEF StatesFit

\* The sockets of sessions A that end while the server serves are those to cut.
LEMMA OpenOnesAreCut ==
    ASSUME IndexIsSound, NEW A \in SUBSET AppSessions, NEW s \in Sockets, socket[s].st = "open",
           phase # "serving" \/ session[socket[s].sess] = "gone" \/ socket[s].sess \in A
    PROVE  s \in SocketsOf(A) \/ s \in Stubborn
  <1>1. /\ Registered(bySocket, bySession, tabCounts)
        /\ StatesFit(session, socket, bySocket, phase)
    BY IndexParts
  <1>2. s \in bySocket /\ (phase # "serving" \/ session[socket[s].sess] = "gone" => s \in Stubborn)
    BY <1>1 DEF StatesFit
  <1>3. CASE phase = "serving" /\ socket[s].sess \in A
    <2>1. bySession[socket[s].sess] = {o \in bySocket : socket[o].sess = socket[s].sess}
      BY <1>1, <1>3 DEF Registered
    <2>2. s \in bySession[socket[s].sess]
      BY <1>2, <2>1
    <2> QED BY <1>3, <2>2 DEF SocketsOf
  <1> QED BY <1>2, <1>3

\* They are sockets, and in the index.
LEMMA CutAreRegistered ==
    ASSUME IndexIsSound, NEW A \in SUBSET AppSessions
    PROVE  SocketsOf(A) \subseteq bySocket /\ bySocket \subseteq Sockets
  <1>1. Registered(bySocket, bySession, tabCounts)
    BY IndexParts
  <1>2. \A a \in A : bySession[a] \subseteq bySocket
    BY <1>1 DEF Registered
  <1>3. UNION {bySession[a] : a \in A} \subseteq bySocket
    BY <1>2
  <1> QED BY <1>1, <1>3 DEF SocketsOf, Registered

\* An application session is revoked.
LEMMA RevokeKeeps ==
    ASSUME SocketsAssumption, CapacityAssumption, IndexIsSound, NEW a \in AppSessions, Revoke(a)
    PROVE  IndexIsSound' /\ NoLateSocket
  <1> DEFINE A == {a}
             cut == SocketsOf(A)
  <1>1. /\ Registered(bySocket, bySession, tabCounts)
        /\ StatesFit(session, socket, bySocket, phase)
        /\ unanswered \subseteq Sockets /\ dead \subseteq Sockets
    BY IndexParts
  <1>2. /\ session' = SessionsWithout(A) /\ CutOff(cut) /\ SetStates("closing", Closing(cut))
        /\ unanswered' = unanswered /\ dead' = dead /\ phase' = phase
    BY DEF Revoke
  <1>3. A \in SUBSET AppSessions
    OBVIOUS
  <1> HIDE DEF A
  <1>4. cut \in SUBSET Sockets
    BY <1>3, CutAreRegistered
  <1>5. /\ session' \in [AppSessions -> {"live", "expired", "gone"}]
        /\ \A b \in AppSessions : session'[b] = IF b \in A THEN "gone" ELSE session[b]
    BY <1>2, SessionsEnd
  <1>6. ASSUME NEW s \in Sockets, socket[s].st = "open",
               phase' # "serving" \/ session'[socket[s].sess] = "gone"
        PROVE  s \in cut \/ s \in Stubborn
    <2>1. socket[s].sess \in AppSessions
      BY <1>1 DEF StatesFit, SocketType
    <2>2. phase # "serving" \/ session[socket[s].sess] = "gone" \/ socket[s].sess \in A
      BY <1>2, <1>5, <1>6, <2>1
    <2> QED BY <1>3, <1>6, <2>2, OpenOnesAreCut
  <1> HIDE DEF cut
  <1>7. /\ bySocket' = bySocket \ Secured(cut) /\ Registered(bySocket', bySession', tabCounts')
        /\ Reads(cleanup', reader')
    BY <1>2, CutOffKeeps
  <1>8. OwnersStay /\ Moved(Closing(cut), "closing")
    <2> DEFINE S == Closing(cut)
    <2>1. SetStates("closing", S) /\ "closing" \in SocketStates
      BY <1>2 DEF SocketStates
    <2> HIDE DEF S
    <2>2. OwnersStay /\ Moved(S, "closing")
      BY <2>1, StatesMove
    <2> QED BY <2>2 DEF S
  <1>9. \A s \in Sockets : \/ socket'[s].st = socket[s].st /\ s \notin Closing(cut)
                           \/ socket'[s].st = "closing" /\ socket[s].st \in {"open", "refused"}
    BY <1>8 DEF Moved, Closing, ReadyState
  <1>10. StatesFit(session', socket', bySocket', phase') /\ NoLateSocket
    <2>1. phase' \in {"serving", "stopping", "closing", "closed"}
      BY <1>1, <1>2 DEF StatesFit
    <2> QED BY <1>4, <1>5, <1>6, <1>7, <1>8, <1>9, <2>1, CutKeeps
  <1>11. unanswered' \subseteq Sockets /\ dead' \subseteq Sockets
    BY <1>1, <1>2
  <1> QED BY <1>7, <1>8, <1>10, <1>11, IndexAgain

\* A session passes its expiry.
LEMMA ExpireKeeps ==
    ASSUME IndexIsSound, NEW a \in AppSessions, Expire(a)
    PROVE  IndexIsSound' /\ NoLateSocket
  <1>1. /\ StatesFit(session, socket, bySocket, phase)
        /\ unanswered \subseteq Sockets /\ dead \subseteq Sockets
    BY IndexParts
  <1>2. /\ session' = [session EXCEPT ![a] = "expired"] /\ socket' = socket /\ UNCHANGED mapVars
        /\ unanswered' = unanswered /\ dead' = dead /\ phase' = phase
    BY DEF Expire
  <1>3. /\ bySocket' = bySocket /\ Registered(bySocket', bySession', tabCounts')
        /\ Reads(cleanup', reader')
    BY <1>2, MapsStay
  <1>4. /\ session' \in [AppSessions -> {"live", "expired", "gone"}]
        /\ \A b \in AppSessions : session'[b] = "gone" => session[b] = "gone"
    BY <1>1, <1>2 DEF StatesFit
  <1>5. OwnersStay
    BY <1>1, <1>2 DEF OwnersStay, StatesFit
  <1>6. \A s \in Sockets : socket[s].sess \in AppSessions
    BY <1>1 DEF StatesFit, SocketType
  <1>7. StatesFit(session', socket', bySocket', phase')
    BY <1>1, <1>2, <1>3, <1>4, <1>6 DEF StatesFit
  <1>8. NoLateSocket
    BY <1>2 DEF NoLateSocket, ReadyState
  <1>9. unanswered' \subseteq Sockets /\ dead' \subseteq Sockets
    BY <1>1, <1>2
  <1> QED BY <1>3, <1>5, <1>7, <1>8, <1>9, IndexAgain

\* The state of one socket outside the index changes, to one that is not open.
LEMMA OneMoves ==
    ASSUME IndexIsSound, NEW s \in Sockets, NEW to \in SocketStates \ {"open"},
           (socket[s].st # "open" /\ s \notin bySocket) \/ to = "closing",
           SetStates(to, {s}), UNCHANGED <<session, mapVars, unanswered, dead, phase>>
    PROVE  IndexIsSound' /\ NoLateSocket
  <1>1. /\ StatesFit(session, socket, bySocket, phase)
        /\ Registered(bySocket, bySession, tabCounts)
        /\ unanswered \subseteq Sockets /\ dead \subseteq Sockets
    BY IndexParts
  <1>2. /\ bySocket' = bySocket /\ Registered(bySocket', bySession', tabCounts')
        /\ Reads(cleanup', reader')
    BY MapsStay
  <1>3. OwnersStay /\ Moved({s}, to)
    <2> DEFINE S == {s}
    <2>1. SetStates(to, S) /\ to \in SocketStates
      OBVIOUS
    <2> HIDE DEF S
    <2>2. OwnersStay /\ Moved(S, to)
      BY <2>1, StatesMove
    <2> QED BY <2>2 DEF S
  <1>4. \A o \in Sockets : socket'[o].st = IF o = s THEN to ELSE socket[o].st
    BY <1>3 DEF Moved
  <1>5. \A o \in Sockets : socket'[o].sess = socket[o].sess
    BY <1>3 DEF OwnersStay
  <1>6. bySocket \subseteq Sockets
    BY <1>1 DEF Registered
  <1>7. StatesFit(session', socket', bySocket', phase')
    <2>1. \A o \in bySocket' : socket'[o].st \in {"open", "closing"}
      BY <1>1, <1>2, <1>4, <1>6 DEF StatesFit
    <2>2. \A o \in Sockets : socket'[o].st = "open" => o # s /\ socket[o].st = "open"
      BY <1>4
    <2>3. socket' \in SocketType
      BY <1>3 DEF OwnersStay
    <2> QED BY <1>1, <1>2, <1>5, <2>1, <2>2, <2>3 DEF StatesFit
  <1>8. NoLateSocket
    BY <1>4 DEF NoLateSocket, ReadyState
  <1>9. unanswered' \subseteq Sockets /\ dead' \subseteq Sockets
    BY <1>1
  <1> QED BY <1>2, <1>3, <1>7, <1>8, <1>9, IndexAgain

\* A request to upgrade
LEMMA UpgradeKeeps ==
    ASSUME IndexIsSound, NEW s \in Sockets, Upgrade(s)
    PROVE  IndexIsSound' /\ NoLateSocket
  <1>1. StatesFit(session, socket, bySocket, phase)
    BY IndexParts
  <1> DEFINE to == IF phase = "serving" THEN "authenticating" ELSE "closed"
  <1>2. /\ socket[s].st = "none" /\ SetStates(to, {s})
        /\ UNCHANGED <<session, mapVars, unanswered, dead, phase>>
    BY DEF Upgrade, ReadyState
  <1>3. to \in SocketStates \ {"open"}
    BY DEF SocketStates
  <1>4. socket[s].st # "open" /\ s \notin bySocket
    BY <1>1, <1>2 DEF StatesFit
  <1> HIDE DEF to
  <1> QED BY <1>2, <1>3, <1>4, OneMoves

\* The peer closes.
LEMMA PeerClosesKeeps ==
    ASSUME IndexIsSound, NEW s \in Sockets, PeerCloses(s)
    PROVE  IndexIsSound' /\ NoLateSocket
  <1> DEFINE to == "closing"
  <1>1. SetStates(to, {s}) /\ UNCHANGED <<session, mapVars, unanswered, dead, phase>>
    BY DEF PeerCloses
  <1>2. to \in SocketStates \ {"open"} /\ to = "closing"
    BY DEF SocketStates
  <1> HIDE DEF to
  <1> QED BY <1>1, <1>2, OneMoves

\* A step that concerns what is unanswered or dead
LEMMA SilenceKeeps ==
    ASSUME IndexIsSound, UNCHANGED <<session, socket, mapVars, phase>>,
           unanswered' \subseteq Sockets, dead' \subseteq Sockets
    PROVE  IndexIsSound' /\ NoLateSocket
  <1>1. StatesFit(session, socket, bySocket, phase)
    BY IndexParts
  <1>2. /\ bySocket' = bySocket /\ Registered(bySocket', bySession', tabCounts')
        /\ Reads(cleanup', reader')
    BY MapsStay
  <1>3. OwnersStay
    BY <1>1 DEF OwnersStay, StatesFit
  <1>4. StatesFit(session', socket', bySocket', phase')
    BY <1>1, <1>2
  <1>5. NoLateSocket
    BY DEF NoLateSocket, ReadyState
  <1> QED BY <1>2, <1>3, <1>4, <1>5, IndexAgain

\* What an expired session that is found takes with it
LEMMA FoundIsEnded ==
    ASSUME IndexIsSound, NEW s \in Sockets, session' = SessionsWithout(FoundExpired(s))
    PROVE  /\ FoundExpired(s) \in SUBSET AppSessions
           /\ session' \in [AppSessions -> {"live", "expired", "gone"}]
           /\ \A o \in Sockets : socket[o].st = "open"
                                 /\ (phase # "serving" \/ session'[socket[o].sess] = "gone")
                                  => o \in SocketsOf(FoundExpired(s)) \/ o \in Stubborn
  <1>1. StatesFit(session, socket, bySocket, phase)
    BY IndexParts
  <1>2. \A o \in Sockets : socket[o].sess \in AppSessions
    BY <1>1 DEF StatesFit, SocketType
  <1> DEFINE A == FoundExpired(s)
  <1>3. A \in SUBSET AppSessions
    BY <1>2 DEF FoundExpired
  <1> HIDE DEF A
  <1>4. /\ session' \in [AppSessions -> {"live", "expired", "gone"}]
        /\ \A b \in AppSessions : session'[b] = IF b \in A THEN "gone" ELSE session[b]
    BY SessionsEnd DEF A
  <1>5. ASSUME NEW o \in Sockets, socket[o].st = "open",
               phase # "serving" \/ session'[socket[o].sess] = "gone"
        PROVE  o \in SocketsOf(A) \/ o \in Stubborn
    <2>1. phase # "serving" \/ session[socket[o].sess] = "gone" \/ socket[o].sess \in A
      BY <1>2, <1>4, <1>5
    <2> QED BY <1>3, <1>5, <2>1, OpenOnesAreCut
  <1> QED BY <1>3, <1>4, <1>5 DEF A

\* A socket ends and takes with it what its session owned, should that have expired.
LEMMA EndKeeps ==
    ASSUME IndexIsSound, NEW s \in Sockets, socket[s].st # "open", OwnersStay,
           session' = SessionsWithout(FoundExpired(s)), phase' = phase,
           NEW cut, cut = SocketsOf(FoundExpired(s)),
           bySocket' = bySocket \ (Secured(cut) \cup {s}),
           \A o \in Sockets : socket'[o].st = IF o = s THEN "closed"
                                  ELSE IF o \in Closing(cut) THEN "closing" ELSE socket[o].st
    PROVE  StatesFit(session', socket', bySocket', phase') /\ NoLateSocket
  <1>1. /\ StatesFit(session, socket, bySocket, phase)
        /\ Registered(bySocket, bySession, tabCounts)
    BY IndexParts
  <1>2. /\ session' \in [AppSessions -> {"live", "expired", "gone"}]
        /\ \A o \in Sockets : socket[o].st = "open"
                                 /\ (phase # "serving" \/ session'[socket[o].sess] = "gone")
                                  => o \in cut \/ o \in Stubborn
    BY FoundIsEnded
  <1>3. bySocket \subseteq Sockets /\ socket' \in SocketType
    BY <1>1 DEF Registered, OwnersStay
  <1>4. ASSUME NEW o \in Sockets, socket'[o].st = "open"
        PROVE  o # s /\ socket[o].st = "open" /\ o \notin Closing(cut)
    BY <1>4
  <1>5. \A o \in bySocket' : socket'[o].st \in {"open", "closing"}
    BY <1>1, <1>3 DEF StatesFit
  <1>6. ASSUME NEW o \in Sockets, socket'[o].st = "open" PROVE o \in bySocket'
    <2>1. o # s /\ socket[o].st = "open" /\ o \notin Closing(cut)
      BY <1>4, <1>6
    <2>2. o \in bySocket
      BY <1>1, <2>1 DEF StatesFit
    <2>3. o \notin Secured(cut)
      BY <2>1 DEF Secured, Closing, ReadyState
    <2> QED BY <2>1, <2>2, <2>3
  <1>7. ASSUME NEW o \in Sockets, socket'[o].st = "open",
               phase' # "serving" \/ session'[socket'[o].sess] = "gone"
        PROVE  o \in Stubborn
    <2>1. socket[o].st = "open" /\ o \notin Closing(cut) /\ socket'[o].sess = socket[o].sess
      BY <1>4, <1>7 DEF OwnersStay
    <2>2. o \in cut => o \in Stubborn
      BY <2>1 DEF Closing, ReadyState
    <2> QED BY <1>2, <1>7, <2>1, <2>2
  <1>8. NoLateSocket
    BY <1>4 DEF NoLateSocket, ReadyState
  <1>9. phase' \in {"serving", "stopping", "closing", "closed"}
    BY <1>1 DEF StatesFit
  <1> QED BY <1>2, <1>3, <1>5, <1>6, <1>7, <1>8, <1>9 DEF StatesFit

\* The authentication of an upgrade has answered.
LEMMA UpgradeAnsweredKeeps ==
    ASSUME SocketsAssumption, CapacityAssumption, IndexIsSound, NEW s \in Sockets, UpgradeAnswered(s)
    PROVE  IndexIsSound' /\ NoLateSocket
  <1>1. /\ Registered(bySocket, bySession, tabCounts)
        /\ StatesFit(session, socket, bySocket, phase)
        /\ unanswered \subseteq Sockets /\ dead \subseteq Sockets
    BY IndexParts
  <1>2. /\ socket[s].st = "authenticating" /\ unanswered' = unanswered /\ dead' = dead
        /\ phase' = phase
    BY DEF UpgradeAnswered, ReadyState
  <1>3. s \notin bySocket
    BY <1>1, <1>2 DEF StatesFit
  <1>4. unanswered' \subseteq Sockets /\ dead' \subseteq Sockets
    BY <1>1, <1>2
  <1>5. CASE MayOpen(s) /\ HasRoom(socket[s].sess) /\ SetStates("open", {s}) /\ Register(s) /\ UNCHANGED session
    <2>1. /\ bySocket' = bySocket \cup {s} /\ Registered(bySocket', bySession', tabCounts')
          /\ Reads(cleanup', reader')
      BY <1>3, <1>5, RegisterKeeps
    <2>2. OwnersStay /\ Moved({s}, "open")
      <3> DEFINE S == {s}
      <3>1. SetStates("open", S) /\ "open" \in SocketStates
        BY <1>5 DEF SocketStates
      <3> HIDE DEF S
      <3>2. OwnersStay /\ Moved(S, "open")
        BY <3>1, StatesMove
      <3> QED BY <3>2 DEF S
    <2>3. \A o \in Sockets : socket'[o].st = IF o = s THEN "open" ELSE socket[o].st
      BY <2>2 DEF Moved
    <2>4. phase = "serving" /\ session[socket[s].sess] = "live" /\ session' = session
      BY <1>5 DEF MayOpen
    <2>5. StatesFit(session', socket', bySocket', phase')
      <3>1. bySocket \subseteq Sockets /\ socket' \in SocketType
        BY <1>1, <2>2 DEF Registered, OwnersStay
      <3>2. \A o \in bySocket' : socket'[o].st \in {"open", "closing"}
        BY <1>1, <2>1, <2>3, <3>1 DEF StatesFit
      <3>3. \A o \in Sockets : socket'[o].st = "open" => o \in bySocket'
        BY <1>1, <2>1, <2>3 DEF StatesFit
      <3>4. ASSUME NEW o \in Sockets, socket'[o].st = "open",
                   phase' # "serving" \/ session'[socket'[o].sess] = "gone"
            PROVE  o \in Stubborn
        <4>1. socket'[o].sess = socket[o].sess
          BY <2>2 DEF OwnersStay
        <4>2. o # s /\ socket[o].st = "open" /\ session[socket[o].sess] = "gone"
          BY <1>2, <2>3, <2>4, <3>4, <4>1
        <4> QED BY <1>1, <4>2 DEF StatesFit
      <3> QED BY <1>1, <1>2, <2>4, <3>1, <3>2, <3>3, <3>4 DEF StatesFit
    <2>6. NoLateSocket
      BY <2>3, <2>4 DEF NoLateSocket, ReadyState
    <2> QED BY <1>4, <2>1, <2>2, <2>5, <2>6, IndexAgain
  <1>6. CASE /\ MayOpen(s) /\ SetStates(IF s \in Stubborn THEN "refused" ELSE "closing", {s})
             /\ UNCHANGED <<session, mapVars>>
    <2> DEFINE to == IF s \in Stubborn THEN "refused" ELSE "closing"
    <2>1. SetStates(to, {s}) /\ UNCHANGED <<session, mapVars, unanswered, dead, phase>>
      BY <1>2, <1>6
    <2>2. to \in SocketStates \ {"open"}
      BY DEF SocketStates
    <2>3. socket[s].st # "open" /\ s \notin bySocket
      BY <1>2, <1>3
    <2> HIDE DEF to
    <2> QED BY <2>1, <2>2, <2>3, OneMoves
  <1>7. CASE /\ session' = SessionsWithout(FoundExpired(s))
             /\ CutOff(SocketsOf(FoundExpired(s))) /\ Ends(s, SocketsOf(FoundExpired(s)))
    <2> DEFINE cut == SocketsOf(FoundExpired(s))
    <2>1. cut = SocketsOf(FoundExpired(s)) /\ CutOff(cut) /\ Ends(s, cut)
      BY <1>7
    <2> HIDE DEF cut
    <2>2. /\ bySocket' = bySocket \ Secured(cut) /\ Registered(bySocket', bySession', tabCounts')
          /\ Reads(cleanup', reader')
      BY <2>1, CutOffKeeps
    <2>3. /\ OwnersStay
          /\ \A o \in Sockets : socket'[o].st = IF o = s THEN "closed"
                                  ELSE IF o \in Closing(cut) THEN "closing" ELSE socket[o].st
      BY <2>1, EndsMove
    <2>4. bySocket' = bySocket \ (Secured(cut) \cup {s}) /\ socket[s].st # "open"
      BY <1>2, <1>3, <2>2
    <2>5. StatesFit(session', socket', bySocket', phase') /\ NoLateSocket
      BY <1>2, <1>7, <2>1, <2>3, <2>4, EndKeeps
    <2> QED BY <1>4, <2>2, <2>3, <2>5, IndexAgain
  <1> QED BY <1>5, <1>6, <1>7 DEF UpgradeAnswered

\* The close or error event of a socket
LEMMA SocketEventKeeps ==
    ASSUME SocketsAssumption, CapacityAssumption, IndexIsSound, NEW s \in Sockets, SocketEvent(s)
    PROVE  IndexIsSound' /\ NoLateSocket
  <1>1. unanswered \subseteq Sockets /\ dead \subseteq Sockets
    BY IndexParts
  <1> DEFINE cut == SocketsOf(FoundExpired(s))
             T == (Secured(cut) \cup {s}) \cap bySocket
  <1>2. /\ socket[s].st = "closing" /\ session' = SessionsWithout(FoundExpired(s)) /\ phase' = phase
        /\ Ends(s, cut) /\ cut = SocketsOf(FoundExpired(s))
        /\ unanswered' = unanswered \ {s} /\ dead' = dead \ {s}
    BY DEF SocketEvent, ReadyState
  <1>3. \E turns \in SetToSeqs(T) : Unregister(turns)
    BY DEF SocketEvent
  <1>4. T \in SUBSET bySocket /\ bySocket \ T = bySocket \ (Secured(cut) \cup {s})
    OBVIOUS
  <1> HIDE DEF cut, T
  <1> PICK turns \in SetToSeqs(T) : Unregister(turns)
    BY <1>3
  <1>5. /\ bySocket' = bySocket \ T /\ Registered(bySocket', bySession', tabCounts')
        /\ Reads(cleanup', reader')
    BY <1>4, UnregisterKeeps
  <1>6. /\ OwnersStay
        /\ \A o \in Sockets : socket'[o].st = IF o = s THEN "closed"
                                  ELSE IF o \in Closing(cut) THEN "closing" ELSE socket[o].st
    BY <1>2, EndsMove
  <1>7. StatesFit(session', socket', bySocket', phase') /\ NoLateSocket
    <2>1. bySocket' = bySocket \ (Secured(cut) \cup {s}) /\ socket[s].st # "open"
      BY <1>2, <1>4, <1>5
    <2> QED BY <1>2, <1>6, <2>1, EndKeeps
  <1>8. unanswered' \subseteq Sockets /\ dead' \subseteq Sockets
    BY <1>1, <1>2
  <1> QED BY <1>5, <1>6, <1>7, <1>8, IndexAgain

\* The sweep, and the end of sockets that do not answer
LEMMA HeartbeatKeeps ==
    ASSUME SocketsAssumption, CapacityAssumption, IndexIsSound, Heartbeat
    PROVE  IndexIsSound' /\ NoLateSocket
  <1>1. /\ Registered(bySocket, bySession, tabCounts)
        /\ StatesFit(session, socket, bySocket, phase)
        /\ unanswered \subseteq Sockets /\ dead \subseteq Sockets
    BY IndexParts
  <1> DEFINE A == {a \in AppSessions : session[a] = "expired"}
             S == Closing(Swept \cup Silent)
  <1>2. /\ phase = "serving" /\ session' = SessionsWithout(A) /\ CutOff(Swept)
        /\ SetStates("closing", S) /\ dead' = dead /\ phase' = phase
        /\ unanswered' \subseteq Sockets
    BY DEF Heartbeat
  <1>3. /\ session' \in [AppSessions -> {"live", "expired", "gone"}]
        /\ \A b \in AppSessions : session'[b] = IF b \in A THEN "gone" ELSE session[b]
    <2> HIDE DEF A
    <2> QED BY <1>2, SessionsEnd
  <1>4. \A o \in Sockets : socket[o].sess \in AppSessions /\ session[socket[o].sess] \in {"live", "expired", "gone"}
    BY <1>1 DEF StatesFit, SocketType
  <1>5. ASSUME NEW o \in Sockets, socket[o].st = "open",
               phase' # "serving" \/ session'[socket[o].sess] = "gone"
        PROVE  o \in Swept \/ o \in Stubborn
    <2>1. o \in bySocket
      BY <1>1, <1>5 DEF StatesFit
    <2>2. session[socket[o].sess] # "live"
      BY <1>2, <1>3, <1>4, <1>5
    <2> QED BY <2>1, <2>2 DEF Swept
  <1>6. /\ bySocket' = bySocket \ Secured(Swept) /\ Registered(bySocket', bySession', tabCounts')
        /\ Reads(cleanup', reader')
    BY <1>2, CutOffKeeps
  <1>7. OwnersStay /\ Moved(S, "closing")
    <2>1. "closing" \in SocketStates
      BY DEF SocketStates
    <2> HIDE DEF S
    <2> QED BY <1>2, <2>1, StatesMove
  <1>8. \A s \in Sockets : \/ socket'[s].st = socket[s].st /\ s \notin Closing(Swept)
                           \/ socket'[s].st = "closing" /\ socket[s].st \in {"open", "refused"}
    <2>1. \A s \in Sockets : socket'[s].st = IF s \in S THEN "closing" ELSE socket[s].st
      BY <1>7 DEF Moved
    <2>2. \A s : /\ s \in Closing(Swept) => s \in S
                 /\ s \in S => socket[s].st \in {"open", "refused"}
      BY DEF Closing, ReadyState
    <2> HIDE DEF S
    <2> QED BY <2>1, <2>2
  <1>9. Swept \in SUBSET Sockets
    BY <1>1 DEF Swept, Registered
  <1>10. StatesFit(session', socket', bySocket', phase') /\ NoLateSocket
    <2> DEFINE cut == Swept
    <2>1. /\ cut \in SUBSET Sockets /\ bySocket' = bySocket \ Secured(cut)
          /\ phase' \in {"serving", "stopping", "closing", "closed"}
          /\ \A s \in Sockets : \/ socket'[s].st = socket[s].st /\ s \notin Closing(cut)
                                \/ socket'[s].st = "closing" /\ socket[s].st \in {"open", "refused"}
      BY <1>2, <1>6, <1>8, <1>9
    <2>2. \A o \in Sockets : socket[o].st = "open"
                              /\ (phase' # "serving" \/ session'[socket[o].sess] = "gone")
                                  => o \in cut \/ o \in Stubborn
      BY <1>5
    <2> HIDE DEF cut
    <2> QED BY <1>3, <1>7, <2>1, <2>2, CutKeeps
  <1>11. unanswered' \subseteq Sockets /\ dead' \subseteq Sockets
    BY <1>1, <1>2
  <1> QED BY <1>6, <1>7, <1>10, <1>11, IndexAgain

\* The server begins to stop and disposes the index.
LEMMA ShutdownKeeps ==
    ASSUME SocketsAssumption, CapacityAssumption, IndexIsSound, Shutdown
    PROVE  IndexIsSound' /\ NoLateSocket
  <1>1. /\ Registered(bySocket, bySession, tabCounts)
        /\ StatesFit(session, socket, bySocket, phase)
        /\ unanswered \subseteq Sockets /\ dead \subseteq Sockets
    BY IndexParts
  <1> DEFINE cut == bySocket
             S == Closing(cut)
  <1>2. /\ phase' = "stopping" /\ CutOff(cut) /\ SetStates("closing", S) /\ session' = session
        /\ unanswered' = unanswered /\ dead' = dead
    BY DEF Shutdown
  <1>3. /\ cut \in SUBSET Sockets /\ session' \in [AppSessions -> {"live", "expired", "gone"}]
        /\ \A o \in Sockets : socket[o].st = "open" => o \in cut
    BY <1>1, <1>2 DEF StatesFit, Registered
  <1> HIDE DEF cut
  <1>4. /\ bySocket' = bySocket \ Secured(cut) /\ Registered(bySocket', bySession', tabCounts')
        /\ Reads(cleanup', reader')
    BY <1>2, CutOffKeeps
  <1>5. OwnersStay /\ Moved(S, "closing")
    <2>1. "closing" \in SocketStates
      BY DEF SocketStates
    <2> HIDE DEF S
    <2> QED BY <1>2, <2>1, StatesMove
  <1>6. \A s \in Sockets : \/ socket'[s].st = socket[s].st /\ s \notin Closing(cut)
                           \/ socket'[s].st = "closing" /\ socket[s].st \in {"open", "refused"}
    BY <1>5 DEF Moved, Closing, ReadyState
  <1>7. StatesFit(session', socket', bySocket', phase') /\ NoLateSocket
    <2>1. phase' \in {"serving", "stopping", "closing", "closed"}
      BY <1>2
    <2> QED BY <1>3, <1>4, <1>5, <1>6, <2>1, CutKeeps
  <1>8. unanswered' \subseteq Sockets /\ dead' \subseteq Sockets
    BY <1>1, <1>2
  <1> QED BY <1>4, <1>5, <1>7, <1>8, IndexAgain

\* The server closes the clients that are left.
LEMMA CloseClientsKeeps ==
    ASSUME IndexIsSound, CloseClients
    PROVE  IndexIsSound' /\ NoLateSocket
  <1>1. /\ StatesFit(session, socket, bySocket, phase)
        /\ unanswered \subseteq Sockets /\ dead \subseteq Sockets
    BY IndexParts
  <1> DEFINE S == Closing(Open \cup Refused)
  <1>2. /\ phase = "stopping" /\ phase' = "closing" /\ SetStates("closing", S)
        /\ session' = session /\ UNCHANGED mapVars /\ unanswered' = unanswered /\ dead' = dead
    BY DEF CloseClients
  <1>3. /\ bySocket' = bySocket /\ Registered(bySocket', bySession', tabCounts')
        /\ Reads(cleanup', reader')
    BY <1>2, MapsStay
  <1>4. OwnersStay /\ Moved(S, "closing")
    <2>1. "closing" \in SocketStates
      BY DEF SocketStates
    <2> HIDE DEF S
    <2> QED BY <1>2, <2>1, StatesMove
  <1> DEFINE cut == {}
  <1>5. cut \in SUBSET Sockets /\ bySocket' = bySocket \ Secured(cut) /\ Closing(cut) = {}
    BY <1>3 DEF Secured, Closing
  <1>6. \A s \in Sockets : \/ socket'[s].st = socket[s].st /\ s \notin Closing(cut)
                           \/ socket'[s].st = "closing" /\ socket[s].st \in {"open", "refused"}
    <2>1. \A s \in Sockets : socket'[s].st = IF s \in S THEN "closing" ELSE socket[s].st
      BY <1>4 DEF Moved
    <2>2. \A s \in S : socket[s].st \in {"open", "refused"}
      BY DEF Closing, ReadyState
    <2> HIDE DEF S, cut
    <2> QED BY <1>5, <2>1, <2>2
  <1>7. \A s \in Sockets : socket[s].st = "open" => s \in Stubborn
    BY <1>1, <1>2 DEF StatesFit
  <1>8. StatesFit(session', socket', bySocket', phase') /\ NoLateSocket
    <2>1. /\ phase' \in {"serving", "stopping", "closing", "closed"}
          /\ session' \in [AppSessions -> {"live", "expired", "gone"}]
      BY <1>1, <1>2 DEF StatesFit
    <2> HIDE DEF cut
    <2> QED BY <1>4, <1>5, <1>6, <1>7, <2>1, CutKeeps
  <1>9. unanswered' \subseteq Sockets /\ dead' \subseteq Sockets
    BY <1>1, <1>2
  <1> QED BY <1>3, <1>4, <1>8, <1>9, IndexAgain

\* The server is closed.
LEMMA ClosedKeeps ==
    ASSUME IndexIsSound, Closed
    PROVE  IndexIsSound' /\ NoLateSocket
  <1>1. /\ StatesFit(session, socket, bySocket, phase)
        /\ unanswered \subseteq Sockets /\ dead \subseteq Sockets
    BY IndexParts
  <1>2. /\ phase = "closing" /\ phase' = "closed" /\ session' = session /\ socket' = socket
        /\ UNCHANGED mapVars /\ unanswered' = unanswered /\ dead' = dead
    BY DEF Closed
  <1>3. /\ bySocket' = bySocket /\ Registered(bySocket', bySession', tabCounts')
        /\ Reads(cleanup', reader')
    BY <1>2, MapsStay
  <1>4. OwnersStay
    BY <1>1, <1>2 DEF OwnersStay, StatesFit
  <1>5. StatesFit(session', socket', bySocket', phase')
    BY <1>1, <1>2, <1>3 DEF StatesFit
  <1>6. NoLateSocket
    BY <1>2 DEF NoLateSocket, ReadyState
  <1>7. unanswered' \subseteq Sockets /\ dead' \subseteq Sockets
    BY <1>1, <1>2
  <1> QED BY <1>3, <1>4, <1>5, <1>6, <1>7, IndexAgain

\* The cleaner takes a snapshot.
LEMMA ReadSnapshotKeeps ==
    ASSUME IndexIsSound, NEW t \in SocketTabs, ReadSnapshot(t)
    PROVE  IndexIsSound' /\ NoLateSocket
  <1>1. /\ Registered(bySocket, bySession, tabCounts) /\ Reads(cleanup, reader)
        /\ StatesFit(session, socket, bySocket, phase)
        /\ unanswered \subseteq Sockets /\ dead \subseteq Sockets
    BY IndexParts
  <1> DEFINE gen == CleanupGeneration(cleanup, t)
             new == [generation |-> gen, changed |-> FALSE]
  <1>2. /\ reader' = [reader EXCEPT ![t] = new]
        /\ session' = session /\ socket' = socket /\ bySocket' = bySocket
        /\ bySession' = bySession /\ tabCounts' = tabCounts /\ cleanup' = cleanup
        /\ unanswered' = unanswered /\ dead' = dead /\ phase' = phase
    BY DEF ReadSnapshot
  <1>3. GoodCleanup(cleanup) /\ reader \in [SocketTabs -> [generation : Nat, changed : BOOLEAN]]
    BY <1>1 DEF Reads
  <1>4. gen \in Nat /\ gen = CleanOf(cleanup, t)
    BY <1>3, CleanIsNumber
  <1> HIDE DEF gen
  <1> DEFINE R == [generation : Nat, changed : BOOLEAN]
  <1>5. new \in R /\ new.generation = gen /\ ~new.changed
    BY <1>4
  <1>6. reader \in [SocketTabs -> R]
    BY <1>3
  <1> HIDE DEF new, R
  <1>7. /\ reader' \in [SocketTabs -> R] /\ reader'[t] = new
        /\ \A u \in SocketTabs : u # t => reader'[u] = reader[u]
    BY <1>2, <1>5, <1>6
  <1>8. ASSUME NEW u \in SocketTabs
        PROVE  /\ reader'[u].generation <= CleanOf(cleanup, u)
               /\ reader'[u].changed => reader'[u].generation < CleanOf(cleanup, u)
    <2>1. CASE u = t
      BY <1>4, <1>5, <1>7, <2>1
    <2>2. CASE u # t
      BY <1>1, <1>7, <2>2 DEF Reads
    <2> QED BY <2>1, <2>2
  <1>9. Reads(cleanup', reader')
    BY <1>2, <1>3, <1>7, <1>8 DEF Reads, R
  <1>10. OwnersStay
    BY <1>1, <1>2 DEF OwnersStay, StatesFit
  <1>11. /\ StatesFit(session', socket', bySocket', phase')
         /\ Registered(bySocket', bySession', tabCounts')
    BY <1>1, <1>2
  <1>12. NoLateSocket
    BY <1>2 DEF NoLateSocket, ReadyState
  <1>13. unanswered' \subseteq Sockets /\ dead' \subseteq Sockets
    BY <1>1, <1>2
  <1> QED BY <1>9, <1>10, <1>11, <1>12, <1>13, IndexAgain

\* The index starts empty.
LEMMA IndexStarts ==
    ASSUME CapacityAssumption, IndexInit
    PROVE  IndexIsSound
  <1>1. /\ session = [a \in AppSessions |-> "live"]
        /\ bySocket = {} /\ bySession = [a \in AppSessions |-> {}]
        /\ tabCounts = [t \in SocketTabs |-> 0]
        /\ cleanup = [order |-> <<>>, generation |-> [t \in SocketTabs |-> 0], evicted |-> 0]
        /\ unanswered = {} /\ dead = {} /\ phase = "serving"
        /\ reader = [t \in SocketTabs |-> [generation |-> 0, changed |-> FALSE]]
    BY DEF IndexInit
  <1> PICK f \in [Sockets -> AppSessions \X SocketTabs] :
            socket = [s \in Sockets |-> [st |-> "none", sess |-> f[s][1], tab |-> f[s][2]]]
    BY DEF IndexInit
  <1>2. \A s \in Sockets : socket[s].st = "none"
    OBVIOUS
  <1>3. socket \in [Sockets -> [st : {"none", "authenticating", "open", "refused", "closing",
                                      "closed"}, sess : AppSessions, tab : SocketTabs]]
    <2>1. \A s \in Sockets : f[s][1] \in AppSessions /\ f[s][2] \in SocketTabs
      OBVIOUS
    <2> QED BY <2>1
  <1>4. /\ cleanup.order = <<>> /\ cleanup.evicted = 0
        /\ cleanup \in [order : Seq(SocketTabs), generation : [SocketTabs -> Nat], evicted : Nat]
    BY <1>1
  <1>5. IsInjective(cleanup.order) /\ Len(cleanup.order) <= MaxGenerations
    BY <1>4 DEF IsInjective, CapacityAssumption
  <1>6. /\ reader \in [SocketTabs -> [generation : Nat, changed : BOOLEAN]]
        /\ \A t \in SocketTabs : reader[t].generation = 0 /\ ~reader[t].changed
    <2> DEFINE R == [generation : Nat, changed : BOOLEAN]
               r == [generation |-> 0, changed |-> FALSE]
    <2>1. r \in R /\ r.generation = 0 /\ ~r.changed /\ reader = [t \in SocketTabs |-> r]
      BY <1>1
    <2> HIDE DEF R, r
    <2>2. reader \in [SocketTabs -> R] /\ \A t \in SocketTabs : reader[t] = r
      BY <2>1
    <2> QED BY <2>1, <2>2 DEF R
  <1>7. IndexTypeOK
    BY <1>1, <1>3, <1>4, <1>5, <1>6 DEF IndexTypeOK
  <1>8. MapsAgree
    <2>1. ASSUME NEW t \in SocketTabs
          PROVE  tabCounts[t] = Cardinality({s \in bySocket : socket[s].tab = t})
      <3>1. {s \in bySocket : socket[s].tab = t} = {}
        BY <1>1
      <3> QED BY <1>1, <3>1, FS_EmptySet
    <2> QED BY <1>1, <2>1 DEF MapsAgree
  <1>9. NoRepeatedGeneration
    <2>1. \A t \in SocketTabs : CleanupGeneration(cleanup, t) = 0
      BY <1>4 DEF CleanupGeneration, Contains
    <2> QED BY <1>6, <2>1 DEF NoRepeatedGeneration
  <1>10. EndedSessionIsCutOff
    BY <1>2 DEF EndedSessionIsCutOff, Open, ReadyState
  <1> QED BY <1>7, <1>8, <1>9, <1>10 DEF IndexIsSound

\* The index tells the truth: its maps agree with each other and with the sockets, a
\* reader who sees a generation of a tab twice may conclude that no socket of the tab
\* came or went, the sockets of an ended session and of a stopping server are closed
\* or kept for the next sweep, and an upgrade whose authentication answers too late
\* opens no terminal.  This holds for any sessions, tabs and capacities, and whichever
\* of finitely many sockets refuse to close.
THEOREM IndexStaysTrue ==
    ASSUME SocketsAssumption, CapacityAssumption
    PROVE  IndexSpec => IndexTellsTheTruth
  <1>1. IndexInit => IndexIsSound
    BY IndexStarts
  <1>2. IndexIsSound /\ [IndexNext]_indexVars => IndexIsSound' /\ [NoLateSocket]_indexVars
    <2> SUFFICES ASSUME IndexIsSound, [IndexNext]_indexVars
                 PROVE  IndexIsSound' /\ [NoLateSocket]_indexVars
      OBVIOUS
    <2>1. ASSUME NEW s \in Sockets, SocketStep(s) PROVE IndexIsSound' /\ NoLateSocket
      <3>1. CASE Upgrade(s)
        BY <3>1, UpgradeKeeps
      <3>2. CASE UpgradeAnswered(s)
        BY <3>2, UpgradeAnsweredKeeps
      <3>3. CASE PeerCloses(s)
        BY <3>3, PeerClosesKeeps
      <3>4. CASE SocketEvent(s)
        BY <3>4, SocketEventKeeps
      <3>5. CASE PeerDies(s)
        <4>1. /\ UNCHANGED <<session, socket, mapVars, phase>>
              /\ unanswered' \subseteq Sockets /\ dead' \subseteq Sockets
          BY <3>5, IndexParts DEF PeerDies
        <4> QED BY <4>1, SilenceKeeps
      <3>6. CASE Pong(s)
        <4>1. /\ UNCHANGED <<session, socket, mapVars, phase>>
              /\ unanswered' \subseteq Sockets /\ dead' \subseteq Sockets
          BY <3>6, IndexParts DEF Pong
        <4> QED BY <4>1, SilenceKeeps
      <3> QED BY <2>1, <3>1, <3>2, <3>3, <3>4, <3>5, <3>6 DEF SocketStep
    <2>2. ASSUME NEW a \in AppSessions, Revoke(a) PROVE IndexIsSound' /\ NoLateSocket
      BY <2>2, RevokeKeeps
    <2>3. ASSUME NEW a \in AppSessions, Expire(a) PROVE IndexIsSound' /\ NoLateSocket
      BY <2>3, ExpireKeeps
    <2>4. ASSUME NEW t \in SocketTabs, ReadSnapshot(t) PROVE IndexIsSound' /\ NoLateSocket
      BY <2>4, ReadSnapshotKeeps
    <2>5. CASE Heartbeat
      BY <2>5, HeartbeatKeeps
    <2>6. CASE Shutdown
      BY <2>6, ShutdownKeeps
    <2>7. CASE CloseClients
      BY <2>7, CloseClientsKeeps
    <2>8. CASE Closed
      BY <2>8, ClosedKeeps
    <2>9. CASE UNCHANGED indexVars
      <3>1. /\ UNCHANGED <<session, socket, mapVars, phase>>
            /\ unanswered' \subseteq Sockets /\ dead' \subseteq Sockets
        BY <2>9, IndexParts DEF indexVars
      <3> QED BY <2>9, <3>1, SilenceKeeps
    <2> QED BY <2>1, <2>2, <2>3, <2>4, <2>5, <2>6, <2>7, <2>8, <2>9 DEF IndexNext
  <1> QED BY <1>1, <1>2, PTL DEF IndexSpec, IndexTellsTheTruth
=============================================================================
