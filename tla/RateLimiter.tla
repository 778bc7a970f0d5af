----------------------------- MODULE RateLimiter -----------------------------
(***************************************************************************)
(* The login rate limiter (rate-limiter.ts): a global token bucket and one *)
(* bucket for each of the addresses used last.                             *)
(*                                                                         *)
(* A token is Whole units, so that a millisecond refills a whole number of *)
(* units.  The limiter trusts no clock: a reading may go back or be no     *)
(* number at all.                                                          *)
(***************************************************************************)
EXTENDS Integers, FiniteSets

CONSTANTS Addresses,        \* spellings of client addresses
          Keys,             \* normalized addresses, "unknown" among them
          Key,              \* the normalized form of each spelling
          Whole,            \* units of a token
          GlobalCapacity, GlobalRefill,
          AddressCapacity, AddressRefill,
          MaxAddresses,
          MaxTime, MaxSequence     \* bounds of the clock and of the counter of uses

KeyAssumption == Key \in [Addresses -> Keys]
UnitsAssumption ==
    /\ Whole \in Nat \ {0} /\ MaxAddresses \in Nat \ {0} /\ MaxTime \in Nat
    /\ MaxSequence \in Nat
    /\ GlobalCapacity \in Nat \ {0} /\ AddressCapacity \in Nat \ {0}
    /\ GlobalRefill \in Nat /\ AddressRefill \in Nat

VARIABLES
    lastNow,      \* latest clock reading
    global,       \* the global bucket
    addresses,    \* buckets of the tracked addresses, a function on their keys
    sequence,     \* counter behind usedAt
    window,       \* observer: where a window began, tokens granted since
    lastGrant     \* observer: when a token was last granted

limiterVars == <<lastNow, global, addresses, sequence, window, lastGrant>>

Nothing == -1    \* a reading that is not finite
Readings == (0 .. MaxTime) \cup {Nothing}
Tracked == DOMAIN addresses
Least(a, b) == IF a < b THEN a ELSE b

LimiterInit ==
    /\ lastNow \in 0 .. MaxTime
    /\ global = [tokens |-> GlobalCapacity, updatedAt |-> lastNow]
    /\ addresses = [k \in {} |-> 0] /\ sequence = 0
    /\ window = [start |-> lastNow, granted |-> 0, of |-> [k \in Keys |-> 0]]
    /\ lastGrant = lastNow

\* Mutant: the clock is believed when it goes back.
NowBelieved(reading) == IF reading = Nothing THEN lastNow ELSE reading

\* #now; a reading that is no number is below every other.
Now(reading) == IF reading > lastNow THEN reading ELSE lastNow

Filled(tokens, capacity) == Least(capacity, tokens)

Refill(bucket, capacity, rate, now) ==
    LET elapsed == IF now > bucket.updatedAt THEN now - bucket.updatedAt ELSE 0 IN
    [bucket EXCEPT !.tokens = Filled(@ + elapsed * rate, capacity), !.updatedAt = now]

\* #evictOldest
Oldest(k) == \A o \in Tracked : addresses[k].usedAt <= addresses[o].usedAt

Full == Cardinality(Tracked) >= MaxAddresses

\* The keys that stay when k is looked up
Remaining(k) ==
    IF k \notin Tracked /\ Full THEN {Tracked \ {o} : o \in {x \in Tracked : Oldest(x)}}
    ELSE {Tracked}

FreshBucket(now) ==
    [tokens |-> AddressCapacity, updatedAt |-> now, usedAt |-> sequence + 1]

\* Every attempt, a refused one too, makes its address the one used last.
UsedAt(bucket, last) == last

Charge(admitted) == IF admitted THEN Whole ELSE 0

Paid(bucket, amount) == [bucket EXCEPT !.tokens = IF @ < amount THEN @ ELSE @ - amount]

\* What the observers learn from an attempt of key k that is admitted or not
Observe(k, kept, now, admitted) ==
    /\ window' = [window EXCEPT
          !.granted = IF admitted THEN @ + 1 ELSE @,
          !.of = [o \in Keys |-> IF o = k /\ admitted
                                 THEN (IF o \in kept THEN @[o] ELSE 0) + 1
                                 ELSE IF o \in kept THEN @[o] ELSE 0]]
    /\ lastGrant' = IF admitted THEN now ELSE lastGrant

\* consume
Consume(address, reading) ==
    LET now == Now(reading)
        k == Key[address]
        g == Refill(global, GlobalCapacity, GlobalRefill, now)
        b == Refill(IF k \in Tracked THEN addresses[k] ELSE FreshBucket(now),
                    AddressCapacity, AddressRefill, now)
        admitted == g.tokens >= Whole /\ b.tokens >= Whole
    IN \E kept \in Remaining(k) :
        /\ lastNow' = now
        /\ sequence' = IF k \in Tracked THEN sequence + 1 ELSE sequence + 2
        /\ global' = Paid(g, Charge(admitted))
        /\ addresses' = [o \in kept \cup {k} |->
              IF o = k THEN [Paid(b, Charge(admitted)) EXCEPT !.usedAt = UsedAt(b, sequence')]
              ELSE addresses[o]]
        /\ Observe(k, kept, now, admitted)

Attempt ==
    /\ sequence < MaxSequence
    /\ \E address \in Addresses, reading \in Readings : Consume(address, reading)

\* resetAddress, after a login
ResetAddress ==
    \E address \in Addresses :
        /\ Key[address] \in Tracked
        /\ addresses' = [o \in Tracked \ {Key[address]} |-> addresses[o]]
        /\ window' = [window EXCEPT !.of[Key[address]] = 0]
        /\ UNCHANGED <<lastNow, global, sequence, lastGrant>>

\* An observer begins to count anew.
OpenWindow ==
    /\ window.start # lastNow
    /\ window' = [start |-> lastNow, granted |-> 0, of |-> [k \in Keys |-> 0]]
    /\ UNCHANGED <<lastNow, global, addresses, sequence, lastGrant>>

LimiterNext == Attempt \/ ResetAddress \/ OpenWindow

LimiterSpec == LimiterInit /\ [][LimiterNext]_limiterVars

-----------------------------------------------------------------------------
(***************************************************************************)
(* Properties.                                                             *)
(***************************************************************************)
\* Type correctness; the table keeps its size.
LimiterTypeOK ==
    /\ lastNow \in Nat /\ sequence \in Nat
    /\ global \in [tokens : Nat, updatedAt : Nat]
    /\ Tracked \subseteq Keys
    /\ Cardinality(Tracked) <= MaxAddresses
    /\ addresses \in [Tracked -> [tokens : Nat, updatedAt : Nat, usedAt : Nat]]
    /\ window \in [start : Nat, granted : Nat, of : [Keys -> Nat]]
    /\ lastGrant \in Nat

\* In any window of time no more attempts are admitted than a full bucket and
\* the refill of that time allow, whatever addresses are used, forgotten or
\* reset and whatever the clock says.
GlobalBound ==
    window.granted * Whole <= GlobalCapacity + GlobalRefill * (lastNow - window.start)

\* The same for one address, in all its spellings, while its bucket is kept.
AddressBound ==
    \A k \in Keys :
        window.of[k] * Whole <= AddressCapacity + AddressRefill * (lastNow - window.start)

\* Refused attempts cost nothing: however many there are, the global bucket
\* recovers as if they had not been made.
RefusalIsFree ==
    LET recovered == GlobalRefill * (lastNow - lastGrant) IN
    Refill(global, GlobalCapacity, GlobalRefill, lastNow).tokens >= Least(GlobalCapacity, recovered)

\* The tokens that are left and those that were granted in a window come from
\* the capacity and from the refill of its time.  An address that is not in the table
\* has been granted nothing since it left.
TokensAddUp ==
    /\ global.updatedAt = lastNow /\ global.tokens <= GlobalCapacity
    /\ window.start <= lastNow /\ lastGrant <= lastNow
    /\ window.granted * Whole + global.tokens
          <= GlobalCapacity + GlobalRefill * (lastNow - window.start)
    /\ global.tokens >= Least(GlobalCapacity, GlobalRefill * (lastNow - lastGrant))
    /\ \A k \in Keys \ Tracked : window.of[k] = 0
    /\ \A k \in Tracked :
          /\ addresses[k].updatedAt <= lastNow
          /\ window.of[k] * Whole
                + Refill(addresses[k], AddressCapacity, AddressRefill, lastNow).tokens
             <= AddressCapacity + AddressRefill * (lastNow - window.start)

\* The inductive invariant of the limiter.
LimiterIInv == LimiterTypeOK /\ IsFiniteSet(Tracked) /\ TokensAddUp

\* What is admitted in any window of time is bounded, for all addresses together
\* and for one in all its spellings, refusals cost nothing, and the table keeps its
\* size; the clock may do as it likes.
AttemptsAreBounded == LimiterIInv /\ GlobalBound /\ AddressBound /\ RefusalIsFree

=============================================================================
