---------------------------- MODULE RateLimiter ----------------------------
(***************************************************************************)
(* The token-bucket rate limiter (src/rate_limit.rs), charged by the       *)
(* middleware of src/auth.rs and pruned by the reaper task of src/main.rs. *)
(*                                                                         *)
(* A clock tick is a fraction of a second.  Tokens are counted in parts,   *)
(* Minute of them to a token: a bucket then gains per_minute parts a tick, *)
(* and all arithmetic is exact (the rounding of f64 is left out).          *)
(*                                                                         *)
(* Definitions commented as faulty are not part of the specification: each *)
(* stands for a plausible bug in the definition after it.                  *)
(***************************************************************************)
EXTENDS Integers

CONSTANTS Callers,      \* API tokens or, when none are configured, addresses
          Keys,         \* values of Caller::id
          KeyOf,        \* Caller::id of each caller: the name of its principal
          Requested,    \* the per-minute rate configured for each caller
          Widest,       \* the highest rate among the callers of each key
          Second,       \* ticks in a second
          Minute,       \* ticks in a minute
          IdlePrune,    \* IDLE_PRUNE_SECS, in ticks
          MaxClock      \* bound on Instant::now()

\* RateRule::new: at least one request a minute, and a burst of a minute's worth.
NewRule(per_minute) ==
    LET rate == IF per_minute > 1 THEN per_minute ELSE 1
    IN  [per_minute |-> rate, burst |-> rate]

RuleOf(c) == NewRule(Requested[c])

Capacity(c) == RuleOf(c).burst * Minute

ASSUME RateAssumption ==
    /\ KeyOf \in [Callers -> Keys]
    /\ Requested \in [Callers -> Nat]
    /\ Widest \in [Keys -> Nat \ {0}]
    /\ \A c \in Callers : RuleOf(c).per_minute <= Widest[KeyOf[c]]
    /\ Second \in Nat \ {0}
    /\ Minute \in Nat \ {0}
    /\ IdlePrune \in Nat
    /\ IdlePrune >= Minute
    /\ MaxClock \in Nat

VARIABLES clock,      \* Instant::now()
          buckets,    \* the keys of RateLimiter::buckets
          bucket,     \* the bucket of each key
          pruner,     \* prune_idle
          granted,    \* history: requests admitted so far, by key,
          mark,       \* and how many of them before each tick
          promise     \* history: when a refused caller was told to come back

serverVars == <<buckets, bucket, pruner>>

history == <<granted, mark, promise>>

rateVars == <<clock, serverVars, history>>

Bucket == [tokens: Nat, last: Nat]

NoBucket == [tokens |-> 0, last |-> 0]

Pruner == [active: BOOLEAN, now: Nat, unseen: SUBSET Keys]

Resting == [active |-> FALSE, now |-> 0, unseen |-> {}]

\* No promise to keep.
NoPromise == -1

RateTypeOK ==
    /\ clock \in 0..MaxClock
    /\ buckets \in SUBSET Keys
    /\ bucket \in [Keys -> Bucket]
    /\ \A k \in buckets : bucket[k].last <= clock
    /\ pruner \in Pruner
    /\ pruner.now <= clock
    /\ granted \in [Keys -> Nat]
    /\ mark \in [Keys -> [0..MaxClock -> Nat]]
    /\ promise \in [Callers -> Nat \cup {NoPromise}]

RateInit ==
    /\ clock = 0
    /\ buckets = {}
    /\ bucket = [k \in Keys |-> NoBucket]
    /\ pruner = Resting
    /\ granted = [k \in Keys |-> 0]
    /\ mark = [k \in Keys |-> [t \in 0..MaxClock |-> 0]]
    /\ promise = [c \in Callers |-> NoPromise]

-----------------------------------------------------------------------------

\* What a request of `c` at time `now` finds in its bucket, refilled at its own
\* rate up to its own capacity.  A key that has no bucket gets a full one.
Refilled(tokens, elapsed, c) ==
    LET refilled == tokens + elapsed * RuleOf(c).per_minute
    IN  IF refilled < Capacity(c) THEN refilled ELSE Capacity(c)

Level(c, now) ==
    LET b == bucket[KeyOf[c]]
    IN  IF KeyOf[c] \in buckets THEN Refilled(b.tokens, now - b.last, c) ELSE Capacity(c)

\* One whole token is there.
\* (Faulty: a part of one will do.)
AdmitsPart(c, now) == Level(c, now) > 0

Admits(c, now) == Level(c, now) >= Minute

\* The whole seconds until the missing part of a token is there.
\* (Faulty: the fraction of a second is cut off.)
RetryAfterFloor(c) == (Minute - Level(c, clock)) \div (RuleOf(c).per_minute * Second)

RetryAfter(c) ==
    LET deficit == Minute - Level(c, clock)
        refill_per_sec == RuleOf(c).per_minute * Second
    IN  (deficit + refill_per_sec - 1) \div refill_per_sec

\* check: refill, then take a token or refuse.  The map's shard and the bucket
\* are locked throughout.
\* (Faulty: a refusal empties the bucket.)
ChargeRefused(c) ==
    /\ buckets' = buckets \cup {KeyOf[c]}
    /\ bucket' = [bucket EXCEPT ![KeyOf[c]] =
                    [tokens |-> IF Admits(c, clock) THEN Level(c, clock) - Minute ELSE 0,
                     last |-> clock]]

\* (Faulty: `last` moves only when a token is taken, so a time span counts twice.)
ChargeKeepingLast(c) ==
    /\ buckets' = buckets \cup {KeyOf[c]}
    /\ bucket' = [bucket EXCEPT ![KeyOf[c]] =
                    IF Admits(c, clock)
                    THEN [tokens |-> Level(c, clock) - Minute, last |-> clock]
                    ELSE [tokens |-> Level(c, clock),
                          last |-> IF KeyOf[c] \in buckets THEN @.last ELSE clock]]

Charge(c) ==
    /\ buckets' = buckets \cup {KeyOf[c]}
    /\ bucket' = [bucket EXCEPT ![KeyOf[c]] =
                    [tokens |-> IF Admits(c, clock) THEN Level(c, clock) - Minute
                                                    ELSE Level(c, clock),
                     last |-> clock]]

\* A promise is void once another request is charged to the same bucket.
Promise(c) ==
    promise' = [d \in Callers |->
                  IF d = c THEN IF Admits(c, clock) THEN NoPromise
                                ELSE clock + Second * RetryAfter(c)
                  ELSE IF KeyOf[d] = KeyOf[c] THEN NoPromise ELSE promise[d]]

\* The rate_limit middleware on a request of `c`.
Check(c) ==
    /\ Charge(c)
    /\ granted' = [granted EXCEPT ![KeyOf[c]] = IF Admits(c, clock) THEN @ + 1 ELSE @]
    /\ Promise(c)
    /\ UNCHANGED <<clock, pruner, mark>>

-----------------------------------------------------------------------------
(* prune_idle reads the clock once and then visits every bucket under its  *)
(* locks.  It may or may not come across buckets that appear meanwhile, and *)
(* would keep those.                                                       *)

PruneStart ==
    /\ ~pruner.active
    /\ buckets # {}
    /\ pruner' = [active |-> TRUE, now |-> clock, unseen |-> buckets]
    /\ UNCHANGED <<clock, buckets, bucket, history>>

\* duration_since saturates: a bucket used after the pruner read the clock is
\* not idle.
\* (Faulty: the limit is taken for ticks, though it is in seconds.)
IdleSooner(k) == pruner.now - bucket[k].last >= IdlePrune \div Second

\* (Faulty: the bucket must also be full, but tokens are refilled on use only.)
IdleAndFull(k) ==
    /\ pruner.now - bucket[k].last >= IdlePrune
    /\ bucket[k].tokens >= Widest[k] * Minute

Idle(k) == pruner.now - bucket[k].last >= IdlePrune

Prune(k) ==
    /\ pruner.active
    /\ k \in pruner.unseen
    /\ IF k \in buckets /\ Idle(k)
       THEN /\ buckets' = buckets \ {k}
            /\ bucket' = [bucket EXCEPT ![k] = NoBucket]
       ELSE UNCHANGED <<buckets, bucket>>
    /\ pruner' = IF pruner.unseen = {k} THEN Resting
                 ELSE [pruner EXCEPT !.unseen = @ \ {k}]
    /\ UNCHANGED <<clock, history>>

RateTick ==
    /\ clock < MaxClock
    /\ clock' = clock + 1
    /\ mark' = [k \in Keys |-> [mark[k] EXCEPT ![clock + 1] = granted[k]]]
    /\ UNCHANGED <<serverVars, granted, promise>>

Pruning == PruneStart \/ \E k \in Keys : Prune(k)

RateNext ==
    \/ \E c \in Callers : Check(c)
    \/ Pruning
    \/ RateTick

RateSpec == RateInit /\ [][RateNext]_rateVars

\* Time passes, and the reaper task is woken by its timer and runs to its end.
FairRateSpec == RateSpec /\ WF_rateVars(RateTick) /\ WF_rateVars(Pruning)

-----------------------------------------------------------------------------

\* What a bucket knows of the past: in every span that ends with its last use,
\* the requests granted and the tokens left are covered by the burst and the
\* refill.  After its last use nothing was granted; a bucket that was pruned had
\* time to fill up.
KeyInv(k) ==
    \A t \in 0..clock :
        IF k \notin buckets
        THEN Minute * (granted[k] - mark[k][t]) <= Widest[k] * (clock - t)
        ELSE IF t > bucket[k].last
        THEN granted[k] = mark[k][t]
        ELSE Minute * (granted[k] - mark[k][t]) + bucket[k].tokens
                <= Widest[k] * Minute + Widest[k] * (bucket[k].last - t)

RateInv == RateTypeOK /\ \A k \in Keys : KeyInv(k)

\* In any span of time a key is granted at most a burst, plus what its rate
\* yields in that span: whatever its callers do, however often its bucket is
\* pruned and created anew, and also when callers of different rates share it.
AdmissionBound ==
    \A k \in Keys : \A t \in 0..clock :
        Minute * (granted[k] - mark[k][t]) <= Widest[k] * Minute + Widest[k] * (clock - t)

\* "the number of whole seconds to wait before the next token is free" (check):
\* a caller that comes back then is admitted, unless its bucket is charged
\* meanwhile, and a second earlier it would not have been.
RetryAfterExact ==
    \A c \in Callers : promise[c] # NoPromise =>
        /\ Admits(c, promise[c])
        /\ promise[c] - Second >= clock => ~Admits(c, promise[c] - Second)

\* "removing them is equivalent to keeping them" (prune_idle): a bucket is
\* removed only if each of its callers would find it full, now and later.
PruneEquivalent ==
    [][\A c \in Callers :
         KeyOf[c] \in buckets \ buckets' =>
            \A t \in clock..MaxClock : Level(c, t) = Capacity(c)]_rateVars

\* A bucket that nobody uses is pruned, so distinct keys do not fill the map.
IdleEventuallyPruned ==
    \A k \in Keys :
        (k \in buckets /\ clock - bucket[k].last >= IdlePrune)
            ~> (k \notin buckets \/ clock - bucket[k].last < IdlePrune)

\* What the key of `c` was granted in the last minute.
LastMinute(c) ==
    granted[KeyOf[c]] - mark[KeyOf[c]][IF clock > Minute THEN clock - Minute ELSE 0]

\* "a per-caller token bucket" (README): a caller that shares its key with
\* nobody would be refused only if it was granted its rate in the last minute.
OwnRateWhenAlone ==
    \A c \in Callers :
        ~Admits(c, clock) /\ (\A d \in Callers : KeyOf[d] = KeyOf[c] => d = c) =>
            LastMinute(c) >= RuleOf(c).burst
=============================================================================
