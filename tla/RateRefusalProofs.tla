------------------------- MODULE RateRefusalProofs -------------------------
(***************************************************************************)
(* Theorems about the refusals of RateLimiter: what a refused caller is    *)
(* told, and when a caller is refused at all.                              *)
(***************************************************************************)
EXTENDS RateLimiterProofs

-----------------------------------------------------------------------------
(* Retry-After *)

\* Rounding up: the quotient is enough, and one less is not.
LEMMA CeilingDivision ==
    ASSUME NEW d \in Nat \ {0}, NEW f \in Nat \ {0},
           NEW q, q = (d + f - 1) \div f
    PROVE  /\ q \in Nat \ {0}
           /\ f * q >= d
           /\ f * q < d + f
<1> DEFINE n == d + f - 1
           r == n % f
<1>1. n \in Nat
  OBVIOUS
<1>2. q \in Nat /\ r \in 0 .. f - 1
  BY <1>1, Z3
<1>3. n = f * q + r
  BY <1>1, Z3
<1>4. f * q \in Nat
  BY <1>2
<1>5. f * q >= d /\ f * q < d + f
  <2> DEFINE m == f * q
  <2> HIDE DEF m, r
  <2> QED BY <1>2, <1>3, <1>4 DEF m
<1>6. q # 0
  BY <1>5
<1> QED BY <1>2, <1>5, <1>6

\* A bucket that is refused and left alone holds a token when its wait is over,
\* and none a second earlier (RateLimiter::check, retry_after).
LEMMA WaitIsExact ==
    ASSUME NEW c \in Callers, NEW level \in Nat, level < Minute,
           NEW wait,
           wait = (Minute - level + RuleOf(c).per_minute * Second - 1)
                      \div (RuleOf(c).per_minute * Second)
    PROVE  /\ wait \in Nat \ {0}
           /\ Refilled(level, Second * wait, c) >= Minute
           /\ Refilled(level, Second * wait - Second, c) < Minute
<1> DEFINE rate == RuleOf(c).per_minute
           refill == rate * Second
           deficit == Minute - level
<1> HIDE DEF rate, refill, deficit
<1>1. /\ rate \in Nat \ {0} /\ Second \in Nat \ {0} /\ Minute \in Nat \ {0}
      /\ Capacity(c) \in Nat /\ Capacity(c) >= Minute
  BY RuleType, RateAssumption DEF rate
<1>2. refill \in Nat \ {0}
  <2>1. rate * Second \in Nat /\ 1 * Second <= rate * Second
    BY <1>1, ProductMono
  <2> QED BY <1>1, <2>1 DEF refill
<1>3. deficit \in Nat \ {0}
  BY <1>1 DEF deficit
<1>4. wait = (deficit + refill - 1) \div refill
  BY DEF rate, refill, deficit
<1>5. wait \in Nat \ {0} /\ refill * wait >= deficit /\ refill * wait < deficit + refill
  BY <1>2, <1>3, <1>4, CeilingDivision
<1>6. (Second * wait) * rate = refill * wait
  BY <1>1, <1>5 DEF refill
<1>7. (Second * wait - Second) * rate = refill * wait - refill
  BY <1>1, <1>5 DEF refill
<1>8. refill * wait \in Nat
  BY <1>2, <1>5
<1>9. Refilled(level, Second * wait, c) >= Minute
  <2>1. level + refill * wait >= Minute
    BY <1>1, <1>3, <1>5, <1>8 DEF deficit
  <2>2. Refilled(level, Second * wait, c) =
          IF level + refill * wait < Capacity(c) THEN level + refill * wait ELSE Capacity(c)
    BY <1>6 DEF Refilled, rate
  <2> QED BY <1>1, <1>8, <2>1, <2>2
<1>10. Refilled(level, Second * wait - Second, c) < Minute
  <2>1. level + (refill * wait - refill) < Minute
    BY <1>1, <1>2, <1>3, <1>5, <1>8 DEF deficit
  <2>2. Refilled(level, Second * wait - Second, c) =
          IF level + (refill * wait - refill) < Capacity(c)
          THEN level + (refill * wait - refill) ELSE Capacity(c)
    BY <1>7 DEF Refilled, rate
  <2> QED BY <1>1, <1>2, <1>8, <2>1, <2>2
<1> QED BY <1>5, <1>9, <1>10

\* A refused caller is told the wait after which it would be admitted, and a
\* second before that it would still be refused.
LEMMA RefusedPromise ==
    ASSUME RateTypeOK, NEW c \in Callers, Check(c), ~Admits(c, clock)
    PROVE  /\ Admits(c, promise[c])'
           /\ ~Admits(c, promise[c] - Second)'
<1> DEFINE level == Level(c, clock)
           wait == RetryAfter(c)
<1>1. /\ KeyOf[c] \in Keys /\ clock \in Nat /\ Minute \in Nat /\ Second \in Nat
      /\ level \in Nat /\ level < Minute
  <2>1. level \in Nat
    BY LevelType
  <2>2. level < Minute
    <3>1. ~(level >= Minute)
      BY DEF Admits
    <3>2. Minute \in Nat
      BY RateAssumption
    <3> HIDE DEF level
    <3> QED BY <2>1, <3>1, <3>2
  <2>3. KeyOf[c] \in Keys
    BY RuleType
  <2>4. clock \in Nat
    BY DEF RateTypeOK
  <2> HIDE DEF level, wait
  <2> QED BY <2>1, <2>2, <2>3, <2>4, RateAssumption
<1>2. /\ KeyOf[c] \in buckets'
      /\ bucket'[KeyOf[c]] = [tokens |-> level, last |-> clock]
      /\ promise'[c] = clock + Second * wait
  BY <1>1 DEF Check, Charge, Promise, RateTypeOK
<1>3. wait = (Minute - level + RuleOf(c).per_minute * Second - 1)
                 \div (RuleOf(c).per_minute * Second)
  BY DEF RetryAfter
<1> HIDE DEF level, wait
<1>4. /\ wait \in Nat \ {0}
      /\ Refilled(level, Second * wait, c) >= Minute
      /\ Refilled(level, Second * wait - Second, c) < Minute
  BY <1>1, <1>3, WaitIsExact
<1>5. Second * wait \in Nat
  BY <1>1, <1>4
<1>6. /\ promise'[c] - clock = Second * wait
      /\ (promise'[c] - Second) - clock = Second * wait - Second
  BY <1>1, <1>2, <1>5
<1>7. /\ Level(c, promise[c])' = Refilled(level, promise'[c] - clock, c)
      /\ Level(c, promise[c] - Second)' = Refilled(level, (promise'[c] - Second) - clock, c)
  BY <1>2 DEF Level
<1>8. Level(c, promise[c])' >= Minute
  BY <1>4, <1>6, <1>7
<1>9. Level(c, promise[c] - Second)' < Minute
  BY <1>4, <1>6, <1>7
<1>10. Refilled(level, Second * wait - Second, c) \in Int
  BY <1>1, <1>5, RuleType DEF Refilled
<1> QED BY <1>1, <1>6, <1>7, <1>8, <1>9, <1>10 DEF Admits

\* What was promised to `c`, if anything.
PromiseInv(c) ==
    promise[c] # NoPromise =>
        /\ Admits(c, promise[c])
        /\ promise[c] - Second >= clock => ~Admits(c, promise[c] - Second)

\* A bucket that is pruned is idle for longer than the wait of any caller.
LEMMA PrunedPromise ==
    ASSUME RateTypeOK, NEW c \in Callers, PromiseInv(c), NEW k \in Keys, Prune(k)
    PROVE  PromiseInv(c)'
<1>1. UNCHANGED <<clock, promise>>
  BY DEF Prune, history
<1>2. CASE KeyOf[c] \in buckets' <=> KeyOf[c] \in buckets
  <2>1. KeyOf[c] \in buckets => bucket'[KeyOf[c]] = bucket[KeyOf[c]]
    BY <1>2, RuleType DEF Prune, RateTypeOK
  <2> QED BY <1>1, <1>2, <2>1 DEF PromiseInv, Admits, Level
<1>3. CASE KeyOf[c] \in buckets \ buckets'
  <2> SUFFICES ASSUME promise[c] # NoPromise
               PROVE  /\ Admits(c, promise[c])'
                      /\ ~(promise[c] - Second >= clock)
    BY <1>1 DEF PromiseInv
  <2> DEFINE b == bucket[KeyOf[c]]
  <2>1. k = KeyOf[c] /\ Idle(k)
    BY <1>3, RuleType DEF Prune
  <2>2. /\ clock \in Nat /\ promise[c] \in Nat /\ Second \in Nat /\ Minute \in Nat
        /\ b.last \in Nat /\ b.tokens \in Nat /\ pruner.now \in Nat /\ pruner.now <= clock
        /\ Capacity(c) \in Nat /\ Capacity(c) >= Minute
    BY <1>3, RuleType, RateAssumption DEF RateTypeOK, Bucket, Pruner
  <2>3. Admits(c, promise[c])'
    BY <1>3, <2>2 DEF Admits, Level
  <2>4. ASSUME promise[c] - Second >= clock
        PROVE  FALSE
    <3> DEFINE elapsed == (promise[c] - Second) - b.last
    <3>1. elapsed \in Nat /\ elapsed >= IdlePrune
      BY <2>1, <2>2, <2>4, RateAssumption DEF Idle
    <3>2. Refilled(b.tokens, elapsed, c) = Capacity(c)
      BY <2>2, <3>1, IdleIsFull
    <3>3. Level(c, promise[c] - Second) = Refilled(b.tokens, elapsed, c)
      BY <1>3 DEF Level
    <3>4. Admits(c, promise[c] - Second)
      BY <2>2, <3>2, <3>3 DEF Admits
    <3> QED BY <2>4, <3>4 DEF PromiseInv
  <2> QED BY <2>3, <2>4
<1>4. CASE KeyOf[c] \in buckets' \ buckets
  BY <1>4 DEF Prune
<1> QED BY <1>2, <1>3, <1>4

LEMMA PromiseNext ==
    ASSUME RateTypeOK, NEW c \in Callers, PromiseInv(c), [RateNext]_rateVars
    PROVE  PromiseInv(c)'
<1>1. ASSUME NEW d \in Callers, Check(d)
      PROVE  PromiseInv(c)'
  <2>1. CASE d = c /\ Admits(c, clock)
    BY <1>1, <2>1 DEF Check, Promise, PromiseInv
  <2>2. CASE d = c /\ ~Admits(c, clock)
    BY <1>1, <2>2, RefusedPromise DEF PromiseInv
  <2>3. CASE d # c /\ KeyOf[d] = KeyOf[c]
    BY <1>1, <2>3 DEF Check, Promise, PromiseInv
  <2>4. CASE d # c /\ KeyOf[d] # KeyOf[c]
    <3>1. /\ clock' = clock
          /\ promise'[c] = promise[c]
          /\ KeyOf[c] \in buckets' <=> KeyOf[c] \in buckets
          /\ bucket'[KeyOf[c]] = bucket[KeyOf[c]]
      BY <1>1, <2>4, RuleType DEF Check, Charge, Promise, RateTypeOK
    <3> QED BY <3>1 DEF PromiseInv, Admits, Level
  <2> QED BY <2>1, <2>2, <2>3, <2>4
<1>2. CASE PruneStart
  BY <1>2 DEF PruneStart, history, PromiseInv, Admits, Level
<1>3. ASSUME NEW k \in Keys, Prune(k)
      PROVE  PromiseInv(c)'
  BY <1>3, PrunedPromise
<1>4. CASE RateTick
  <2>1. UNCHANGED <<buckets, bucket, promise>>
    BY <1>4 DEF RateTick, serverVars
  <2>2. promise[c] # NoPromise /\ promise[c] - Second >= clock' => promise[c] - Second >= clock
    BY <1>4, RateAssumption DEF RateTick, RateTypeOK
  <2> QED BY <2>1, <2>2 DEF PromiseInv, Admits, Level
<1>5. CASE UNCHANGED rateVars
  BY <1>5 DEF rateVars, serverVars, history, PromiseInv, Admits, Level
<1> QED BY <1>1, <1>2, <1>3, <1>4, <1>5 DEF RateNext, Pruning

\* The wait a refused caller is told is exact, whatever happens in the meantime,
\* unless its bucket is charged (RateLimiter::check, Retry-After).
THEOREM RetriesExact == RateSpec => []RetryAfterExact
<1>1. RateInit => RetryAfterExact
  BY DEF RateInit, RetryAfterExact
<1>2. RateInv /\ RetryAfterExact /\ [RateNext]_rateVars => RetryAfterExact'
  <2> SUFFICES ASSUME RateInv, RetryAfterExact, [RateNext]_rateVars, NEW c \in Callers
               PROVE  PromiseInv(c)'
    BY DEF RetryAfterExact, PromiseInv
  <2> QED BY PromiseNext DEF RetryAfterExact, PromiseInv, RateInv
<1> QED BY <1>1, <1>2, RateInvariance, PTL DEF RateSpec

-----------------------------------------------------------------------------
(* Refusals of a caller that shares its bucket with nobody *)

Alone(c) == \A d \in Callers : KeyOf[d] = KeyOf[c] => d = c

\* Since any earlier time t, a caller that is alone has lost nothing: what it was
\* granted and what its bucket holds make up what its rate yields in that span,
\* and the whole burst if its history begins at t.
OwnCovered(c) ==
    \A t \in 0..clock :
        /\ mark[KeyOf[c]][t] <= granted[KeyOf[c]]
        /\ Level(c, clock) + Minute * (granted[KeyOf[c]] - mark[KeyOf[c]][t])
               >= IF t = 0 THEN Capacity(c) ELSE Refilled(0, clock - t, c)

OwnInv == \A c \in Callers : Alone(c) => OwnCovered(c)

\* A bucket is refilled tick by tick as it is in one go.
LEMMA RefillByTick ==
    ASSUME NEW c \in Callers, NEW tokens \in Nat, NEW elapsed \in Nat
    PROVE  Refilled(tokens, elapsed + 1, c) =
             IF Refilled(tokens, elapsed, c) + RuleOf(c).per_minute < Capacity(c)
             THEN Refilled(tokens, elapsed, c) + RuleOf(c).per_minute
             ELSE Capacity(c)
<1> DEFINE rate == RuleOf(c).per_minute
           x == elapsed * rate
<1> HIDE DEF rate
<1>1. rate \in Nat \ {0} /\ Capacity(c) \in Nat
  BY RuleType DEF rate
<1>2. x \in Nat /\ (elapsed + 1) * rate = x + rate
  BY <1>1
<1>3. /\ Refilled(tokens, elapsed, c) =
           IF tokens + x < Capacity(c) THEN tokens + x ELSE Capacity(c)
      /\ Refilled(tokens, elapsed + 1, c) =
           IF tokens + (x + rate) < Capacity(c) THEN tokens + (x + rate) ELSE Capacity(c)
  BY <1>2 DEF Refilled, rate
<1> HIDE DEF x
<1> QED BY <1>1, <1>2, <1>3 DEF rate

\* A tick adds a caller's rate to what it would find, up to its capacity.
LEMMA LevelTick ==
    ASSUME RateTypeOK, NEW c \in Callers, RateTick
    PROVE  Level(c, clock)' =
             IF Level(c, clock) + RuleOf(c).per_minute < Capacity(c)
             THEN Level(c, clock) + RuleOf(c).per_minute
             ELSE Capacity(c)
<1>1. /\ UNCHANGED <<buckets, bucket>> /\ clock' = clock + 1
      /\ RuleOf(c).per_minute \in Nat /\ Capacity(c) \in Nat
  BY RuleType DEF RateTick, serverVars
<1>2. CASE KeyOf[c] \in buckets
  <2> DEFINE b == bucket[KeyOf[c]]
  <2>1. b.tokens \in Nat /\ clock - b.last \in Nat /\ (clock + 1) - b.last = (clock - b.last) + 1
    BY <1>2, RuleType, RateAssumption DEF RateTypeOK, Bucket
  <2>2. /\ Level(c, clock) = Refilled(b.tokens, clock - b.last, c)
        /\ Level(c, clock)' = Refilled(b.tokens, (clock - b.last) + 1, c)
    BY <1>1, <1>2, <2>1 DEF Level
  <2> QED BY <2>1, <2>2, RefillByTick
<1>3. CASE KeyOf[c] \notin buckets
  BY <1>1, <1>3 DEF Level
<1> QED BY <1>2, <1>3

\* The only caller of a bucket is charged to it.
LEMMA ChargedOwn ==
    ASSUME RateTypeOK, NEW c \in Callers, OwnCovered(c), Check(c)
    PROVE  OwnCovered(c)'
<1> DEFINE k == KeyOf[c]
           level == Level(c, clock)
<1>1. /\ k \in Keys /\ clock \in Nat /\ Minute \in Nat /\ granted[k] \in Nat
      /\ level \in Nat /\ level <= Capacity(c)
  <2>1. k \in Keys
    BY RuleType
  <2>2. clock \in Nat /\ granted[k] \in Nat
    BY <2>1, RateAssumption DEF RateTypeOK
  <2> HIDE DEF k
  <2> QED BY <2>1, <2>2, LevelType, RateAssumption
<1>2. /\ clock' = clock /\ mark' = mark /\ k \in buckets'
      /\ bucket'[k].last = clock
      /\ bucket'[k].tokens = IF Admits(c, clock) THEN level - Minute ELSE level
      /\ granted'[k] = IF Admits(c, clock) THEN granted[k] + 1 ELSE granted[k]
  BY <1>1 DEF Check, Charge, RateTypeOK
<1>3. Level(c, clock)' = bucket'[k].tokens
  <2>1. bucket'[k].tokens \in Nat /\ bucket'[k].tokens <= Capacity(c)
    <3> HIDE DEF k, level
    <3>1. Admits(c, clock) => level >= Minute
      BY DEF Admits, level
    <3> QED BY <1>1, <1>2, <3>1, RuleType
  <2>2. clock - clock = 0 /\ 0 * RuleOf(c).per_minute = 0
    BY <1>1, RuleType
  <2>3. Level(c, clock)' = Refilled(bucket'[k].tokens, clock - clock, c)
    BY <1>2 DEF Level
  <2> HIDE DEF k, level
  <2> QED BY <2>1, <2>2, <2>3, RuleType DEF Refilled
<1> SUFFICES ASSUME NEW t \in 0..clock
             PROVE  /\ mark[k][t] <= granted'[k]
                    /\ Level(c, clock)' + Minute * (granted'[k] - mark[k][t])
                           = level + Minute * (granted[k] - mark[k][t])
  BY <1>2 DEF OwnCovered
<1> DEFINE m == mark[k][t]
<1>4. m \in Nat /\ m <= granted[k]
  BY <1>1, RateAssumption DEF OwnCovered, RateTypeOK
<1>5. Minute * ((granted[k] + 1) - m) = Minute * (granted[k] - m) + Minute
  <2>1. (granted[k] + 1) - m = (granted[k] - m) + 1 /\ granted[k] - m \in Int
    BY <1>1, <1>4
  <2> HIDE DEF k, m
  <2> QED BY <1>1, <2>1, ProductSum
<1>6. Minute * (granted[k] - m) \in Nat
  <2>1. granted[k] - m \in Nat
    BY <1>1, <1>4
  <2> QED BY <1>1, <2>1
<1> HIDE DEF k, level, m
<1>7. Level(c, clock)' + Minute * (granted'[k] - m) = level + Minute * (granted[k] - m)
  BY <1>1, <1>2, <1>3, <1>5, <1>6
<1> QED BY <1>1, <1>2, <1>4, <1>7 DEF k, level, m

\* What a caller would find is the same before and after its bucket is pruned.
LEMMA PrunedLevel ==
    ASSUME RateTypeOK, NEW c \in Callers, NEW j \in Keys, Prune(j)
    PROVE  Level(c, clock)' = Level(c, clock)
<1>1. clock' = clock
  BY DEF Prune
<1>2. CASE KeyOf[c] \in buckets' <=> KeyOf[c] \in buckets
  <2>1. KeyOf[c] \in buckets => bucket'[KeyOf[c]] = bucket[KeyOf[c]]
    BY <1>2, RuleType DEF Prune, RateTypeOK
  <2> QED BY <1>1, <1>2, <2>1 DEF Level
<1>3. CASE KeyOf[c] \in buckets \ buckets'
  <2> DEFINE b == bucket[KeyOf[c]]
  <2>1. j = KeyOf[c] /\ Idle(j)
    BY <1>3 DEF Prune
  <2>2. b.tokens \in Nat /\ clock - b.last \in Nat /\ clock - b.last >= IdlePrune
    <3>1. clock \in Nat /\ pruner.now \in Nat /\ pruner.now <= clock
      BY RateAssumption DEF RateTypeOK, Pruner
    <3>2. b.tokens \in Nat /\ b.last \in Nat /\ b.last <= clock
      BY <1>3, <2>1 DEF RateTypeOK, Bucket
    <3>3. pruner.now - b.last >= IdlePrune
      BY <2>1 DEF Idle
    <3> HIDE DEF b
    <3> QED BY <3>1, <3>2, <3>3, RateAssumption
  <2>3. Level(c, clock) = Refilled(b.tokens, clock - b.last, c)
    BY <1>3 DEF Level
  <2> QED BY <1>3, <2>2, <2>3, IdleIsFull DEF Level
<1>4. CASE KeyOf[c] \in buckets' \ buckets
  BY <1>4 DEF Prune
<1> QED BY <1>2, <1>3, <1>4

\* Time adds to every span what the rate yields, unless the bucket is full.
LEMMA TickOwn ==
    ASSUME RateTypeOK, NEW c \in Callers, OwnCovered(c), RateTick
    PROVE  OwnCovered(c)'
<1> DEFINE k == KeyOf[c]
           level == Level(c, clock)
           rate == RuleOf(c).per_minute
<1>1. /\ k \in Keys /\ clock \in Nat /\ Minute \in Nat /\ granted[k] \in Nat
      /\ clock' = clock + 1 /\ granted' = granted /\ clock < MaxClock
      /\ level \in Nat /\ rate \in Nat /\ Capacity(c) \in Nat
  <2>1. /\ k \in Keys /\ clock \in Nat /\ Minute \in Nat /\ granted[k] \in Nat
    BY RuleType, RateAssumption DEF RateTypeOK
  <2>2. clock' = clock + 1 /\ granted' = granted /\ clock < MaxClock
    BY DEF RateTick
  <2> QED BY <2>1, <2>2, RuleType, LevelType
<1>2. /\ \A t \in 0..clock : mark'[k][t] = mark[k][t]
      /\ mark'[k][clock + 1] = granted[k]
  BY <1>1, RateAssumption DEF RateTick, RateTypeOK
<1>3. Level(c, clock)' = IF level + rate < Capacity(c) THEN level + rate ELSE Capacity(c)
  BY LevelTick
<1> SUFFICES ASSUME NEW t \in 0..clock'
             PROVE  /\ mark'[k][t] <= granted[k]
                    /\ Level(c, clock)' + Minute * (granted[k] - mark'[k][t])
                           >= IF t = 0 THEN Capacity(c) ELSE Refilled(0, clock' - t, c)
  BY <1>1 DEF OwnCovered
<1>4. CASE t = clock + 1
  <2>1. mark'[k][t] = granted[k] /\ granted[k] - granted[k] = 0
    BY <1>1, <1>2, <1>4
  <2>2. t # 0 /\ clock' - t = 0
    BY <1>1, <1>4
  <2>3. Refilled(0, 0, c) = 0
    <3>1. 0 + 0 * rate = 0
      BY <1>1
    <3>2. Capacity(c) > 0
      BY RuleType, RateAssumption
    <3> QED BY <1>1, <3>1, <3>2 DEF Refilled
  <2>4. Minute * 0 = 0 /\ Level(c, clock)' >= 0 /\ Level(c, clock)' \in Nat
    BY <1>1, <1>3
  <2> HIDE DEF k, level, rate
  <2> QED BY <1>1, <2>1, <2>2, <2>3, <2>4
<1>5. CASE t \in 0..clock
  <2> DEFINE m == mark[k][t]
             used == Minute * (granted[k] - m)
  <2>1. mark'[k][t] = m /\ m \in Nat /\ m <= granted[k]
    BY <1>1, <1>2, <1>5, RateAssumption DEF OwnCovered, RateTypeOK
  <2>2. used \in Nat
    <3>1. granted[k] - m \in Nat
      BY <1>1, <2>1
    <3> QED BY <1>1, <3>1
  <2>3. level + used >= IF t = 0 THEN Capacity(c) ELSE Refilled(0, clock - t, c)
    BY <1>5 DEF OwnCovered
  <2>4. /\ clock' - t = (clock - t) + 1
        /\ clock - t \in Nat
    BY <1>1, <1>5
  <2>5. /\ Refilled(0, clock - t, c) \in Nat
        /\ Refilled(0, clock' - t, c) =
             IF Refilled(0, clock - t, c) + rate < Capacity(c)
             THEN Refilled(0, clock - t, c) + rate ELSE Capacity(c)
    BY <2>4, RefillByTick, RefilledBounds
  <2> HIDE DEF k, level, rate, m, used
  <2>6. Level(c, clock)' + used >= IF t = 0 THEN Capacity(c) ELSE Refilled(0, clock' - t, c)
    BY <1>1, <1>3, <2>2, <2>3, <2>5
  <2> QED BY <2>1, <2>6 DEF used
<1> QED BY <1>1, <1>4, <1>5

LEMMA OwnInit == RateInit => OwnInv
<1> SUFFICES ASSUME RateInit, NEW c \in Callers
             PROVE  OwnCovered(c)
  BY DEF OwnInv
<1>1. /\ KeyOf[c] \in Keys /\ Capacity(c) \in Nat /\ MaxClock \in Nat
      /\ Level(c, clock) = Capacity(c)
  BY RuleType, RateAssumption DEF RateInit, Level
<1>2. \A t \in 0..clock : t = 0 /\ mark[KeyOf[c]][t] = 0
  BY <1>1 DEF RateInit
<1>3. granted[KeyOf[c]] = 0 /\ Minute * (0 - 0) = 0
  BY <1>1, RateAssumption DEF RateInit
<1> QED BY <1>1, <1>2, <1>3 DEF OwnCovered

LEMMA OwnNext == RateTypeOK /\ OwnInv /\ [RateNext]_rateVars => OwnInv'
<1> SUFFICES ASSUME RateTypeOK, OwnInv, [RateNext]_rateVars, NEW c \in Callers, Alone(c)
             PROVE  OwnCovered(c)'
  BY DEF OwnInv, Alone
<1>1. OwnCovered(c)
  BY DEF OwnInv
<1>2. ASSUME NEW d \in Callers, Check(d)
      PROVE  OwnCovered(c)'
  <2>1. CASE d = c
    BY <1>1, <1>2, <2>1, ChargedOwn
  <2>2. CASE d # c
    <3>1. KeyOf[d] # KeyOf[c]
      BY <2>2 DEF Alone
    <3>2. /\ UNCHANGED <<clock, mark>>
          /\ KeyOf[c] \in buckets' <=> KeyOf[c] \in buckets
          /\ bucket'[KeyOf[c]] = bucket[KeyOf[c]]
          /\ granted'[KeyOf[c]] = granted[KeyOf[c]]
      BY <1>2, <3>1, RuleType DEF Check, Charge, RateTypeOK
    <3> QED BY <1>1, <3>2 DEF OwnCovered, Level
  <2> QED BY <2>1, <2>2
<1>3. CASE PruneStart
  BY <1>1, <1>3 DEF PruneStart, history, OwnCovered, Level
<1>4. ASSUME NEW k \in Keys, Prune(k)
      PROVE  OwnCovered(c)'
  <2>1. Level(c, clock)' = Level(c, clock)
    BY <1>4, PrunedLevel
  <2>2. UNCHANGED <<clock, mark, granted>>
    BY <1>4 DEF Prune, history
  <2> QED BY <1>1, <2>1, <2>2 DEF OwnCovered
<1>5. CASE RateTick
  BY <1>1, <1>5, TickOwn
<1>6. CASE UNCHANGED rateVars
  BY <1>1, <1>6 DEF rateVars, serverVars, history, OwnCovered, Level
<1> QED BY <1>2, <1>3, <1>4, <1>5, <1>6 DEF RateNext, Pruning

\* What a refused caller that is alone was granted in the last minute.
LEMMA RefusedHadItsRate ==
    ASSUME RateTypeOK, NEW c \in Callers, OwnCovered(c), ~Admits(c, clock)
    PROVE  LastMinute(c) >= RuleOf(c).burst
<1> DEFINE rate == RuleOf(c).per_minute
           level == Level(c, clock)
           t == IF clock > Minute THEN clock - Minute ELSE 0
           spent == LastMinute(c)
<1>1. /\ KeyOf[c] \in Keys /\ clock \in Nat /\ clock <= MaxClock /\ MaxClock \in Nat
      /\ Minute \in Nat \ {0}
  BY RuleType, RateAssumption DEF RateTypeOK
<1>2. /\ level \in Nat /\ level < Minute
      /\ rate \in Nat \ {0} /\ Capacity(c) = rate * Minute
      /\ RuleOf(c).burst = rate
  <2>1. level \in Nat /\ ~(level >= Minute)
    BY LevelType DEF Admits
  <2> QED BY <1>1, <2>1, RuleType
<1>3. t \in 0..clock /\ t \in 0..MaxClock
  BY <1>1
<1>4. spent = granted[KeyOf[c]] - mark[KeyOf[c]][t] /\ spent \in Int
  BY <1>1, <1>3 DEF LastMinute, RateTypeOK
<1>5. level + Minute * spent >= Capacity(c)
  <2>1. level + Minute * spent >= IF t = 0 THEN Capacity(c) ELSE Refilled(0, clock - t, c)
    BY <1>3, <1>4 DEF OwnCovered
  <2>2. CASE t = 0
    BY <2>1, <2>2
  <2>3. CASE t # 0
    <3>1. clock - t = Minute
      BY <1>1, <2>3
    <3>2. Minute * rate = rate * Minute /\ rate * Minute \in Nat
      BY <1>1, <1>2
    <3>3. Refilled(0, Minute, c) = Capacity(c)
      <4> HIDE DEF rate
      <4>1. Refilled(0, Minute, c) =
              IF 0 + Minute * rate < Capacity(c) THEN 0 + Minute * rate ELSE Capacity(c)
        BY DEF Refilled, rate
      <4> QED BY <1>2, <3>2, <4>1
    <3> QED BY <2>1, <2>3, <3>1, <3>3
  <2> QED BY <2>2, <2>3
<1> HIDE DEF rate, level, t, spent
<1>6. SUFFICES ASSUME spent < rate
               PROVE  FALSE
  BY <1>2, <1>4 DEF spent
<1>7. spent <= rate - 1 /\ rate - 1 \in Int
  BY <1>2, <1>4, <1>6
<1>8. spent * Minute <= (rate - 1) * Minute
  BY <1>1, <1>4, <1>7, ProductMono
<1>9. (rate - 1) * Minute = rate * Minute - Minute /\ spent * Minute = Minute * spent
  BY <1>1, <1>2, <1>4
<1>10. rate * Minute \in Nat /\ Minute * spent \in Int
  BY <1>1, <1>2, <1>4
<1> QED BY <1>1, <1>2, <1>5, <1>8, <1>9, <1>10

\* A caller that shares its name with nobody is refused only if it was granted
\* its rate in the last minute, however often its bucket was pruned meanwhile
\* (RateLimiter::check, "a per-caller token bucket").
THEOREM RateIsGranted == RateSpec => []OwnRateWhenAlone
<1>1. RateInit => OwnInv
  BY OwnInit
<1>2. RateInv /\ OwnInv /\ [RateNext]_rateVars => OwnInv'
  BY OwnNext DEF RateInv
<1>3. RateInv /\ OwnInv => OwnRateWhenAlone
  BY RefusedHadItsRate DEF RateInv, OwnInv, Alone, OwnRateWhenAlone
<1> QED BY <1>1, <1>2, <1>3, RateInvariance, PTL DEF RateSpec

=============================================================================
