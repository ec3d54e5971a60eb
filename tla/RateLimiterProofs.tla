------------------------- MODULE RateLimiterProofs -------------------------
(***************************************************************************)
(* Theorems about RateLimiter, for every set of callers, every assignment  *)
(* of keys and rates, and every unit of time.                              *)
(***************************************************************************)
EXTENDS RateLimiter, TLAPS

-----------------------------------------------------------------------------
(* Products *)

\* A product grows with its first factor.
LEMMA ProductMono ==
    ASSUME NEW a \in Int, NEW b \in Int, NEW c \in Nat, a <= b
    PROVE  a * c <= b * c
<1>1. b - a \in Nat
  OBVIOUS
<1>2. (b - a) * c \in Nat
  BY <1>1
<1>3. (b - a) * c = b * c - a * c
  OBVIOUS
<1> QED BY <1>2, <1>3

LEMMA Commute ==
    ASSUME NEW a \in Int, NEW b \in Int
    PROVE  a * b = b * a
OBVIOUS

LEMMA ProductSum ==
    ASSUME NEW a \in Int, NEW b \in Int, NEW c \in Int
    PROVE  a * (b + c) = a * b + a * c
OBVIOUS

-----------------------------------------------------------------------------
(* Rates and levels *)

\* RateRule::new keeps a rate positive, and no caller has more than the widest
\* rate of its key.
LEMMA RuleType ==
    ASSUME NEW c \in Callers
    PROVE  /\ KeyOf[c] \in Keys
           /\ RuleOf(c).per_minute \in Nat \ {0}
           /\ RuleOf(c).burst = RuleOf(c).per_minute
           /\ RuleOf(c).per_minute <= Widest[KeyOf[c]]
           /\ Widest[KeyOf[c]] \in Nat \ {0}
           /\ Capacity(c) = RuleOf(c).per_minute * Minute
           /\ Capacity(c) \in Nat
           /\ Capacity(c) >= Minute
           /\ Capacity(c) <= Widest[KeyOf[c]] * Minute
<1>1. /\ KeyOf[c] \in Keys
      /\ RuleOf(c).per_minute \in Nat \ {0}
      /\ RuleOf(c).burst = RuleOf(c).per_minute
      /\ RuleOf(c).per_minute <= Widest[KeyOf[c]]
      /\ Widest[KeyOf[c]] \in Nat \ {0}
  BY RateAssumption DEF RuleOf, NewRule
<1>2. Capacity(c) = RuleOf(c).per_minute * Minute
  BY <1>1 DEF Capacity
<1> DEFINE rate == RuleOf(c).per_minute
<1> HIDE DEF rate
<1>3. rate \in Nat \ {0} /\ Minute \in Nat \ {0}
  BY <1>1, RateAssumption DEF rate
<1>4. rate * Minute \in Nat /\ 1 * Minute <= rate * Minute
  BY <1>3, ProductMono
<1>5. rate * Minute <= Widest[KeyOf[c]] * Minute
  BY <1>1, <1>3, ProductMono DEF rate
<1> QED BY <1>1, <1>2, <1>3, <1>4, <1>5 DEF rate

\* A refilled bucket holds no more than the capacity, and no more than what was
\* there and what its rate yields.
LEMMA RefilledBounds ==
    ASSUME NEW c \in Callers, NEW tokens \in Nat, NEW elapsed \in Nat
    PROVE  /\ Refilled(tokens, elapsed, c) \in Nat
           /\ Refilled(tokens, elapsed, c) <= Capacity(c)
           /\ Refilled(tokens, elapsed, c) <= tokens + Widest[KeyOf[c]] * elapsed
<1> DEFINE rate == RuleOf(c).per_minute
<1> HIDE DEF rate
<1>1. rate \in Nat /\ rate <= Widest[KeyOf[c]] /\ Widest[KeyOf[c]] \in Nat /\ Capacity(c) \in Nat
  BY RuleType DEF rate
<1>2. elapsed * rate \in Nat /\ elapsed * rate = rate * elapsed
  BY <1>1
<1>3. rate * elapsed <= Widest[KeyOf[c]] * elapsed
  BY <1>1, ProductMono
<1>4. Refilled(tokens, elapsed, c) =
        IF tokens + elapsed * rate < Capacity(c) THEN tokens + elapsed * rate ELSE Capacity(c)
  BY DEF Refilled, rate
<1>5. Widest[KeyOf[c]] * elapsed \in Nat
  BY <1>1
<1> QED BY <1>1, <1>2, <1>3, <1>4, <1>5

\* A bucket that was left alone for IdlePrune is full for each of its callers.
LEMMA IdleIsFull ==
    ASSUME NEW c \in Callers, NEW tokens \in Nat, NEW elapsed \in Nat,
           elapsed >= IdlePrune
    PROVE  Refilled(tokens, elapsed, c) = Capacity(c)
<1> DEFINE rate == RuleOf(c).per_minute
<1> HIDE DEF rate
<1>1. /\ rate \in Nat
      /\ Capacity(c) \in Nat
      /\ Capacity(c) = rate * Minute
      /\ Minute \in Nat
      /\ Minute <= elapsed
  BY RuleType, RateAssumption DEF rate
<1>2. Minute * rate <= elapsed * rate
  BY <1>1, ProductMono
<1>3. Minute * rate = rate * Minute
  BY <1>1, Commute
<1>4. elapsed * rate \in Nat
  BY <1>1
<1>5. tokens + elapsed * rate >= Capacity(c)
  BY <1>1, <1>2, <1>3, <1>4
<1> QED BY <1>1, <1>4, <1>5 DEF Refilled, rate

LEMMA LevelType ==
    ASSUME RateTypeOK, NEW c \in Callers
    PROVE  /\ Level(c, clock) \in Nat
           /\ Level(c, clock) <= Capacity(c)
<1>1. CASE KeyOf[c] \in buckets
  <2>1. /\ bucket[KeyOf[c]].tokens \in Nat
        /\ clock - bucket[KeyOf[c]].last \in Nat
    BY <1>1, RuleType, RateAssumption DEF RateTypeOK, Bucket
  <2> QED BY <1>1, <2>1, RefilledBounds DEF Level
<1>2. CASE KeyOf[c] \notin buckets
  BY <1>2, RuleType DEF Level
<1> QED BY <1>1, <1>2

-----------------------------------------------------------------------------
(* Types *)

LEMMA RetryAfterType ==
    ASSUME RateTypeOK, NEW c \in Callers, ~Admits(c, clock)
    PROVE  Second * RetryAfter(c) \in Nat
<1> DEFINE deficit == Minute - Level(c, clock)
           refill == RuleOf(c).per_minute * Second
<1> HIDE DEF deficit, refill
<1>1. deficit \in Nat
  BY LevelType, RateAssumption DEF Admits, deficit
<1>2. refill \in Nat \ {0}
  <2>1. RuleOf(c).per_minute \in Nat \ {0} /\ Second \in Nat \ {0}
    BY RuleType, RateAssumption
  <2>2. RuleOf(c).per_minute * Second \in Nat
    BY <2>1
  <2>3. 1 * Second <= RuleOf(c).per_minute * Second
    BY <2>1, ProductMono
  <2> QED BY <2>1, <2>2, <2>3 DEF refill
<1>3. deficit + refill - 1 \in Nat
  BY <1>1, <1>2
<1>4. (deficit + refill - 1) \div refill \in Nat
  BY <1>2, <1>3
<1>5. RetryAfter(c) \in Nat
  BY <1>4 DEF RetryAfter, deficit, refill
<1> QED BY <1>5, RateAssumption

LEMMA RateTypeInit == RateInit => RateTypeOK
BY RateAssumption DEF RateInit, RateTypeOK, Bucket, NoBucket, Pruner, Resting, NoPromise

LEMMA RateTypeNext == RateTypeOK /\ [RateNext]_rateVars => RateTypeOK'
<1> SUFFICES ASSUME RateTypeOK, [RateNext]_rateVars
             PROVE  RateTypeOK'
  OBVIOUS
<1>1. ASSUME NEW c \in Callers, Check(c)
      PROVE  RateTypeOK'
  <2>1. KeyOf[c] \in Keys
    BY RuleType
  <2>2. UNCHANGED <<clock, pruner, mark>>
    BY <1>1 DEF Check
  <2>3. Level(c, clock) \in Nat /\ Minute \in Nat
    BY LevelType, RateAssumption
  <2>4. bucket' \in [Keys -> Bucket]
    <3>1. Admits(c, clock) => Level(c, clock) - Minute \in Nat
      BY <2>3 DEF Admits
    <3> QED BY <1>1, <2>1, <2>3, <3>1, RateAssumption DEF Check, Charge, RateTypeOK, Bucket
  <2>5. /\ buckets' \in SUBSET Keys
        /\ \A k \in buckets' : bucket'[k].last <= clock
    BY <1>1, <2>1, RateAssumption DEF Check, Charge, RateTypeOK, Bucket
  <2>6. granted' \in [Keys -> Nat]
    BY <1>1, <2>1 DEF Check, RateTypeOK
  <2>7. promise' \in [Callers -> Nat \cup {NoPromise}]
    <3>1. ~Admits(c, clock) => clock + Second * RetryAfter(c) \in Nat
      BY RetryAfterType, RateAssumption DEF RateTypeOK
    <3> QED BY <1>1, <3>1 DEF Check, Promise, RateTypeOK
  <2> QED BY <2>2, <2>4, <2>5, <2>6, <2>7 DEF RateTypeOK
<1>2. CASE PruneStart
  BY <1>2, RateAssumption DEF PruneStart, RateTypeOK, Pruner, history
<1>3. ASSUME NEW k \in Keys, Prune(k)
      PROVE  RateTypeOK'
  <2>1. pruner' \in Pruner /\ pruner'.now <= clock
    <3>1. pruner \in Pruner /\ pruner.now <= clock /\ clock \in Nat
      BY RateAssumption DEF RateTypeOK
    <3>2. CASE pruner' = Resting
      BY <3>1, <3>2 DEF Pruner, Resting
    <3>3. CASE pruner' = [pruner EXCEPT !.unseen = pruner.unseen \ {k}]
      BY <3>1, <3>3 DEF Pruner
    <3> QED BY <1>3, <3>2, <3>3 DEF Prune
  <2>2. /\ buckets' \in SUBSET Keys
        /\ bucket' \in [Keys -> Bucket]
        /\ \A j \in buckets' : bucket'[j].last <= clock
    <3>1. NoBucket \in Bucket
      BY DEF Bucket, NoBucket
    <3>2. CASE UNCHANGED <<buckets, bucket>>
      BY <3>2 DEF RateTypeOK
    <3>3. CASE /\ buckets' = buckets \ {k}
               /\ bucket' = [bucket EXCEPT ![k] = NoBucket]
      BY <3>1, <3>3 DEF RateTypeOK
    <3> QED BY <1>3, <3>2, <3>3 DEF Prune
  <2> QED BY <1>3, <2>1, <2>2 DEF Prune, RateTypeOK, history
<1>4. CASE RateTick
  <2>1. clock' \in 0..MaxClock /\ clock <= clock'
    BY <1>4, RateAssumption DEF RateTick, RateTypeOK
  <2>2. mark' \in [Keys -> [0..MaxClock -> Nat]]
    BY <1>4 DEF RateTick, RateTypeOK
  <2>3. \A k \in buckets' : bucket'[k].last <= clock'
    BY <1>4, <2>1, RateAssumption DEF RateTick, RateTypeOK, Bucket, serverVars
  <2>4. pruner'.now <= clock'
    BY <1>4, <2>1, RateAssumption DEF RateTick, RateTypeOK, Pruner, serverVars
  <2> QED BY <1>4, <2>1, <2>2, <2>3, <2>4 DEF RateTick, RateTypeOK, serverVars
<1>5. CASE UNCHANGED rateVars
  BY <1>5 DEF rateVars, serverVars, history, RateTypeOK
<1> QED BY <1>1, <1>2, <1>3, <1>4, <1>5 DEF RateNext, Pruning

-----------------------------------------------------------------------------
(* What a bucket knows of the past *)

\* At any time, the requests granted since t and the tokens a caller would find
\* now are covered by the burst and the refill since t.
LEMMA LevelCovered ==
    ASSUME RateTypeOK, NEW c \in Callers, KeyInv(KeyOf[c]), NEW t \in 0..clock
    PROVE  LET k == KeyOf[c]
           IN  Minute * (granted[k] - mark[k][t]) + Level(c, clock)
                   <= Widest[k] * Minute + Widest[k] * (clock - t)
<1> DEFINE k == KeyOf[c]
           w == Widest[k]
           used == Minute * (granted[k] - mark[k][t])
<1>1. /\ k \in Keys /\ w \in Nat /\ Minute \in Nat /\ clock \in Nat /\ t \in Nat
      /\ Capacity(c) \in Nat /\ Capacity(c) <= w * Minute
  BY RuleType, RateAssumption DEF RateTypeOK
<1>2. granted[k] - mark[k][t] \in Int
  BY <1>1, RateAssumption DEF RateTypeOK
<1>3. used \in Int /\ w * Minute \in Nat
  BY <1>1, <1>2
<1>4. clock - t \in Nat
  BY <1>1
<1>5. w * (clock - t) \in Nat
  BY <1>1, <1>4
<1>6. CASE k \notin buckets
  <2>1. used <= w * (clock - t)
    BY <1>6 DEF KeyInv
  <2>2. Level(c, clock) = Capacity(c)
    BY <1>6 DEF Level
  <2> HIDE DEF w, used
  <2> QED BY <1>1, <1>3, <1>5, <2>1, <2>2 DEF w, used
<1>7. CASE k \in buckets
  <2> DEFINE last == bucket[k].last
             tokens == bucket[k].tokens
  <2>1. last \in Nat /\ tokens \in Nat /\ clock - last \in Nat
    BY <1>1, <1>7 DEF RateTypeOK, Bucket
  <2>2. Level(c, clock) = Refilled(tokens, clock - last, c)
    BY <1>7 DEF Level
  <2>3. /\ Level(c, clock) \in Nat
        /\ Level(c, clock) <= Capacity(c)
        /\ Level(c, clock) <= tokens + w * (clock - last)
    BY <2>1, <2>2, RefilledBounds
  <2>4. CASE t > last
    <3>1. granted[k] = mark[k][t]
      BY <1>7, <2>4 DEF KeyInv
    <3>2. granted[k] - mark[k][t] = 0
      BY <1>1, <3>1 DEF RateTypeOK
    <3>3. used = 0
      BY <1>1, <3>2
    <3> HIDE DEF w, used, last, tokens
    <3> QED BY <1>1, <1>3, <1>5, <2>3, <3>3 DEF w, used
  <2>5. CASE ~(t > last)
    <3>1. used + tokens <= w * Minute + w * (last - t)
      BY <1>7, <2>5 DEF KeyInv
    <3> HIDE DEF w, used, last, tokens
    <3>2. last - t \in Nat
      BY <1>1, <2>1, <2>5
    <3>3. w * ((last - t) + (clock - last)) = w * (last - t) + w * (clock - last)
      BY <1>1, <2>1, <3>2, ProductSum
    <3>4. (last - t) + (clock - last) = clock - t
      BY <1>1, <2>1
    <3>5. w * (last - t) \in Nat /\ w * (clock - last) \in Nat
      BY <1>1, <2>1, <3>2
    <3>6. used + Level(c, clock) <= w * Minute + w * (clock - t)
      BY <1>3, <1>5, <2>1, <2>3, <3>1, <3>3, <3>4, <3>5
    <3> QED BY <3>6 DEF w, used
  <2> QED BY <2>4, <2>5
<1> QED BY <1>6, <1>7

\* The bucket that a request is charged to.
LEMMA ChargedKeyInv ==
    ASSUME RateTypeOK, NEW c \in Callers, KeyInv(KeyOf[c]), Check(c)
    PROVE  KeyInv(KeyOf[c])'
<1> DEFINE k == KeyOf[c]
<1>1. k \in Keys /\ Minute \in Nat /\ clock \in Nat
  BY RuleType, RateAssumption DEF RateTypeOK
<1>2. /\ clock' = clock /\ mark' = mark
      /\ k \in buckets'
      /\ bucket'[k].last = clock
      /\ granted'[k] = IF Admits(c, clock) THEN granted[k] + 1 ELSE granted[k]
      /\ bucket'[k].tokens = IF Admits(c, clock) THEN Level(c, clock) - Minute
                                                ELSE Level(c, clock)
  BY <1>1 DEF Check, Charge, RateTypeOK
<1> SUFFICES ASSUME NEW t \in 0..clock
             PROVE  Minute * (granted'[k] - mark[k][t]) + bucket'[k].tokens
                        <= Widest[k] * Minute + Widest[k] * (clock - t)
  <2>1. \A t \in 0..clock : ~(t > clock)
    BY <1>1
  <2> QED BY <1>2, <2>1 DEF KeyInv
<1> DEFINE spent == granted[k] - mark[k][t]
<1>3. spent \in Int
  BY <1>1, RateAssumption DEF RateTypeOK
<1>4. Level(c, clock) \in Nat
  BY LevelType
<1>5. Minute * (granted'[k] - mark[k][t]) + bucket'[k].tokens = Minute * spent + Level(c, clock)
  <2>1. CASE Admits(c, clock)
    <3>1. granted'[k] - mark[k][t] = spent + 1
      BY <1>1, <1>2, <2>1, RateAssumption DEF RateTypeOK
    <3>2. bucket'[k].tokens = Level(c, clock) - Minute
      BY <1>2, <2>1
    <3> HIDE DEF spent, k
    <3>3. Minute * (spent + 1) = Minute * spent + Minute * 1 /\ Minute * spent \in Int
      BY <1>1, <1>3, ProductSum
    <3> QED BY <1>1, <1>3, <1>4, <3>1, <3>2, <3>3
  <2>2. CASE ~Admits(c, clock)
    BY <1>2, <2>2
  <2> QED BY <2>1, <2>2
<1> QED BY <1>5, LevelCovered

\* A bucket that is removed, or kept, by the pruner.
LEMMA PrunedKeyInv ==
    ASSUME RateTypeOK, NEW k \in Keys, KeyInv(k), Prune(k)
    PROVE  KeyInv(k)'
<1>1. clock' = clock /\ granted' = granted /\ mark' = mark
  BY DEF Prune, history
<1>2. CASE UNCHANGED <<buckets, bucket>>
  BY <1>1, <1>2 DEF KeyInv
<1>3. CASE k \in buckets /\ Idle(k) /\ buckets' = buckets \ {k}
  <2> DEFINE w == Widest[k]
             last == bucket[k].last
  <2>1. SUFFICES ASSUME NEW t \in 0..clock
                 PROVE  Minute * (granted[k] - mark[k][t]) <= w * (clock - t)
    BY <1>1, <1>3 DEF KeyInv
  <2>2. /\ w \in Nat /\ Minute \in Nat /\ clock \in Nat /\ t \in Nat
        /\ last \in Nat /\ bucket[k].tokens \in Nat /\ clock - t \in Nat
        /\ granted[k] \in Nat /\ mark[k][t] \in Nat
    BY RateAssumption DEF RateTypeOK, Bucket
  <2>3. Minute <= clock - last
    <3>1. pruner.now \in Nat /\ pruner.now <= clock
      BY RateAssumption DEF RateTypeOK, Pruner
    <3> QED BY <1>3, <2>2, <3>1, RateAssumption DEF Idle
  <2>4. w * (clock - t) \in Nat
    BY <2>2
  <2>5. CASE t > last
    <3>1. granted[k] - mark[k][t] = 0
      BY <1>3, <2>2, <2>5 DEF KeyInv
    <3>2. Minute * (granted[k] - mark[k][t]) = 0
      BY <2>2, <3>1
    <3> QED BY <2>4, <3>2
  <2>6. CASE ~(t > last)
    <3> DEFINE used == Minute * (granted[k] - mark[k][t])
    <3>1. used + bucket[k].tokens <= w * Minute + w * (last - t)
      BY <1>3, <2>6 DEF KeyInv
    <3>2. used \in Int
      BY <2>2
    <3> HIDE DEF used, w, last
    <3>3. last - t \in Nat /\ clock - last \in Nat
      BY <2>2, <2>3, <2>6
    <3>4. w * Minute <= w * (clock - last)
      <4>1. Minute * w <= (clock - last) * w
        BY <2>2, <2>3, <3>3, ProductMono
      <4> QED BY <2>2, <3>3, <4>1, Commute
    <3>5. w * ((clock - last) + (last - t)) = w * (clock - last) + w * (last - t)
      BY <2>2, <3>3, ProductSum
    <3>6. (clock - last) + (last - t) = clock - t
      BY <2>2
    <3>7. w * Minute \in Nat /\ w * (clock - last) \in Nat /\ w * (last - t) \in Nat
      BY <2>2, <3>3
    <3>8. used <= w * (clock - t)
      BY <2>2, <3>1, <3>2, <3>4, <3>5, <3>6, <3>7
    <3> QED BY <3>8 DEF used
  <2> QED BY <2>5, <2>6
<1> QED BY <1>2, <1>3 DEF Prune

\* Time only adds to the refill.
LEMMA TickKeyInv ==
    ASSUME RateTypeOK, NEW k \in Keys, KeyInv(k), RateTick
    PROVE  KeyInv(k)'
<1> DEFINE w == Widest[k]
<1>1. /\ clock' = clock + 1 /\ clock \in Nat /\ w \in Nat /\ Minute \in Nat
      /\ clock < MaxClock
  BY RateAssumption DEF RateTick, RateTypeOK
<1>2. UNCHANGED <<buckets, bucket, granted>>
  BY DEF RateTick, serverVars
<1>3. \A t \in 0..clock : mark'[k][t] = mark[k][t]
  BY <1>1, RateAssumption DEF RateTick, RateTypeOK
<1>4. mark'[k][clock + 1] = granted[k] /\ granted[k] \in Nat
  BY <1>1, RateAssumption DEF RateTick, RateTypeOK
<1>5. k \in buckets => bucket[k].last \in Nat /\ bucket[k].last <= clock
  BY DEF RateTypeOK, Bucket
<1> SUFFICES ASSUME NEW t \in 0..clock'
             PROVE  IF k \notin buckets
                    THEN Minute * (granted[k] - mark'[k][t]) <= w * (clock' - t)
                    ELSE IF t > bucket[k].last
                    THEN granted[k] = mark'[k][t]
                    ELSE Minute * (granted[k] - mark'[k][t]) + bucket[k].tokens
                            <= w * Minute + w * (bucket[k].last - t)
  BY <1>2 DEF KeyInv
<1>6. CASE t = clock + 1
  <2>1. Minute * (granted[k] - mark'[k][t]) = 0 /\ w * (clock' - t) = 0
    <3>1. granted[k] - mark'[k][t] = 0 /\ clock' - t = 0
      BY <1>1, <1>4, <1>6
    <3> QED BY <1>1, <3>1
  <2>2. k \in buckets => t > bucket[k].last
    BY <1>1, <1>5, <1>6
  <2> QED BY <1>4, <1>6, <2>1, <2>2
<1>7. CASE t \in 0..clock
  <2>1. CASE k \notin buckets
    <3> DEFINE used == Minute * (granted[k] - mark[k][t])
    <3>1. used <= w * (clock - t)
      BY <1>7, <2>1 DEF KeyInv
    <3>2. used \in Int
      <4>1. granted[k] - mark[k][t] \in Int
        BY <1>1, <1>7, RateAssumption DEF RateTypeOK
      <4> QED BY <1>1, <4>1
    <3>3. w * (clock - t) <= w * (clock' - t)
      <4>1. clock - t \in Nat /\ clock' - t \in Nat /\ clock - t <= clock' - t
        BY <1>1, <1>7
      <4>2. (clock - t) * w <= (clock' - t) * w
        BY <1>1, <4>1, ProductMono
      <4> QED BY <1>1, <4>1, <4>2, Commute
    <3>4. w * (clock - t) \in Int /\ w * (clock' - t) \in Int
      BY <1>1, <1>7
    <3> HIDE DEF w
    <3>5. used <= w * (clock' - t)
      <4> HIDE DEF used
      <4> QED BY <3>1, <3>2, <3>3, <3>4
    <3> QED BY <1>3, <1>7, <2>1, <3>5
  <2>2. CASE k \in buckets
    BY <1>3, <1>7, <2>2 DEF KeyInv
  <2> QED BY <2>1, <2>2
<1> QED BY <1>1, <1>6, <1>7

LEMMA RateInvInit == RateInit => RateInv
<1> SUFFICES ASSUME RateInit
             PROVE  \A k \in Keys : KeyInv(k)
  BY RateTypeInit DEF RateInv
<1> TAKE k \in Keys
<1>1. \A t \in 0..clock : t = 0 /\ t \in 0..MaxClock
  BY RateAssumption DEF RateInit
<1>2. Minute * (0 - 0) = 0 /\ Widest[k] * (0 - 0) = 0
  BY RateAssumption
<1> QED BY <1>1, <1>2, RateAssumption DEF RateInit, KeyInv

LEMMA RateInvNext == RateInv /\ [RateNext]_rateVars => RateInv'
<1> SUFFICES ASSUME RateInv, [RateNext]_rateVars, NEW k \in Keys
             PROVE  KeyInv(k)'
  BY RateTypeNext DEF RateInv
<1>1. RateTypeOK /\ KeyInv(k)
  BY DEF RateInv
<1>2. ASSUME NEW c \in Callers, Check(c)
      PROVE  KeyInv(k)'
  <2>1. CASE k = KeyOf[c]
    BY <1>1, <1>2, <2>1, ChargedKeyInv
  <2>2. CASE k # KeyOf[c]
    <3>1. /\ UNCHANGED <<clock, mark>>
          /\ k \in buckets' <=> k \in buckets
          /\ bucket'[k] = bucket[k]
          /\ granted'[k] = granted[k]
      BY <1>1, <1>2, <2>2 DEF Check, Charge, RateTypeOK
    <3> QED BY <1>1, <3>1 DEF KeyInv
  <2> QED BY <2>1, <2>2
<1>3. CASE PruneStart
  BY <1>1, <1>3 DEF PruneStart, history, KeyInv
<1>4. ASSUME NEW j \in Keys, Prune(j)
      PROVE  KeyInv(k)'
  <2>1. CASE j = k
    BY <1>1, <1>4, <2>1, PrunedKeyInv
  <2>2. CASE j # k
    <3>1. /\ UNCHANGED <<clock, mark, granted>>
          /\ k \in buckets' <=> k \in buckets
          /\ bucket'[k] = bucket[k]
      BY <1>1, <1>4, <2>2 DEF Prune, history, RateTypeOK
    <3> QED BY <1>1, <3>1 DEF KeyInv
  <2> QED BY <2>1, <2>2
<1>5. CASE RateTick
  BY <1>1, <1>5, TickKeyInv
<1>6. CASE UNCHANGED rateVars
  BY <1>1, <1>6 DEF rateVars, serverVars, history, KeyInv
<1> QED BY <1>2, <1>3, <1>4, <1>5, <1>6 DEF RateNext, Pruning

-----------------------------------------------------------------------------
(* Theorems *)

\* RateInv holds in every reachable state (check, prune_idle and time).
THEOREM RateInvariance == RateSpec => []RateInv
<1>1. RateInit => RateInv
  BY RateInvInit
<1>2. RateInv /\ [RateNext]_rateVars => RateInv'
  BY RateInvNext
<1> QED BY <1>1, <1>2, PTL DEF RateSpec

\* Buckets, counters and the pruner keep their types, for any callers that share
\* them (RateLimiter).
THEOREM RateTypes == RateSpec => []RateTypeOK
<1>1. RateInv => RateTypeOK
      BY DEF RateInv
<1> QED BY <1>1, RateInvariance, PTL

\* No key is ever granted more than its burst and its rate allow, whatever the
\* units of time, the rates and the callers (RateLimiter::check).
THEOREM AdmissionsBounded == RateSpec => []AdmissionBound
<1>1. RateInv => AdmissionBound
  <2> SUFFICES ASSUME RateInv, NEW k \in Keys, NEW t \in 0..clock
               PROVE  Minute * (granted[k] - mark[k][t])
                        <= Widest[k] * Minute + Widest[k] * (clock - t)
    BY DEF AdmissionBound
  <2> DEFINE w == Widest[k]
             used == Minute * (granted[k] - mark[k][t])
  <2>1. /\ w \in Nat /\ Minute \in Nat /\ clock \in Nat /\ t \in Nat /\ clock - t \in Nat
        /\ granted[k] \in Nat /\ mark[k][t] \in Nat
        /\ KeyInv(k)
    BY RateAssumption DEF RateInv, RateTypeOK
  <2>2. used \in Int /\ w * Minute \in Nat /\ w * (clock - t) \in Nat
    BY <2>1
  <2>3. CASE k \notin buckets
    <3>1. used <= w * (clock - t)
      BY <2>1, <2>3 DEF KeyInv
    <3> HIDE DEF w, used
    <3> QED BY <2>2, <3>1 DEF w, used
  <2>4. CASE k \in buckets /\ t > bucket[k].last
    <3>1. granted[k] - mark[k][t] = 0
      BY <2>1, <2>4 DEF KeyInv
    <3>2. used = 0
      BY <2>1, <3>1
    <3> HIDE DEF w, used
    <3> QED BY <2>2, <3>2 DEF w, used
  <2>5. CASE k \in buckets /\ ~(t > bucket[k].last)
    <3> DEFINE last == bucket[k].last
    <3>1. used + bucket[k].tokens <= w * Minute + w * (last - t)
      BY <2>1, <2>5 DEF KeyInv
    <3>2. last \in Nat /\ last <= clock /\ t <= last /\ bucket[k].tokens \in Nat
      BY <2>1, <2>5 DEF RateInv, RateTypeOK, Bucket
    <3>3. w * (last - t) <= w * (clock - t) /\ w * (last - t) \in Nat
      <4>1. last - t \in Nat /\ last - t <= clock - t
        BY <2>1, <3>2
      <4>2. (last - t) * w <= (clock - t) * w
        BY <2>1, <4>1, ProductMono
      <4> QED BY <2>1, <4>1, <4>2, Commute
    <3> HIDE DEF w, used, last
    <3>4. used <= w * Minute + w * (clock - t)
      BY <2>2, <3>1, <3>2, <3>3
    <3> QED BY <3>4 DEF w, used
  <2> QED BY <2>3, <2>4, <2>5
<1> QED BY <1>1, RateInvariance, PTL

\* A pruned bucket was full for each of its callers, so pruning changes no
\* answer (RateLimiter::prune_idle).
THEOREM PruningIsEquivalent == RateSpec => PruneEquivalent
<1> DEFINE Full ==
        \A c \in Callers :
            KeyOf[c] \in buckets \ buckets' =>
                \A t \in clock..MaxClock : Level(c, t) = Capacity(c)
<1>1. RateInv /\ [RateNext]_rateVars => [Full]_rateVars
  <2> SUFFICES ASSUME RateInv, RateNext, NEW c \in Callers,
                      KeyOf[c] \in buckets \ buckets', NEW t \in clock..MaxClock
               PROVE  Level(c, t) = Capacity(c)
    BY DEF rateVars
  <2> DEFINE k == KeyOf[c]
  <2>1. k \in Keys
    BY RuleType
  <2>2. Prune(k)
    <3>1. \A d \in Callers : ~Check(d)
      BY DEF Check, Charge
    <3>2. ~PruneStart /\ ~RateTick
      BY DEF PruneStart, RateTick, serverVars
    <3>3. \A j \in Keys : Prune(j) => j = k
      BY DEF Prune
    <3> QED BY <3>1, <3>2, <3>3 DEF RateNext, Pruning
  <2>3. Idle(k)
    BY <2>2 DEF Prune
  <2>4. /\ pruner.now \in Nat /\ pruner.now <= clock /\ clock \in Nat
        /\ bucket[k].last \in Nat /\ bucket[k].tokens \in Nat
        /\ bucket[k].last <= clock
    BY <2>1, RateAssumption DEF RateInv, RateTypeOK, Pruner, Bucket
  <2>5. t - bucket[k].last \in Nat /\ t - bucket[k].last >= IdlePrune
    BY <2>3, <2>4, RateAssumption DEF Idle
  <2>6. Level(c, t) = Refilled(bucket[k].tokens, t - bucket[k].last, c)
    BY DEF Level
  <2> QED BY <2>4, <2>5, <2>6, IdleIsFull
<1> QED BY <1>1, RateInvariance, PTL DEF RateSpec, PruneEquivalent
=============================================================================
