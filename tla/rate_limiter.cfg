\* Two tokens of different rates that share a bucket, and a third token.  A
\* second is 2 ticks, a minute 3, and a bucket idle for a minute is pruned.
SPECIFICATION FairRateSpec
CONSTANTS
    Callers <- TokenCallers
    Keys <- Names
    KeyOf <- TokenNames
    Requested <- TokenRates
    Widest <- NameWidest
    Number <- Rpm
    Unparsed = unparsed
    DefaultRate = 1
    Second = 2
    Minute = 3
    IdlePrune = 3
    MaxClock = 4
INVARIANTS
    RateTypeOK
    RateInv
    AdmissionBound
    OwnRateWhenAlone
    RetryAfterExact
PROPERTIES
    PruneEquivalent
    IdleEventuallyPruned
