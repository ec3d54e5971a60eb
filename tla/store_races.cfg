\* Three creates compete for one place on two workers and, with a plain run,
\* for one permit, while a delete and the reaper make room.  Their sessions have
\* ttl 0, so the reaper may evict one at any time and the clock need not move.
SPECIFICATION Spec
CONSTANTS
    c1 = c1
    c2 = c2
    c3 = c3
    p1 = p1
    d1 = d1
    alice = alice
    nobody = nobody
    CreateReqs = {c1, c2, c3}
    RunReqs = {p1}
    ResumeReqs = {}
    StatusReqs = {}
    DeleteReqs = {d1}
    Requests = {c1, c2, c3, p1, d1}
    Principals = {alice}
    Nobody = nobody
    Kinds = {"name_lookup"}
    Inputs = {"name"}
    MaxSessions = 1
    DefaultTtl = 1
    MaxTtl = 2
    MaxClock = 0
    RequestedTtls = {0}
    MaxConcurrency = 1
    Workers = 2
SYMMETRY RequestSymmetry
INVARIANTS
    CapacityOvershootBound
    CapacityInv
    PermitConservation
