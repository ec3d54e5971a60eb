\* Two creates pass the capacity check before either inserts.
SPECIFICATION Spec
CONSTANTS
    c1 = c1
    c2 = c2
    alice = alice
    nobody = nobody
    CreateReqs = {c1, c2}
    RunReqs = {}
    ResumeReqs = {}
    StatusReqs = {}
    DeleteReqs = {}
    Requests = {c1, c2}
    Principals = {alice}
    Nobody = nobody
    Kinds = {"name_lookup"}
    Inputs = {"name"}
    MaxSessions = 1
    DefaultTtl = 1
    MaxTtl = 2
    MaxClock = 0
    RequestedTtls <- DefaultOnly
    MaxConcurrency = 2
    Workers = 2
SYMMETRY RequestSymmetry
INVARIANTS
    CapacityRespected
