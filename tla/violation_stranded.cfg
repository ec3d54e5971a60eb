\* A resume is dropped at its await.
SPECIFICATION Spec
CONSTANTS
    c1 = c1
    r1 = r1
    alice = alice
    nobody = nobody
    CreateReqs = {c1}
    RunReqs = {}
    ResumeReqs = {r1}
    StatusReqs = {}
    DeleteReqs = {}
    Requests = {c1, r1}
    Principals = {alice}
    Nobody = nobody
    Kinds = {"name_lookup"}
    Inputs = {"name"}
    MaxSessions = 1
    DefaultTtl = 1
    MaxTtl = 2
    MaxClock = 0
    RequestedTtls <- DefaultOnly
    MaxConcurrency = 1
    Workers = 2
SYMMETRY RequestSymmetry
INVARIANTS
    NeverStranded
