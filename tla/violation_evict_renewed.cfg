\* A resume renews the session between the reaper's scan and its sweep.
SPECIFICATION Spec
CONSTANTS
    c1 = c1
    r1 = r1
    alice = alice
    nobody = nobody
    CreateReqs = {c1}
    RunReqs = {}
    ResumeReqs = {r1}
    StatusReqs = {}
    DeleteReqs = {}
    Requests = {c1, r1}
    Principals = {alice}
    Nobody = nobody
    Kinds = {"name_lookup"}
    Inputs = {"name"}
    MaxSessions = 1
    DefaultTtl = 1
    MaxTtl = 2
    MaxClock = 2
    RequestedTtls <- DefaultOnly
    MaxConcurrency = 1
    Workers = 2
SYMMETRY RequestSymmetry
PROPERTIES
    OnlyExpiredEvicted
