\* The service implements SessionProtocol, answers every request and evicts
\* every expired session, under fairness; no symmetry.
SPECIFICATION FairSpec
CONSTANTS
    c1 = c1
    r1 = r1
    r2 = r2
    d1 = d1
    alice = alice
    nobody = nobody
    CreateReqs = {c1}
    RunReqs = {}
    ResumeReqs = {r1, r2}
    StatusReqs = {}
    DeleteReqs = {d1}
    Requests = {c1, r1, r2, d1}
    Principals = {alice}
    Nobody = nobody
    Kinds = {"function_call", "name_lookup"}
    Inputs = {"return"}
    MaxSessions = 1
    DefaultTtl = 1
    MaxTtl = 2
    MaxClock = 2
    RequestedTtls <- DefaultOnly
    MaxConcurrency = 1
    Workers = 2
PROPERTIES
    ImplementsProtocol
    EveryRequestAnswered
    ExpiredEventuallyReaped
