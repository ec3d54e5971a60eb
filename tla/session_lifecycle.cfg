\* One session and everything that can happen to it: resumes that fit and do
\* not fit the pause, timeouts, panics, eviction, and a foreign caller.
\* q1 and q2 are a status read or a delete each.
SPECIFICATION Spec
CONSTANTS
    c1 = c1
    r1 = r1
    r2 = r2
    q1 = q1
    q2 = q2
    alice = alice
    bob = bob
    nobody = nobody
    CreateReqs = {c1}
    RunReqs = {}
    ResumeReqs = {r1, r2}
    StatusReqs = {q1, q2}
    DeleteReqs = {q1, q2}
    Requests = {c1, r1, r2, q1, q2}
    Principals = {alice, bob}
    Nobody = nobody
    Kinds = {"function_call", "name_lookup"}
    Inputs = {"return"}
    MaxSessions = 1
    DefaultTtl = 1
    MaxTtl = 2
    MaxClock = 1
    RequestedTtls <- DefaultOnly
    MaxConcurrency = 1
    Workers = 2
SYMMETRY RequestSymmetry
INVARIANTS
    TypeOK
    IInv
    StrandedOnlyByLoss
    Isolation
    SingleFlight
    ReadYourStep
    DeletedOnce
    CreateLostOnlyExpired
    StepInv
PROPERTIES
    StepsAreSequential
    FollowsProtocol
