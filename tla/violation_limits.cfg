\* One client leaves all limits out, one asks for more than the defaults.  A
\* program comes to an end, and nothing happens to its tracker then.
SPECIFICATION TrackerSpec
CONSTANTS
    Defaults <- ServerDefaults
    Ceilings <- ServerCeilings
    Requests <- ClientRequests
    Interval = 3
    CounterRange = 6
    Sizes = {1, 2}
    Depths = {0, 1}
    MaxClock = 0
INVARIANTS
    NeverAboveDefault
CHECK_DEADLOCK FALSE
