\* One program under each of two requests.  The clock is read on every third
\* check and the counter wraps after two readings.  A program comes to an end,
\* and nothing happens to its tracker then.
SPECIFICATION FairTrackerSpec
CONSTANTS
    Defaults <- ServerDefaults
    Ceilings <- ServerCeilings
    Requests <- ClientRequests
    Interval = 3
    CounterRange = 6
    Sizes = {1, 2}
    Depths = {0, 1}
    MaxClock = 3
INVARIANTS
    TrackerTypeOK
    TrackerInv
    WithinCeilings
    OverrunCaught
    OverrunRedetected
    NoFalseTimeout
    DurationIsRunTime
    FailureClassified
PROPERTIES
    OverrunStopped
CHECK_DEADLOCK FALSE
