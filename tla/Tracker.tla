------------------------------ MODULE Tracker ------------------------------
(***************************************************************************)
(* The resource tracker (src/tracker.rs) of one program, from start_session *)
(* through its resumes (src/engine.rs).  The interpreter is external: while *)
(* a segment runs it may call the tracker back in any order, and it may go *)
(* on after an error it is given ("some callers catch this error and return *)
(* normally"), except after a check_time of its main loop that fails: that *)
(* one ends the run.  An execution runs on one thread, so each callback is *)
(* one step.                                                               *)
(*                                                                         *)
(* Definitions commented as faulty are not part of the specification: each *)
(* stands for a plausible bug in the definition after it.                  *)
(***************************************************************************)
EXTENDS Limits

CONSTANTS Requests,       \* the limits clients ask for
          Interval,       \* TIME_CHECK_INTERVAL
          CounterRange,   \* 2^32, the range of time_check_counter
          Sizes,          \* sizes of what the interpreter allocates or frees
          Depths,         \* call depths the interpreter reaches
          MaxClock        \* bound on Instant::now()

ASSUME TrackerAssumption ==
    /\ Requests \subseteq LimitsRequest
    /\ Interval \in Nat \ {0}
    /\ CounterRange \in Nat \ {0}
    /\ CounterRange % Interval = 0
    /\ Sizes \subseteq Nat
    /\ Depths \subseteq Nat
    /\ MaxClock \in Nat

VARIABLES clock,          \* Instant::now()
          phase,          \* where the program is
          request,        \* what its client asked for
          limits,         \* State::max_*
          allocations, live, peak, counter, breach,  \* State
          segment_start, accumulated,                \* Clock
          report,         \* the ExecStats and the breach of the latest step
          held,           \* external: the bytes of the objects that exist
          ran,            \* history: the time spent in segments,
          late,           \* the checks since the limit that let the program go on,
          refused         \* and the limits that a callback was refused for

memoryVars == <<live, peak, held>>

counters == <<allocations, counter>>

clockVars == <<segment_start, accumulated>>

blame == <<breach, refused>>

trackerVars == <<clock, phase, request, limits, memoryVars, counters, blame,
                 clockVars, report, ran, late>>

Breach == {"time", "memory", "allocations", "recursion"}

\* The interpreter has the program.
Active == {"running", "unwinding"}

Ended == {"completed", "failed"}

NoReport == [duration |-> 0, allocations |-> 0, peak_memory |-> 0, breach |-> "none"]

TrackerTypeOK ==
    /\ clock \in 0..MaxClock
    /\ phase \in {"new", "paused"} \cup Active \cup Ended
    /\ request \in Requests
    /\ limits \in ResolvedLimits
    /\ allocations \in Nat
    /\ live \in Nat
    /\ peak \in Nat
    /\ counter \in 0 .. CounterRange - 1
    /\ breach \in Breach \cup {"none"}
    /\ segment_start \in 0..clock
    /\ accumulated \in Nat
    /\ report \in [duration: Nat, allocations: Nat, peak_memory: Nat,
                   breach: Breach \cup {"none"}]
    /\ held \in Nat
    /\ ran \in Nat
    /\ late \in Nat
    /\ refused \subseteq Breach

\* StatsTracker::new, with the resolved limits of a request.
TrackerInit ==
    /\ clock \in 0..MaxClock
    /\ phase = "new"
    /\ request \in Requests
    /\ limits = Resolve(request)
    /\ allocations = 0 /\ live = 0 /\ peak = 0 /\ counter = 0
    /\ breach = "none"
    /\ segment_start = clock
    /\ accumulated = 0
    /\ report = NoReport
    /\ held = 0 /\ ran = 0 /\ late = 0
    /\ refused = {}

-----------------------------------------------------------------------------

Elapsed == accumulated + (clock - segment_start)

\* begin_segment, before the program starts or is resumed.
\* (Faulty: the clock goes on from the end of the segment before.)
BeginSegmentOnly ==
    /\ phase \in {"new", "paused"}
    /\ phase' = "running"
    /\ UNCHANGED <<clock, request, limits, memoryVars, counters, blame, clockVars,
                   report, ran, late>>

\* (Faulty: every segment counts its checks anew.)
BeginSegmentAnew ==
    /\ phase \in {"new", "paused"}
    /\ phase' = "running"
    /\ segment_start' = clock
    /\ counter' = 0
    /\ UNCHANGED <<clock, request, limits, memoryVars, allocations, blame, accumulated,
                   report, ran, late>>

\* (Faulty: every segment starts without a breach.)
BeginSegmentForgiving ==
    /\ phase \in {"new", "paused"}
    /\ phase' = "running"
    /\ segment_start' = clock
    /\ breach' = "none"
    /\ UNCHANGED <<clock, request, limits, memoryVars, counters, refused, accumulated,
                   report, ran, late>>

BeginSegment ==
    /\ phase \in {"new", "paused"}
    /\ phase' = "running"
    /\ segment_start' = clock
    /\ UNCHANGED <<clock, request, limits, memoryVars, counters, blame, accumulated,
                   report, ran, late>>

\* end_segment folds the segment in and restarts the clock.
\* (Faulty: the clock is not restarted, and stats counts the segment twice.)
FoldSegmentOnly ==
    /\ accumulated' = Elapsed
    /\ UNCHANGED segment_start

FoldSegment ==
    /\ accumulated' = Elapsed
    /\ segment_start' = clock

\* What finish_step and run_to_completion report.
Stats(outcome) ==
    [duration |-> accumulated' + (clock - segment_start'), allocations |-> allocations,
     peak_memory |-> peak, breach |-> IF outcome = "failed" THEN breach ELSE "none"]

\* The interpreter returns: end_segment and finish_step.
EndSegment(outcome) ==
    /\ phase = "running" \/ (phase = "unwinding" /\ outcome = "failed")
    /\ phase' = outcome
    /\ FoldSegment
    /\ report' = Stats(outcome)
    /\ UNCHANGED <<clock, request, limits, memoryVars, counters, blame, ran, late>>

-----------------------------------------------------------------------------

\* compare_exchange: only the first breach is kept.
RecordBreach(b) ==
    /\ breach' = IF breach = "none" THEN b ELSE breach
    /\ refused' = refused \cup {b}

Refuse(b) ==
    /\ RecordBreach(b)
    /\ UNCHANGED <<memoryVars, allocations>>

\* store_memory.
StoreMemory(new_memory) ==
    /\ live' = new_memory
    /\ peak' = IF new_memory > peak THEN new_memory ELSE peak

\* on_allocate.
\* (Faulty: the size is charged before the limit is looked at.)
OnAllocateCharging(size) ==
    IF allocations >= limits["allocations"] THEN Refuse("allocations")
    ELSE /\ StoreMemory(live + size)
         /\ IF live + size > limits["memory"]
            THEN RecordBreach("memory") /\ UNCHANGED <<allocations, held>>
            ELSE allocations' = allocations + 1 /\ held' = held + size /\ UNCHANGED blame

OnAllocate(size) ==
    IF allocations >= limits["allocations"] THEN Refuse("allocations")
    ELSE IF live + size > limits["memory"] THEN Refuse("memory")
    ELSE /\ allocations' = allocations + 1
         /\ StoreMemory(live + size)
         /\ held' = held + size
         /\ UNCHANGED blame

\* on_grow: an object that exists gets larger.
OnGrow(additional) ==
    IF live + additional > limits["memory"] THEN Refuse("memory")
    ELSE /\ StoreMemory(live + additional)
         /\ held' = held + additional
         /\ UNCHANGED <<allocations, blame>>

\* on_free, of something that exists; saturating_sub.
OnFree(size) ==
    /\ size <= held
    /\ held' = held - size
    /\ live' = IF size < live THEN live - size ELSE 0
    /\ UNCHANGED <<peak, allocations, blame>>

\* check_recursion_depth and check_large_result only look.
CheckRecursionDepth(depth) ==
    IF depth >= limits["depth"] THEN Refuse("recursion")
    ELSE UNCHANGED <<memoryVars, allocations, blame>>

CheckLargeResult(estimated) ==
    IF live + estimated > limits["memory"] THEN Refuse("memory")
    ELSE UNCHANGED <<memoryVars, allocations, blame>>

\* fetch_add wraps around.
\* (Faulty: it does not.)
NextCountUnbounded == counter + 1

NextCount == IF counter + 1 = CounterRange THEN 0 ELSE counter + 1

\* (Faulty: the counter is not set back, and the next call does not look.)
RearmNot == counter' = NextCount

Rearm == counter' = Interval - 1

\* check_time reads the clock on every Interval-th call, and on every call once
\* it has refused.
TimeRefused == NextCount % Interval = 0 /\ Elapsed > limits["duration"]

CheckTime ==
    /\ UNCHANGED <<memoryVars, allocations>>
    /\ IF TimeRefused
       THEN Rearm /\ RecordBreach("time") /\ late' = 0
       ELSE /\ counter' = NextCount
            /\ late' = IF Elapsed > limits["duration"] THEN late + 1 ELSE late
            /\ UNCHANGED blame

\* A callback of the interpreter, whose caller goes on if it is refused.
Callback ==
    /\ phase \in Active
    /\ \/ /\ \/ \E size \in Sizes : \/ OnAllocate(size)
                                    \/ OnGrow(size)
                                    \/ OnFree(size)
                                    \/ CheckLargeResult(size)
             \/ \E depth \in Depths : CheckRecursionDepth(depth)
          /\ UNCHANGED <<counter, late>>
       \/ CheckTime
    /\ UNCHANGED <<clock, phase, request, limits, clockVars, report, ran>>

\* The check_time of the main loop, before each instruction.
LoopCheck ==
    /\ phase = "running"
    /\ CheckTime
    /\ phase' = IF TimeRefused THEN "unwinding" ELSE phase
    /\ UNCHANGED <<clock, request, limits, clockVars, report, ran>>

TrackerTick ==
    /\ clock < MaxClock
    /\ clock' = clock + 1
    /\ ran' = IF phase \in Active THEN ran + 1 ELSE ran
    /\ UNCHANGED <<phase, request, limits, memoryVars, counters, blame, clockVars,
                   report, late>>

TrackerNext ==
    \/ BeginSegment
    \/ \E outcome \in {"paused"} \cup Ended : EndSegment(outcome)
    \/ Callback
    \/ LoopCheck
    \/ TrackerTick

TrackerSpec == TrackerInit /\ [][TrackerNext]_trackerVars

\* "The monty VM calls check_time on every instruction" (TIME_CHECK_INTERVAL), so a
\* program that runs gets to a check of the main loop, and one that is ended ends.
FairTrackerSpec ==
    /\ TrackerSpec
    /\ WF_trackerVars(LoopCheck)
    /\ WF_trackerVars(phase = "unwinding" /\ EndSegment("failed"))

-----------------------------------------------------------------------------

\* What the tracker holds is what the program did: its memory, its allocations
\* and its time, however long it was paused and whatever was refused.
Accounting ==
    /\ live = held
    /\ live <= peak
    /\ accumulated + (IF phase \in Active THEN clock - segment_start ELSE 0) = ran

WithinLimits == peak <= limits["memory"] /\ allocations <= limits["allocations"]

\* Checks that let an overrun pass are those since the last reading of the clock;
\* a refused one sets the counter so that the next one reads it again.
CheckInv ==
    /\ late <= counter % Interval
    /\ late > 0 => ran > limits["duration"]
    /\ "time" \in refused => late = 0 /\ counter = Interval - 1 /\ ran > limits["duration"]

TrackerInv ==
    /\ TrackerTypeOK
    /\ limits = Resolve(request)
    /\ Accounting
    /\ WithinLimits
    /\ CheckInv
    /\ IF refused = {} THEN breach = "none" ELSE breach \in refused

\* "clamped so it never exceeds the configured maximum" (resolve, src/limits.rs:47),
\* of the bytes and allocations a program really gets over all its segments, also
\* if the default is above the maximum; and what its client asks for is all it gets.
WithinCeilings ==
    /\ held <= Ceilings["memory"] /\ allocations <= Ceilings["allocations"]
    /\ request["memory"] # Omitted => held <= request["memory"]
    /\ request["allocations"] # Omitted => allocations <= request["allocations"]

\* "catching timeouts promptly" (check_time): a program that has used up its time
\* passes fewer than Interval checks, counted over all its segments.
OverrunCaught == late < Interval

\* "the next call rechecks ... the VM loop must re-detect it" (check_time): once a
\* check has refused, no later one lets the program go on, also after a resume.
OverrunRedetected == "time" \in refused => late = 0

\* "wall time the client spends between resumes is not charged against the limit"
\* (begin_segment): who is told that the time is up did run for longer than that.
NoFalseTimeout == ("time" \in refused \/ breach = "time") => ran > limits["duration"]

\* The duration of a step counts every segment once and no time between them.
DurationIsRunTime == phase \in {"paused"} \cup Ended => report.duration = ran

\* "so callers can classify a failed run as limit_exceeded" (Breach): a failure is
\* blamed on a limit exactly if one was refused in any segment of the program, and
\* then on one of those.  It need not be what the program failed for.
FailureClassified ==
    phase = "failed" =>
        IF refused = {} THEN report.breach = "none" ELSE report.breach \in refused

\* "some callers catch this error and return normally, and the VM loop must
\* re-detect it" (check_time): however often such callers come first, a program
\* that has used up its time is stopped, in whatever segment.
OverrunStopped == phase \in Active /\ ran > limits["duration"] ~> phase \notin Active

-----------------------------------------------------------------------------
(* What a comment promises and the code does not keep *)

\* "Clients may ask for *lower* limits than the server default, but never higher"
\* (src/limits.rs:3), of what a program really gets.
NeverAboveDefault ==
    held <= Defaults["memory"] /\ allocations <= Defaults["allocations"]
=============================================================================
