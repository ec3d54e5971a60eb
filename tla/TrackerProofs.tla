--------------------------- MODULE TrackerProofs ---------------------------
(***************************************************************************)
(* Proofs about Tracker, for all limits, requests, sizes, depths and       *)
(* counter ranges.                                                         *)
(***************************************************************************)
EXTENDS Tracker, TLAPS

(* The inductive invariant: the one TLC checks, and what a step reported.   *)
Inductive == TrackerInv /\ DurationIsRunTime /\ (phase = "failed" => report.breach = breach)

USE DEF TrackerAssumption

-----------------------------------------------------------------------------
(* Arithmetic.                                                             *)

LEMMA RemainderOf ==
    ASSUME NEW q \in Nat, NEW i \in Nat \ {0}, NEW r \in 0 .. i - 1
    PROVE  (q * i + r) % i = r
  BY Z3

\* Counting on moves a remainder on, or starts it again at 0.
LEMMA NextRemainder ==
    ASSUME NEW n \in Nat, NEW i \in Nat \ {0}
    PROVE  (n + 1) % i = IF n % i = i - 1 THEN 0 ELSE (n % i) + 1
<1>1. n % i \in 0 .. i - 1
  BY Z3
<1>2. n = i * (n \div i) + (n % i)
  BY Z3
<1>. DEFINE q == n \div i
           r == n % i
<1>3. q \in Nat
  BY Z3
<1>4. n = q * i + r
  BY <1>2, <1>3, Z3
<1>. HIDE DEF q, r
<1>5. CASE r = i - 1
  <2>1. n + 1 = (q + 1) * i + 0
    BY <1>1, <1>3, <1>4, <1>5, Z3 DEF r
  <2>2. ((q + 1) * i + 0) % i = 0
    BY <1>3, RemainderOf, Z3
  <2>. QED  BY <1>5, <2>1, <2>2 DEF r
<1>6. CASE r # i - 1
  <2>1. r + 1 \in 0 .. i - 1
    BY <1>1, <1>6, Z3 DEF r
  <2>2. n + 1 = q * i + (r + 1)
    BY <1>1, <1>3, <1>4, Z3 DEF r
  <2>3. (q * i + (r + 1)) % i = r + 1
    BY <1>3, <2>1, RemainderOf, Z3
  <2>. QED  BY <1>6, <2>2, <2>3 DEF r
<1>. QED  BY <1>5, <1>6

\* A number below `i` is its own remainder.
LEMMA SmallRemainder ==
    ASSUME NEW i \in Nat \ {0}, NEW n \in 0 .. i - 1
    PROVE  n % i = n
  BY Z3

\* A positive multiple of `i` is not below it.
LEMMA MultipleNotBelow ==
    ASSUME NEW i \in Nat \ {0}, NEW n \in Nat \ {0}, n % i = 0
    PROVE  i <= n
  BY SmallRemainder, SMT

-----------------------------------------------------------------------------
(* Types.                                                                  *)

LEMMA ResolveType ==
    ASSUME BoundsAssumption, NEW r \in LimitsRequest
    PROVE  /\ Resolve(r) \in ResolvedLimits
           /\ \A x \in Resources : /\ Resolve(r)[x] <= Ceilings[x]
                                   /\ r[x] # Omitted => Resolve(r)[x] <= r[x]
<1>1. ASSUME NEW x \in Resources
      PROVE  /\ Resolve(r)[x] \in Nat
             /\ Resolve(r)[x] <= Ceilings[x]
             /\ r[x] # Omitted => Resolve(r)[x] <= r[x]
  <2>1. /\ Defaults[x] \in Nat
        /\ Ceilings[x] \in Nat
        /\ r[x] \in Nat \cup {Omitted}
    BY DEF BoundsAssumption, ResolvedLimits, LimitsRequest
  <2>. QED  BY <2>1 DEF Resolve, Lesser, Omitted
<1>2. Resolve(r) \in ResolvedLimits
  BY <1>1 DEF Resolve, ResolvedLimits
<1>. QED  BY <1>1, <1>2

\* The limits of a program are those of its request.
LEMMA LimitTypes ==
    ASSUME TrackerInv
    PROVE  /\ limits["duration"] \in Nat
           /\ limits["memory"] \in Nat
           /\ limits["allocations"] \in Nat
           /\ limits["depth"] \in Nat
  BY DEF TrackerInv, TrackerTypeOK, ResolvedLimits, Resources

\* The segment that runs, if one does, has the rest of the time.
LEMMA ElapsedIsRan ==
    ASSUME TrackerInv, phase \in Active
    PROVE  Elapsed = ran
  BY DEF TrackerInv, Accounting, Elapsed

LEMMA NextCountType ==
    ASSUME TrackerAssumption, counter \in 0 .. CounterRange - 1
    PROVE  /\ NextCount \in 0 .. CounterRange - 1
           /\ NextCount % Interval = 0 \/ NextCount % Interval = (counter % Interval) + 1
           /\ counter = Interval - 1 => NextCount % Interval = 0
<1>1. counter \in Nat /\ CounterRange \in Nat \ {0} /\ Interval \in Nat \ {0}
  OBVIOUS
<1>2. NextCount \in 0 .. CounterRange - 1
  BY <1>1 DEF NextCount
<1>3. 0 % Interval = 0
  <2>1. 0 \in 0 .. Interval - 1
    BY <1>1
  <2>2. Interval \in Nat \ {0}
    BY <1>1
  <2>. QED  BY <2>1, <2>2, SmallRemainder, Zenon
<1>4. NextCount % Interval = 0 \/ NextCount % Interval = (counter % Interval) + 1
  <2>1. (counter + 1) % Interval = IF counter % Interval = Interval - 1
                                   THEN 0 ELSE (counter % Interval) + 1
    BY <1>1, NextRemainder, Zenon
  <2>. QED  BY <1>3, <2>1, Zenon DEF NextCount
<1>5. ASSUME counter = Interval - 1
      PROVE  NextCount % Interval = 0
  <2>1. counter % Interval = Interval - 1
    <3>1. counter \in 0 .. Interval - 1
      BY <1>1, <1>5
    <3>2. Interval \in Nat \ {0}
      BY <1>1
    <3>3. counter % Interval = counter
      BY <3>1, <3>2, SmallRemainder, Zenon
    <3>. QED  BY <1>5, <3>3
  <2>2. (counter + 1) % Interval = 0
    BY <1>1, <2>1, NextRemainder, Zenon
  <2>. QED  BY <1>3, <2>2 DEF NextCount
<1>. QED  BY <1>2, <1>4, <1>5

-----------------------------------------------------------------------------
(* The steps.                                                              *)

LEMMA InitEstablishes ==
    ASSUME TrackerInit
    PROVE  Inductive
<1>. USE DEF TrackerInit
<1>1. limits \in ResolvedLimits
  <2>1. request \in LimitsRequest
    BY TrackerAssumption
  <2>2. Resolve(request) \in ResolvedLimits
    BY <2>1, BoundsAssumption, ResolveType, Zenon
  <2>. QED  BY <2>2
<1>2. TrackerTypeOK
  <2>1. /\ clock \in 0..MaxClock /\ segment_start \in 0..clock
        /\ counter \in 0 .. CounterRange - 1
    BY TrackerAssumption
  <2>2. report \in [duration: Nat, allocations: Nat, peak_memory: Nat,
                    breach: Breach \cup {"none"}]
    BY DEF NoReport
  <2>. QED  BY <1>1, <2>1, <2>2, Zenon DEF TrackerTypeOK
<1>3. Accounting /\ DurationIsRunTime
  BY TrackerAssumption DEF Accounting, DurationIsRunTime, Active, Ended
<1>4. WithinLimits
  BY <1>1 DEF WithinLimits, ResolvedLimits, Resources
<1>5. CheckInv
  <2>1. 0 \in 0 .. Interval - 1 /\ Interval \in Nat \ {0}
    BY TrackerAssumption
  <2>2. 0 % Interval = 0
    BY <2>1, SmallRemainder, Zenon
  <2>. QED  BY <2>2 DEF CheckInv
<1>. QED  BY <1>2, <1>3, <1>4, <1>5 DEF Inductive, TrackerInv

LEMMA BeginSegmentKeeps ==
    ASSUME Inductive, BeginSegment
    PROVE  Inductive'
<1>. USE DEF Inductive, TrackerInv, BeginSegment, memoryVars, counters, blame
<1>1. TrackerTypeOK'
  BY DEF TrackerTypeOK, Active
<1>2. Accounting'
  BY DEF Accounting, TrackerTypeOK, Active
<1>3. WithinLimits' /\ CheckInv' /\ DurationIsRunTime'
  BY DEF WithinLimits, CheckInv, DurationIsRunTime, Ended
<1>. QED  BY <1>1, <1>2, <1>3

LEMMA EndSegmentKeeps ==
    ASSUME Inductive, NEW outcome \in {"paused"} \cup Ended, EndSegment(outcome)
    PROVE  Inductive'
<1>. USE DEF Inductive, TrackerInv, EndSegment, FoldSegment, memoryVars, counters, blame
<1>1. accumulated' = ran /\ ran \in Nat
  BY ElapsedIsRan DEF TrackerTypeOK, Active
<1>2. /\ report'.duration = ran /\ TrackerTypeOK'
      /\ phase' = "failed" => report'.breach = breach'
  BY <1>1 DEF TrackerTypeOK, Stats, Ended, Breach
<1>3. Accounting'
  BY <1>1 DEF Accounting, TrackerTypeOK, Active, Ended
<1>4. WithinLimits' /\ CheckInv' /\ DurationIsRunTime'
  BY <1>2 DEF WithinLimits, CheckInv, DurationIsRunTime
<1>. QED  BY <1>2, <1>3, <1>4

(* What a callback that changes no time leaves to be shown.                 *)
LEMMA MemoryKeeps ==
    ASSUME Inductive, phase \in Active,
           UNCHANGED <<clock, phase, request, limits, clockVars, report, ran>>,
           UNCHANGED <<counter, late>>,
           allocations' \in Nat, live' \in Nat, peak' \in Nat, held' \in Nat,
           live' = held', live' <= peak', WithinLimits',
           \/ UNCHANGED blame
           \/ \E b \in Breach \ {"time"} : RecordBreach(b)
    PROVE  Inductive'
<1>. USE DEF Inductive, TrackerInv, clockVars
<1>1. /\ refused' \subseteq Breach /\ breach' \in Breach \cup {"none"}
      /\ IF refused' = {} THEN breach' = "none" ELSE breach' \in refused'
      /\ "time" \in refused' <=> "time" \in refused
  BY DEF TrackerTypeOK, blame, RecordBreach
<1>2. TrackerTypeOK'
  BY <1>1 DEF TrackerTypeOK, Active
<1>3. Accounting' /\ CheckInv' /\ DurationIsRunTime' /\ phase' # "failed"
  BY <1>1 DEF Accounting, CheckInv, DurationIsRunTime, Active, Ended
<1>. QED  BY <1>1, <1>2, <1>3

LEMMA RefuseKeeps ==
    ASSUME Inductive, phase \in Active, NEW b \in Breach \ {"time"}, Refuse(b),
           UNCHANGED <<clock, phase, request, limits, clockVars, report, ran>>,
           UNCHANGED <<counter, late>>
    PROVE  Inductive'
<1>1. /\ allocations' = allocations /\ live' = live /\ peak' = peak /\ held' = held
      /\ RecordBreach(b)
      /\ WithinLimits'
  BY DEF Refuse, memoryVars, Inductive, TrackerInv, WithinLimits
<1>. QED  BY <1>1, MemoryKeeps DEF Inductive, TrackerInv, TrackerTypeOK, Accounting

\* The callbacks that ask for memory, give it back or only look.
LEMMA MemoryCallbackKeeps ==
    ASSUME Inductive, phase \in Active, NEW n \in Nat,
           \/ OnAllocate(n) \/ OnGrow(n) \/ OnFree(n)
           \/ CheckLargeResult(n) \/ CheckRecursionDepth(n),
           UNCHANGED <<clock, phase, request, limits, clockVars, report, ran>>,
           UNCHANGED <<counter, late>>
    PROVE  Inductive'
<1>. DEFINE Granted == /\ allocations' \in Nat /\ live' \in Nat /\ peak' \in Nat /\ held' \in Nat
                       /\ live' = held' /\ live' <= peak' /\ WithinLimits'
                       /\ UNCHANGED blame
<1>1. /\ limits["memory"] \in Nat /\ limits["allocations"] \in Nat /\ limits["depth"] \in Nat
      /\ allocations \in Nat /\ live \in Nat /\ peak \in Nat /\ held \in Nat
      /\ live = held /\ live <= peak
      /\ peak <= limits["memory"] /\ allocations <= limits["allocations"]
      /\ limits' = limits
  BY LimitTypes DEF Inductive, TrackerInv, TrackerTypeOK, Accounting, WithinLimits
<1>2. CASE OnAllocate(n)
  <2>1. \/ Refuse("allocations") \/ Refuse("memory") \/ Granted
    BY <1>1, <1>2 DEF OnAllocate, StoreMemory, WithinLimits
  <2>. QED  BY <2>1, RefuseKeeps, MemoryKeeps DEF Breach
<1>3. CASE OnGrow(n)
  <2>1. Refuse("memory") \/ Granted
    BY <1>1, <1>3 DEF OnGrow, StoreMemory, WithinLimits
  <2>. QED  BY <2>1, RefuseKeeps, MemoryKeeps DEF Breach
<1>4. CASE OnFree(n)
  <2>1. Granted
    BY <1>1, <1>4 DEF OnFree, WithinLimits
  <2>. QED  BY <2>1, MemoryKeeps
<1>5. CASE CheckLargeResult(n) \/ CheckRecursionDepth(n)
  <2>1. Refuse("memory") \/ Refuse("recursion") \/ Granted
    BY <1>1, <1>5 DEF CheckLargeResult, CheckRecursionDepth, memoryVars, WithinLimits
  <2>. QED  BY <2>1, RefuseKeeps, MemoryKeeps DEF Breach
<1>. QED  BY <1>2, <1>3, <1>4, <1>5

LEMMA CheckTimeKeeps ==
    ASSUME Inductive, phase \in Active, phase' \in Active, CheckTime,
           UNCHANGED <<clock, request, limits, clockVars, report, ran>>
    PROVE  Inductive'
<1>. USE DEF Inductive, TrackerInv, memoryVars, clockVars
<1>. DEFINE Overrun == ran > limits["duration"]
            Reads == NextCount % Interval = 0
<1>1. /\ ran \in Nat /\ late \in Nat /\ limits["duration"] \in Nat
      /\ counter \in 0 .. CounterRange - 1
      /\ Elapsed = ran
  BY LimitTypes, ElapsedIsRan DEF TrackerTypeOK
<1>2. /\ NextCount \in 0 .. CounterRange - 1
      /\ Reads \/ NextCount % Interval = (counter % Interval) + 1
      /\ counter = Interval - 1 => Reads
  BY <1>1, TrackerAssumption, NextCountType, Zenon
<1>3. counter % Interval \in Nat
  BY <1>1, TrackerAssumption, Z3
<1>4. Accounting' /\ WithinLimits' /\ DurationIsRunTime'
  BY DEF CheckTime, Accounting, WithinLimits, DurationIsRunTime, Active, Ended
<1>5. CASE Reads /\ Overrun
  <2>1. /\ counter' = Interval - 1 /\ late' = 0
        /\ breach' = (IF breach = "none" THEN "time" ELSE breach)
        /\ refused' = refused \cup {"time"}
    BY <1>1, <1>5 DEF CheckTime, TimeRefused, Rearm, RecordBreach
  <2>2. Interval - 1 \in 0 .. CounterRange - 1
    BY TrackerAssumption, MultipleNotBelow, SMT
  <2>3. (Interval - 1) % Interval = Interval - 1
    <3>1. Interval - 1 \in 0 .. Interval - 1 /\ Interval \in Nat \ {0}
      BY TrackerAssumption
    <3>. QED  BY <3>1, SmallRemainder, Zenon
  <2>4. TrackerTypeOK'
    BY <2>1, <2>2 DEF TrackerTypeOK, CheckTime, Active, Breach
  <2>5. CheckInv'
    BY <1>5, <2>1, <2>3, TrackerAssumption DEF CheckInv
  <2>6. breach' \in refused' /\ phase' # "failed"
    BY <2>1 DEF Active
  <2>. QED  BY <1>4, <2>1, <2>4, <2>5, <2>6
<1>6. CASE ~(Reads /\ Overrun)
  <2>1. /\ counter' = NextCount
        /\ late' = IF Overrun THEN late + 1 ELSE late
        /\ breach' = breach /\ refused' = refused
    BY <1>1, <1>6 DEF CheckTime, TimeRefused, blame
  <2>2. "time" \notin refused
    BY <1>2, <1>6 DEF CheckInv
  <2>3. TrackerTypeOK'
    BY <1>1, <1>2, <2>1 DEF TrackerTypeOK, CheckTime, Active
  <2>4. late' <= NextCount % Interval
    <3>1. CASE Reads
      BY <1>1, <1>6, <2>1, <3>1 DEF CheckInv
    <3>2. CASE ~Reads
      BY <1>1, <1>2, <1>3, <2>1, <3>2 DEF CheckInv
    <3>. QED  BY <3>1, <3>2
  <2>5. late' > 0 => ran > limits["duration"]
    BY <1>1, <2>1 DEF CheckInv
  <2>6. CheckInv'
    BY <2>1, <2>2, <2>4, <2>5 DEF CheckInv
  <2>7. phase' # "failed"
    BY DEF Active
  <2>. QED  BY <1>4, <2>1, <2>2, <2>3, <2>6, <2>7
<1>. QED  BY <1>5, <1>6

LEMMA CallbackKeeps ==
    ASSUME Inductive, Callback
    PROVE  Inductive'
<1>1. CASE CheckTime
  <2>1. phase \in Active /\ phase' \in Active
    BY DEF Callback
  <2>. QED  BY <1>1, <2>1, CheckTimeKeeps DEF Callback
<1>2. CASE ~CheckTime
  <2>1. /\ phase \in Active
        /\ UNCHANGED <<clock, phase, request, limits, clockVars, report, ran>>
        /\ UNCHANGED <<counter, late>>
        /\ \E n \in Nat : \/ OnAllocate(n) \/ OnGrow(n) \/ OnFree(n)
                          \/ CheckLargeResult(n) \/ CheckRecursionDepth(n)
    BY <1>2, TrackerAssumption, Zenon DEF Callback
  <2>. QED  BY <2>1, MemoryCallbackKeeps
<1>. QED  BY <1>1, <1>2

LEMMA LoopCheckKeeps ==
    ASSUME Inductive, LoopCheck
    PROVE  Inductive'
<1>1. phase \in Active /\ phase' \in Active
  BY DEF LoopCheck, Active
<1>. QED  BY <1>1, CheckTimeKeeps DEF LoopCheck

LEMMA TickKeeps ==
    ASSUME Inductive, TrackerTick
    PROVE  Inductive'
<1>. USE DEF Inductive, TrackerInv, TrackerTick, memoryVars, counters, clockVars, blame
<1>1. /\ clock \in Nat /\ clock' = clock + 1 /\ clock' \in 0..MaxClock
      /\ ran \in Nat /\ ran' \in Nat /\ ran' >= ran
      /\ limits["duration"] \in Nat
  BY TrackerAssumption, LimitTypes DEF TrackerTypeOK
<1>2. TrackerTypeOK'
  BY <1>1 DEF TrackerTypeOK
<1>3. Accounting'
  BY <1>1 DEF Accounting, TrackerTypeOK, Active
<1>4. WithinLimits' /\ DurationIsRunTime'
  BY DEF WithinLimits, DurationIsRunTime, Active, Ended
<1>5. CheckInv'
  BY <1>1 DEF CheckInv
<1>. QED  BY <1>2, <1>3, <1>4, <1>5

\* TrackerInv: types, accounting, limits and sampling hold together in every
\* reachable state.
THEOREM TrackerInvariance == TrackerSpec => []Inductive
<1>1. TrackerInit => Inductive
  BY InitEstablishes
<1>2. Inductive /\ [TrackerNext]_trackerVars => Inductive'
  <2>. SUFFICES ASSUME Inductive, [TrackerNext]_trackerVars
                PROVE  Inductive'
    OBVIOUS
  <2>1. CASE BeginSegment
    BY <2>1, BeginSegmentKeeps
  <2>2. ASSUME NEW outcome \in {"paused"} \cup Ended, EndSegment(outcome)
        PROVE  Inductive'
    BY <2>2, EndSegmentKeeps
  <2>3. CASE Callback
    BY <2>3, CallbackKeeps
  <2>4. CASE LoopCheck
    BY <2>4, LoopCheckKeeps
  <2>5. CASE TrackerTick
    BY <2>5, TickKeeps
  <2>6. CASE UNCHANGED trackerVars
    BY <2>6 DEF trackerVars, memoryVars, counters, clockVars, blame, Inductive, TrackerInv,
                TrackerTypeOK, Accounting, WithinLimits, CheckInv, DurationIsRunTime
  <2>. QED  BY <2>1, <2>2, <2>3, <2>4, <2>5, <2>6, Zenon DEF TrackerNext
<1>. QED  BY <1>1, <1>2, PTL DEF TrackerSpec

\* TrackerInv: no refused callback, pause or wrap of the counter makes the tracker
\* disagree with what the program did.
THEOREM TrackerInvHolds == TrackerSpec => []TrackerInv
<1>1. Inductive => TrackerInv
  BY DEF Inductive
<1>. QED  BY <1>1, TrackerInvariance, PTL

\* WithinCeilings: a program gets at most the server's maximum and what its client
\* asked for (ResolvedLimits::resolve, on_allocate, on_grow).
THEOREM CeilingsHold == TrackerSpec => []WithinCeilings
<1>1. Inductive => WithinCeilings
  <2>. SUFFICES ASSUME Inductive
                PROVE  WithinCeilings
    OBVIOUS
  <2>1. /\ request \in LimitsRequest /\ limits = Resolve(request)
        /\ {"memory", "allocations"} \subseteq Resources
    BY TrackerAssumption DEF Inductive, TrackerInv, TrackerTypeOK, Resources
  <2>2. \A x \in Resources : /\ limits[x] <= Ceilings[x]
                             /\ request[x] # Omitted => limits[x] <= request[x]
    BY <2>1, BoundsAssumption, ResolveType, Zenon
  <2>3. held <= limits["memory"] /\ allocations <= limits["allocations"]
    BY LimitTypes DEF Inductive, TrackerInv, TrackerTypeOK, Accounting, WithinLimits
  <2>4. /\ held \in Nat /\ allocations \in Nat
        /\ \A x \in {"memory", "allocations"} :
              limits[x] \in Nat /\ Ceilings[x] \in Nat /\ request[x] \in Nat \cup {Omitted}
    BY <2>1, BoundsAssumption
       DEF Inductive, TrackerInv, TrackerTypeOK, ResolvedLimits, LimitsRequest
  <2>. QED  BY <2>1, <2>2, <2>3, <2>4 DEF WithinCeilings, Omitted
<1>. QED  BY <1>1, TrackerInvariance, PTL

\* OverrunCaught: an overrun passes fewer than Interval checks, for every interval
\* that divides the range of the counter.
THEOREM OverrunsCaught == TrackerSpec => []OverrunCaught
<1>1. Inductive => OverrunCaught
  <2>. SUFFICES ASSUME Inductive
                PROVE  OverrunCaught
    OBVIOUS
  <2>1. counter % Interval \in 0 .. Interval - 1
    BY TrackerAssumption, Z3 DEF Inductive, TrackerInv, TrackerTypeOK
  <2>. QED  BY <2>1, TrackerAssumption
            DEF Inductive, TrackerInv, TrackerTypeOK, CheckInv, OverrunCaught
<1>. QED  BY <1>1, TrackerInvariance, PTL

\* OverrunRedetected: after the first refused check no check lets the program go on.
THEOREM OverrunsRedetected == TrackerSpec => []OverrunRedetected
<1>1. Inductive => OverrunRedetected
  BY DEF Inductive, TrackerInv, CheckInv, OverrunRedetected
<1>. QED  BY <1>1, TrackerInvariance, PTL

\* NoFalseTimeout: idle time between resumes never times a program out.
THEOREM TimeoutsAreReal == TrackerSpec => []NoFalseTimeout
<1>1. Inductive => NoFalseTimeout
  BY DEF Inductive, TrackerInv, CheckInv, NoFalseTimeout
<1>. QED  BY <1>1, TrackerInvariance, PTL

\* FailureClassified: a failure is blamed on a limit if and only if one was refused,
\* in whatever segment, and on one of those.
THEOREM FailuresClassified == TrackerSpec => []FailureClassified
<1>1. Inductive => FailureClassified
  BY DEF Inductive, TrackerInv, FailureClassified
<1>. QED  BY <1>1, TrackerInvariance, PTL

\* TrackerTypeOK: the counter stays in its range and no counter goes below 0.
THEOREM TrackerTypes == TrackerSpec => []TrackerTypeOK
<1>1. Inductive => TrackerTypeOK
  BY DEF Inductive, TrackerInv
<1>. QED  BY <1>1, TrackerInvariance, PTL

\* DurationIsRunTime: the duration that a step reports is the time spent running.
THEOREM DurationsAreRunTime == TrackerSpec => []DurationIsRunTime
<1>1. Inductive => DurationIsRunTime
  BY DEF Inductive
<1>. QED  BY <1>1, TrackerInvariance, PTL
=============================================================================
