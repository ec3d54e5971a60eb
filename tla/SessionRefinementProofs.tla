------------------------ MODULE SessionRefinementProofs ------------------------
(***************************************************************************)
(* The service makes no other moves with a session than SessionProtocol    *)
(* allows: every step of SessionApi is a step of the protocol, for one     *)
(* session, or leaves all of them as they are.                             *)
(***************************************************************************)
EXTENDS SessionRefinement, SessionStepsProofs

-----------------------------------------------------------------------------
(* The phase of a session, from its entry and whether a resume awaits *)

PhaseFrom(e, awaited) ==
    CASE e = Unborn -> "absent"
      [] e # Unborn /\ e.terminal -> "done"
      [] ~e.terminal /\ e.progress # NoProgress -> "idle"
      [] e # Unborn /\ ~e.terminal /\ e.progress = NoProgress ->
            IF awaited THEN "busy" ELSE "lost"

LEMMA PhaseFromAlt ==
    ASSUME NEW id
    PROVE  /\ PhaseOf(id) = PhaseFrom(entry[id], Awaited(id))
           /\ PhaseOf(id)' = PhaseFrom(entry'[id], Awaited(id)')
BY DEF PhaseOf, PhaseFrom, Finished, Idle, Busy

LEMMA PhaseCases ==
    ASSUME NEW e, e.terminal \in BOOLEAN, NEW awaited
    PROVE  /\ e = Unborn => PhaseFrom(e, awaited) = "absent"
           /\ e # Unborn /\ e.terminal => PhaseFrom(e, awaited) = "done"
           /\ ~e.terminal /\ e.progress # NoProgress => PhaseFrom(e, awaited) = "idle"
           /\ e # Unborn /\ ~e.terminal /\ e.progress = NoProgress =>
                 PhaseFrom(e, awaited) = IF awaited THEN "busy" ELSE "lost"
<1>1. ~Unborn.terminal /\ Unborn.progress = NoProgress
      BY DEF Unborn
<1>2. CASE e = Unborn
      BY <1>1, <1>2 DEF PhaseFrom
<1>3. CASE e # Unborn /\ e.terminal
      BY <1>3 DEF PhaseFrom
<1>4. CASE e # Unborn /\ ~e.terminal /\ e.progress # NoProgress
      BY <1>4 DEF PhaseFrom
<1>5. CASE e # Unborn /\ ~e.terminal /\ e.progress = NoProgress
      BY <1>5 DEF PhaseFrom
<1> QED BY <1>1, <1>2, <1>3, <1>4, <1>5

-----------------------------------------------------------------------------
(* The abstract state *)

phases == [id \in CreateReqs |-> PhaseOf(id)]

stepCounts == [id \in CreateReqs |-> entry[id].snapshot.seq]

listings == [id \in CreateReqs |-> id \in store]

\* A step that leaves one session as it is.
SameView(id) ==
    /\ PhaseOf(id)' = PhaseOf(id)
    /\ entry'[id].snapshot.seq = entry[id].snapshot.seq
    /\ (id \in store') = (id \in store)

LEMMA NoMove ==
    ASSUME \A id \in CreateReqs : SameView(id)
    PROVE  UNCHANGED Protocol!protocolVars
BY DEF SameView, Protocol!protocolVars

\* A step that concerns one session only.
LEMMA OneMoves ==
    ASSUME NEW s \in CreateReqs, \A id \in CreateReqs \ {s} : SameView(id)
    PROVE  /\ phases' = [phases EXCEPT ![s] = PhaseOf(s)']
           /\ stepCounts' = [stepCounts EXCEPT ![s] = entry'[s].snapshot.seq]
           /\ listings' = [listings EXCEPT ![s] = (s \in store')]
BY DEF SameView, phases, stepCounts, listings

\* The moves of the protocol, in terms of the session that makes them.
LEMMA Moves ==
    ASSUME NEW s \in CreateReqs, \A id \in CreateReqs \ {s} : SameView(id)
    PROVE  /\ /\ PhaseOf(s) = "absent" /\ PhaseOf(s)' \in {"idle", "done"}
              /\ entry'[s].snapshot.seq = entry[s].snapshot.seq + 1 /\ s \in store'
              => Protocol!Open(s)
           /\ /\ PhaseOf(s) = "idle" /\ PhaseOf(s)' = "busy"
              /\ entry'[s].snapshot.seq = entry[s].snapshot.seq /\ store' = store
              => Protocol!Begin(s)
           /\ /\ PhaseOf(s) = "busy" /\ PhaseOf(s)' \in {"idle", "done"}
              /\ entry'[s].snapshot.seq = entry[s].snapshot.seq + 1 /\ store' = store
              => Protocol!Advance(s)
           /\ /\ PhaseOf(s) = "busy" /\ PhaseOf(s)' = "idle"
              /\ entry'[s].snapshot.seq = entry[s].snapshot.seq /\ store' = store
              => Protocol!Reject(s)
           /\ /\ PhaseOf(s) = "busy" /\ PhaseOf(s)' = "lost"
              /\ entry'[s].snapshot.seq = entry[s].snapshot.seq /\ store' = store
              => Protocol!Lose(s)
           /\ /\ PhaseOf(s)' = PhaseOf(s) /\ s \in store /\ s \notin store'
              /\ entry'[s].snapshot.seq = entry[s].snapshot.seq
              => Protocol!Close(s)
<1>1. /\ phases' = [phases EXCEPT ![s] = PhaseOf(s)']
      /\ stepCounts' = [stepCounts EXCEPT ![s] = entry'[s].snapshot.seq]
      /\ listings' = [listings EXCEPT ![s] = (s \in store')]
      BY OneMoves
<1>2. phases[s] = PhaseOf(s) /\ stepCounts[s] = entry[s].snapshot.seq /\ listings[s] = (s \in store)
      BY DEF phases, stepCounts, listings
<1>3. store' = store => listings' = listings
      BY DEF listings
<1>4. PhaseOf(s)' = PhaseOf(s) => phases' = phases
      BY <1>1, <1>2 DEF phases
<1>5. entry'[s].snapshot.seq = entry[s].snapshot.seq => stepCounts' = stepCounts
      BY <1>1, <1>2 DEF stepCounts
<1>6. ASSUME PhaseOf(s)' \in {"idle", "done"},
             entry'[s].snapshot.seq = entry[s].snapshot.seq + 1
      PROVE  Protocol!Step(s)
  <2>1. \E next \in {"idle", "done"} : phases' = [phases EXCEPT ![s] = next]
        BY <1>1, <1>6
  <2>2. stepCounts' = [stepCounts EXCEPT ![s] = stepCounts[s] + 1]
        BY <1>1, <1>2, <1>6
  <2> QED BY <2>1, <2>2 DEF Protocol!Step, phases, stepCounts
<1>7. ASSUME PhaseOf(s) = "absent", PhaseOf(s)' \in {"idle", "done"},
             entry'[s].snapshot.seq = entry[s].snapshot.seq + 1, s \in store'
      PROVE  Protocol!Open(s)
  <2>1. listings' = [listings EXCEPT ![s] = TRUE]
        BY <1>1, <1>7
  <2> QED BY <1>2, <1>6, <1>7, <2>1 DEF Protocol!Open, phases, listings
<1>8. ASSUME PhaseOf(s) = "idle", PhaseOf(s)' = "busy",
             entry'[s].snapshot.seq = entry[s].snapshot.seq, store' = store
      PROVE  Protocol!Begin(s)
      BY <1>1, <1>2, <1>3, <1>5, <1>8 DEF Protocol!Begin, phases, stepCounts, listings
<1>9. ASSUME PhaseOf(s) = "busy", PhaseOf(s)' \in {"idle", "done"},
             entry'[s].snapshot.seq = entry[s].snapshot.seq + 1, store' = store
      PROVE  Protocol!Advance(s)
      BY <1>2, <1>3, <1>6, <1>9 DEF Protocol!Advance, phases, listings
<1>10. ASSUME PhaseOf(s) = "busy", PhaseOf(s)' = "idle",
              entry'[s].snapshot.seq = entry[s].snapshot.seq, store' = store
       PROVE  Protocol!Reject(s)
       BY <1>1, <1>2, <1>3, <1>5, <1>10 DEF Protocol!Reject, phases, stepCounts, listings
<1>11. ASSUME PhaseOf(s) = "busy", PhaseOf(s)' = "lost",
              entry'[s].snapshot.seq = entry[s].snapshot.seq, store' = store
       PROVE  Protocol!Lose(s)
       BY <1>1, <1>2, <1>3, <1>5, <1>11 DEF Protocol!Lose, phases, stepCounts, listings
<1>12. ASSUME PhaseOf(s)' = PhaseOf(s), s \in store, s \notin store',
              entry'[s].snapshot.seq = entry[s].snapshot.seq
       PROVE  Protocol!Close(s)
  <2>1. listings' = [listings EXCEPT ![s] = FALSE]
    <3>1. (s \in store') = FALSE
          BY <1>12
    <3> QED BY <1>1, <3>1, Zenon
  <2>2. listings[s]
        BY <1>2, <1>12
  <2> QED BY <1>4, <1>5, <1>12, <2>1, <2>2 DEF Protocol!Close, phases, stepCounts, listings
<1> QED BY <1>7, <1>8, <1>9, <1>10, <1>11, <1>12

-----------------------------------------------------------------------------
(* What a handler's step leaves alone *)

\* A handler other than a resume, or a resume that awaits neither before nor
\* after, or before as after, makes no difference to who awaits.
LEMMA AwaitedStays ==
    ASSUME TypeOK, NEW r \in Requests, HandlerStep(r), NEW id,
           r \in ResumeReqs =>
              (Session(r)' = id /\ pc'[r] = "awaiting" <=> Session(r) = id /\ pc[r] = "awaiting")
    PROVE  Awaited(id)' = Awaited(id)
<1>1. ASSUME NEW q \in ResumeReqs
      PROVE  Session(q)' = id /\ pc'[q] = "awaiting" <=> Session(q) = id /\ pc[q] = "awaiting"
  <2>1. q \in Requests
        BY Routes
  <2>2. CASE q # r
        BY <2>1, <2>2, StepIsLocal DEF OthersUntouched, Session
  <2> QED BY <2>2
<1>2. Awaited(id)' <=> Awaited(id)
      BY <1>1 DEF Awaited
<1> QED BY <1>2 DEF Awaited

LEMMA ViewStays ==
    ASSUME NEW id, entry'[id] = entry[id], id \in store' <=> id \in store,
           Awaited(id)' = Awaited(id)
    PROVE  SameView(id)
<1>1. PhaseOf(id)' = PhaseOf(id)
      BY PhaseFromAlt
<1> QED BY <1>1 DEF SameView

LEMMA TerminalType ==
    ASSUME IInv, NEW r \in Requests, HandlerStep(r), NEW id \in CreateReqs
    PROVE  entry[id].terminal \in BOOLEAN /\ entry'[id].terminal \in BOOLEAN
<1>1. TypeOK /\ TypeOK'
      BY TypeNext DEF IInv, Next, HandlerStep
<1> QED BY <1>1 DEF TypeOK, StoreTypeOK, SessionEntry

\* A resume in flight has a session that is known, and busy.
LEMMA AwaitsBusy ==
    ASSUME IInv, StepInv, NEW r \in ResumeReqs, pc[r] = "awaiting"
    PROVE  /\ Session(r) \in CreateReqs /\ entry[Session(r)] # Unborn
           /\ Busy(Session(r)) /\ PhaseOf(Session(r)) = "busy"
           /\ \A q \in ResumeReqs : Session(q) = Session(r) /\ pc[q] = "awaiting" => q = r
<1>t. TypeOK /\ HandlerInv(r)
      BY Routes DEF IInv
<1>1. Session(r) \in CreateReqs /\ resp[Session(r)].code = 201 /\ Flies(r)
      BY <1>t DEF HandlerInv, Flies
<1>2. entry[Session(r)] # Unborn /\ entry[Session(r)].terminal \in BOOLEAN
      BY <1>t, <1>1 DEF StepInv, EntryInv, TypeOK, StoreTypeOK, SessionEntry
<1>3. Busy(Session(r))
      BY <1>1 DEF IInv, SingleFlight, InFlight, Flies
<1>4. ASSUME NEW q \in ResumeReqs, Session(q) = Session(r), pc[q] = "awaiting"
      PROVE  q = r
  <2>1. HandlerInv(q)
        BY Routes DEF IInv
  <2>2. q \in InFlight(Session(r)) /\ r \in InFlight(Session(r))
        BY <1>1, <1>4, <2>1 DEF HandlerInv, InFlight, Flies
  <2> QED BY <1>1, <2>2 DEF IInv, SingleFlight
<1>5. Awaited(Session(r))
      BY DEF Awaited
<1>6. PhaseOf(Session(r)) = "busy"
      BY <1>2, <1>3, <1>5, PhaseFromAlt, PhaseCases DEF Busy
<1> QED BY <1>1, <1>2, <1>3, <1>4, <1>6

\* After a resume's await its session is awaited no more.
LEMMA AwaitedNoMore ==
    ASSUME IInv, StepInv, NEW r \in ResumeReqs, HandlerStep(r), pc[r] = "awaiting",
           pc'[r] # "awaiting", NEW s, s = Session(r)
    PROVE  /\ ~Awaited(s)'
           /\ \A id \in CreateReqs \ {s} : Awaited(id)' = Awaited(id)
<1>t. TypeOK /\ r \in Requests
      BY Routes DEF IInv
<1>1. Session(r)' = s
      BY <1>t, CallStays DEF Session
<1>2. \A id \in CreateReqs \ {s} : Awaited(id)' = Awaited(id)
      BY <1>t, <1>1, AwaitedStays
<1>3. ASSUME NEW q \in ResumeReqs, Session(q)' = s, pc'[q] = "awaiting"
      PROVE  FALSE
  <2>1. q # r /\ q \in Requests
        BY <1>3, Routes
  <2>2. Session(q) = Session(r) /\ pc[q] = "awaiting"
        BY <1>t, <1>3, <2>1, StepIsLocal DEF OthersUntouched, Session
  <2> QED BY <2>1, <2>2, AwaitsBusy
<1> QED BY <1>1, <1>2, <1>3 DEF Awaited

-----------------------------------------------------------------------------
(* Every step is a move of the protocol or none *)

\* A step between two moves.
LEMMA Quiet ==
    ASSUME TypeOK, NEW r \in Requests, HandlerStep(r), entry' = entry, store' = store,
           r \in ResumeReqs =>
              /\ pc'[r] = "awaiting" <=> pc[r] = "awaiting"
              /\ pc[r] = "awaiting" => call'[r] = call[r]
    PROVE  UNCHANGED Protocol!protocolVars
<1>1. \A id : Awaited(id)' = Awaited(id)
      BY AwaitedStays DEF Session
<1> QED BY <1>1, ViewStays, NoMove

LEMMA InsertOpens ==
    ASSUME IInv, StepInv, NEW r \in Requests, InsertSession(r)
    PROVE  r \in CreateReqs /\ Protocol!Open(r)
<1>t. TypeOK /\ HandlerInv(r) /\ HandlerStep(r)
      BY DEF IInv, HandlerStep, Handling
<1>1. r \in CreateReqs /\ r \notin ResumeReqs /\ IsStep(exec[r].result)
      BY <1>t, Routes DEF InsertSession, HandlerInv
<1>2. WellFormed(exec[r].result) /\ exec[r].result.seq = 1 /\ entry[r] = Unborn
      BY <1>1 DEF InsertSession, StepInv, CreateInv, EntryInv
<1>3. /\ entry'[r].progress = exec[r].result.progress
      /\ (entry'[r].terminal <=> exec[r].result.status # "paused")
      /\ entry'[r].snapshot.seq = exec[r].result.seq
      /\ store' = store \cup {r}
      BY <1>t, <1>1, InsertedEntry
<1>4. ASSUME NEW id \in CreateReqs \ {r} PROVE SameView(id)
  <2>1. entry'[id] = entry[id]
        BY <1>t, <1>4 DEF InsertSession, Insert, TypeOK, StoreTypeOK
  <2>2. Awaited(id)' = Awaited(id)
        BY <1>t, <1>1, AwaitedStays
  <2> QED BY <1>3, <2>1, <2>2, ViewStays
<1>5. PhaseOf(r) = "absent"
      BY <1>t, <1>1, <1>2, TerminalType, PhaseFromAlt, PhaseCases
<1>6. entry'[r].terminal \in BOOLEAN /\ entry'[r] # Unborn
  <2>1. Unborn.snapshot.seq = 0
        BY DEF Unborn
  <2> QED BY <1>t, <1>1, <1>2, <1>3, <2>1, TerminalType
<1>7. PhaseOf(r)' \in {"idle", "done"}
  <2>1. CASE exec[r].result.status = "paused"
    <3>1. entry'[r].progress # NoProgress /\ ~entry'[r].terminal
          BY <1>2, <1>3, <2>1, NoProgressIsNone DEF WellFormed
    <3> QED BY <1>6, <3>1, PhaseFromAlt, PhaseCases
  <2>2. CASE exec[r].result.status # "paused"
        BY <1>3, <1>6, <2>2, PhaseFromAlt, PhaseCases
  <2> QED BY <2>1, <2>2
<1>8. entry'[r].snapshot.seq = entry[r].snapshot.seq + 1 /\ r \in store'
      BY <1>2, <1>3 DEF Unborn
<1> QED BY <1>1, <1>4, <1>5, <1>7, <1>8, Moves

LEMMA TakeOffBegins ==
    ASSUME IInv, StepInv, NEW r \in Requests, TakeOff(r),
           NEW s, s = Session(r)
    PROVE  s \in CreateReqs /\ Protocol!Begin(s)
<1>t. TypeOK /\ HandlerStep(r)
      BY DEF IInv, HandlerStep, Handling, TakeOff
<1>1. /\ r \in ResumeReqs /\ pc[r] = "acquire" /\ s \in CreateReqs /\ Idle(s)
      /\ entry[s] # Unborn /\ call' = call
      BY SetsOut
<1>2. /\ entry'[s].terminal = entry[s].terminal
      /\ entry'[s].progress = NoProgress
      /\ entry'[s].snapshot = entry[s].snapshot
      BY <1>t, <1>1, TakenFields
<1>3. pc'[r] = "awaiting" /\ store' = store
      BY <1>t, GotoLocal DEF TakeOff, TakeProgress
<1>4. ASSUME NEW id \in CreateReqs \ {s} PROVE SameView(id)
  <2>1. entry'[id] = entry[id]
        BY <1>t, <1>4, EntryMoves, Routes DEF InsertSession, IInv, HandlerInv, TakeOff, Acquire
  <2>2. Awaited(id)' = Awaited(id)
        BY <1>t, <1>1, <1>4, AwaitedStays DEF Session
  <2> QED BY <1>3, <2>1, <2>2, ViewStays
<1>5. PhaseOf(s) = "idle"
      BY <1>t, <1>1, TerminalType, PhaseFromAlt, PhaseCases DEF Idle
<1>6. PhaseOf(s)' = "busy"
  <2>1. entry'[s] # Unborn
    <3>1. entry[s].snapshot.status = "paused" /\ Unborn.snapshot.status = "none"
          BY SetsOut DEF Unborn
    <3> QED BY <1>2, <3>1
  <2>2. Awaited(s)'
        BY <1>1, <1>3 DEF Awaited, Session
  <2> QED BY <1>t, <1>1, <1>2, <2>1, <2>2, TerminalType, PhaseFromAlt, PhaseCases DEF Idle
<1> QED BY <1>1, <1>2, <1>3, <1>4, <1>5, <1>6, Moves

\* What a resume does after its await is seen by its own session only.
LEMMA ResolveFrame ==
    ASSUME IInv, StepInv, NEW r \in ResumeReqs, HandlerStep(r), pc[r] = "awaiting",
           pc'[r] # "awaiting", store' = store,
           NEW id \in CreateReqs, id # Session(r)
    PROVE  SameView(id)
<1>1. r \in Requests /\ TypeOK /\ HandlerInv(r)
      BY Routes DEF IInv
<1>2. entry'[id] = entry[id]
      BY <1>1, EntryMoves, Routes DEF InsertSession, HandlerInv
<1> QED BY <1>2, AwaitedNoMore, ViewStays

LEMMA RecordAdvances ==
    ASSUME IInv, StepInv, NEW r \in Requests, RecordStep(r),
           NEW s, s = Session(r)
    PROVE  s \in CreateReqs /\ Protocol!Advance(s)
<1>t. TypeOK /\ HandlerStep(r)
      BY DEF IInv, HandlerStep, Handling
<1>1. /\ r \in ResumeReqs /\ pc[r] = "awaiting" /\ exec[r].phase = "finished"
      /\ s \in CreateReqs
      BY ComesBack
<1>2. pc'[r] # "awaiting" /\ store' = store /\ IsStep(exec[r].result)
      BY <1>t, GotoLocal DEF RecordStep, Wake, StoreStep, IsStep
<1>3. WellFormed(exec[r].result) /\ exec[r].result.seq = entry[s].snapshot.seq + 1
      BY <1>1, <1>2 DEF StepInv, FlightInv
<1>4. /\ entry'[s].progress = exec[r].result.progress
      /\ (entry'[s].terminal <=> exec[r].result.status # "paused")
      /\ entry'[s].snapshot.seq = exec[r].result.seq
      /\ entry'[s].snapshot.status = exec[r].result.status
      BY <1>t, <1>1, RecordedEntry
<1>5. entry'[s] # Unborn
  <2>1. Unborn.snapshot.status = "none"
        BY DEF Unborn
  <2> QED BY <1>2, <1>4, <2>1 DEF IsStep, StepStatus
<1>6. PhaseOf(s)' \in {"idle", "done"}
  <2>1. CASE exec[r].result.status = "paused"
    <3>1. entry'[s].progress # NoProgress /\ ~entry'[s].terminal
          BY <1>3, <1>4, <2>1, NoProgressIsNone DEF WellFormed
    <3> QED BY <1>t, <1>1, <3>1, TerminalType, PhaseFromAlt, PhaseCases
  <2>2. CASE exec[r].result.status # "paused"
        BY <1>t, <1>1, <1>4, <1>5, <2>2, TerminalType, PhaseFromAlt, PhaseCases
  <2> QED BY <2>1, <2>2
<1>7. PhaseOf(s) = "busy"
      BY <1>1, AwaitsBusy
<1>8. \A id \in CreateReqs \ {s} : SameView(id)
      BY <1>t, <1>1, <1>2, ResolveFrame
<1> QED BY <1>1, <1>2, <1>3, <1>4, <1>6, <1>7, <1>8, Moves

LEMMA RestoreRejects ==
    ASSUME IInv, StepInv, NEW r \in Requests, RestoreProgress(r),
           NEW s, s = Session(r)
    PROVE  s \in CreateReqs /\ Protocol!Reject(s)
<1>t. TypeOK /\ HandlerStep(r)
      BY DEF IInv, HandlerStep, Handling
<1>1. /\ r \in ResumeReqs /\ pc[r] = "awaiting" /\ exec[r].phase = "finished"
      /\ s \in CreateReqs /\ Busy(s)
      BY ComesBack
<1>2. /\ pc'[r] # "awaiting" /\ store' = store /\ exec[r].result.status = "mismatch"
      BY <1>t, AnswerLocal DEF RestoreProgress, Wake, Restore
<1>3. exec[r].result.progress # NoProgress
      BY <1>1, <1>2, NoProgressIsNone DEF StepInv, FlightInv
<1>4. /\ entry'[s].progress = exec[r].result.progress
      /\ entry'[s].terminal = entry[s].terminal
      /\ entry'[s].snapshot = entry[s].snapshot
      BY <1>t, <1>1, RestoredFields
<1>5. PhaseOf(s)' = "idle"
      BY <1>t, <1>1, <1>3, <1>4, TerminalType, PhaseFromAlt, PhaseCases DEF Busy
<1>6. PhaseOf(s) = "busy"
      BY <1>1, AwaitsBusy
<1>7. \A id \in CreateReqs \ {s} : SameView(id)
      BY <1>t, <1>1, <1>2, ResolveFrame
<1> QED BY <1>1, <1>2, <1>4, <1>5, <1>6, <1>7, Moves

\* A resume whose handler is dropped or whose execution panicked.
LEMMA LossLoses ==
    ASSUME IInv, StepInv, NEW r \in ResumeReqs, Abandon(r) \/ WakePanicked(r),
           NEW s, s = Session(r)
    PROVE  s \in CreateReqs /\ Protocol!Lose(s)
<1>t. TypeOK /\ HandlerStep(r) /\ r \in Requests
      BY Routes DEF IInv, HandlerStep, Handling
<1>1. /\ pc[r] = "awaiting" /\ pc'[r] # "awaiting" /\ store' = store /\ entry' = entry
      BY <1>t, AnswerLocal DEF Abandon, WakePanicked, Wake, storeVars
<1>2. s \in CreateReqs /\ entry[s] # Unborn /\ Busy(s) /\ PhaseOf(s) = "busy"
      BY <1>1, AwaitsBusy
<1>3. ~Awaited(s)'
      BY <1>t, <1>1, AwaitedNoMore
<1>4. PhaseOf(s)' = "lost"
      BY <1>t, <1>1, <1>2, <1>3, TerminalType, PhaseFromAlt, PhaseCases DEF Busy
<1>5. \A id \in CreateReqs \ {s} : SameView(id)
      BY <1>t, <1>1, ResolveFrame
<1> QED BY <1>1, <1>2, <1>4, <1>5, Moves

\* A session taken off the map, by a delete or by the reaper.
LEMMA UnlistCloses ==
    ASSUME NEW s \in CreateReqs, Unlist(s), \A id : Awaited(id)' = Awaited(id)
    PROVE  Protocol!Close(s) \/ UNCHANGED Protocol!protocolVars
<1>1. store' = store \ {s} /\ entry' = entry
      BY DEF Unlist
<1>2. \A id \in CreateReqs \ {s} : SameView(id)
      BY <1>1, ViewStays
<1>3. CASE s \notin store
  <2>1. SameView(s)
        BY <1>1, <1>3, ViewStays
  <2> QED BY <1>2, <2>1, NoMove
<1>4. CASE s \in store
  <2>1. PhaseOf(s)' = PhaseOf(s)
        BY <1>1, PhaseFromAlt
  <2> QED BY <1>1, <1>2, <1>4, <2>1, Moves
<1> QED BY <1>3, <1>4

\* Receiving, executing, rendering and the answers that hand nothing back.
LEMMA OthersQuiet ==
    ASSUME IInv, StepInv, NEW r \in Requests, HandlerStep(r),
           ~(\/ InsertSession(r) \/ TakeOff(r) \/ RecordStep(r) \/ RestoreProgress(r)
             \/ DeleteSession(r)),
           r \in ResumeReqs => ~(Abandon(r) \/ WakePanicked(r))
    PROVE  UNCHANGED Protocol!protocolVars
<1>t. TypeOK /\ HandlerInv(r)
      BY DEF IInv
<1>1. entry' = entry
      BY <1>t, EntryMoves DEF TypeOK, StoreTypeOK, HandlerStep, Receiving, ReceiveCreate,
         ReceiveRun, ReceiveResume, ReceiveStatus, ReceiveDelete, RejectMalformed, Handling,
         WakePanicked, FinishRun, CompileFailed, CheckCapacity, FetchCreated, Acquire, TakeOff,
         Render, Abandon, Executing, StartExecution, EndExecution, storeVars
<1>2. store' = store
      BY DEF HandlerStep, Receiving, ReceiveCreate, ReceiveRun, ReceiveResume, ReceiveStatus,
         ReceiveDelete, RejectMalformed, Handling, WakePanicked, FinishRun, CompileFailed,
         CheckCapacity, FetchCreated, Acquire, TakeOff, Render, Abandon, Executing,
         StartExecution, EndExecution, storeVars
<1>3. ASSUME r \in ResumeReqs
      PROVE  /\ pc'[r] = "awaiting" <=> pc[r] = "awaiting"
             /\ pc[r] = "awaiting" => call'[r] = call[r]
  <2>r. r \notin CreateReqs \cup RunReqs \cup StatusReqs \cup DeleteReqs
        BY <1>3, Routes
  <2>1. pc[r] = "awaiting" => call'[r] = call[r]
        BY <1>t, CallStays
  <2>2. CASE ReceiveResume(r)
    <3>1. PICK p \in Principals, id \in KnownIds : Fetch(r, id, p, "acquire")
          BY <2>2 DEF ReceiveResume
    <3>2. pc[r] = "new" /\ pc'[r] # "awaiting"
          BY <1>t, <2>2, <3>1, FetchLocal DEF ReceiveResume, Receive
    <3> QED BY <2>1, <3>2
  <2>3. CASE RejectMalformed(r) \/ Acquire(r) \/ Render(r)
    <3>1. pc[r] # "awaiting"
          BY <2>3 DEF RejectMalformed, Receive, Acquire, Render
    <3>2. pc'[r] = "done"
          BY <1>t, <2>3, AnswerLocal, AnswerStepLocal DEF RejectMalformed, Acquire, TakeOff, Render
    <3> QED BY <3>1, <3>2
  <2>4. CASE Executing(r)
        BY <2>1, <2>4 DEF Executing, StartExecution, EndExecution, apiVars
  <2>5. ~(FinishRun(r) \/ CompileFailed(r))
        BY <1>3 DEF FinishRun, CompileFailed, Wake, StepInv, FlightInv, IsStep, StepStatus
  <2>6. ~(\/ ReceiveCreate(r) \/ ReceiveRun(r) \/ ReceiveStatus(r) \/ ReceiveDelete(r)
          \/ CheckCapacity(r) \/ FetchCreated(r))
        BY <1>t, <2>r DEF ReceiveCreate, ReceiveRun, ReceiveStatus, ReceiveDelete,
                          CheckCapacity, FetchCreated, HandlerInv
  <2> QED BY <1>3, <2>2, <2>3, <2>4, <2>5, <2>6 DEF HandlerStep, Receiving, Handling
<1> QED BY <1>t, <1>1, <1>2, <1>3, Quiet

LEMMA HandlerStepMoves ==
    ASSUME IInv, StepInv, NEW r \in Requests, HandlerStep(r)
    PROVE  Protocol!ProtocolNext \/ UNCHANGED Protocol!protocolVars
<1>t. TypeOK /\ HandlerInv(r)
      BY DEF IInv
<1>s. PICK s : s = Session(r)
      OBVIOUS
<1>1. CASE InsertSession(r)
      BY <1>1, InsertOpens DEF Protocol!ProtocolNext
<1>2. CASE TakeOff(r)
      BY <1>s, <1>2, TakeOffBegins DEF Protocol!ProtocolNext
<1>3. CASE RecordStep(r)
      BY <1>s, <1>3, RecordAdvances DEF Protocol!ProtocolNext, Protocol!Resolve
<1>4. CASE RestoreProgress(r)
      BY <1>s, <1>4, RestoreRejects DEF Protocol!ProtocolNext, Protocol!Resolve
<1>5. CASE r \in ResumeReqs /\ (Abandon(r) \/ WakePanicked(r))
      BY <1>s, <1>5, LossLoses DEF Protocol!ProtocolNext, Protocol!Resolve
<1>6. CASE DeleteSession(r)
  <2>1. pc[r] = "unlist" /\ pc'[r] = "done" /\ s \in CreateReqs /\ Unlist(s)
        BY <1>t, <1>s, <1>6, AnswerLocal DEF DeleteSession, HandlerInv
  <2>2. \A id : Awaited(id)' = Awaited(id)
        BY <1>t, <2>1, AwaitedStays
  <2> QED BY <2>1, <2>2, UnlistCloses DEF Protocol!ProtocolNext
<1> QED BY <1>1, <1>2, <1>3, <1>4, <1>5, <1>6, OthersQuiet

LEMMA BackgroundMoves ==
    ASSUME Reaping \/ PassTime \/ UNCHANGED vars
    PROVE  Protocol!ProtocolNext \/ UNCHANGED Protocol!protocolVars
<1>1. entry' = entry /\ pc' = pc /\ call' = call
      BY ReaperSpares
<1>2. \A id : Awaited(id)' = Awaited(id)
      BY <1>1 DEF Awaited, Session
<1>3. CASE \E id \in CreateReqs : ReaperEvict(id)
  <2>1. PICK id \in CreateReqs : Unlist(id)
        BY <1>3 DEF ReaperEvict
  <2> QED BY <1>2, <2>1, UnlistCloses DEF Protocol!ProtocolNext
<1>4. CASE ~\E id \in CreateReqs : ReaperEvict(id)
  <2>1. store' = store
        BY <1>4 DEF Reaping, ReaperWake, ReaperScanned, ReaperVisit, PassTime, Tick, vars, storeVars
  <2> QED BY <1>1, <1>2, <2>1, ViewStays, NoMove
<1> QED BY <1>3, <1>4

LEMMA ProtocolStarts == Init => Protocol!ProtocolInit
<1> SUFFICES ASSUME Init PROVE Protocol!ProtocolInit
    OBVIOUS
<1>1. store = {} /\ \A id \in CreateReqs : entry[id] = Unborn
      BY DEF Init, StoreInit
<1>2. Unborn.snapshot.seq = 0 /\ Unborn.terminal \in BOOLEAN
      BY DEF Unborn
<1>3. \A id \in CreateReqs : PhaseOf(id) = "absent"
      BY <1>1, <1>2, PhaseFromAlt, PhaseCases
<1>4. \A id \in CreateReqs : (id \in store) = FALSE
      BY <1>1
<1> QED BY <1>1, <1>2, <1>3, <1>4 DEF Protocol!ProtocolInit

-----------------------------------------------------------------------------
(* The theorem *)

\* The safety half of the refinement: interleaved as they are, the handlers,
\* executions and the reaper make no move with a session but those of the
\* protocol, one session at a time (the create and resume handlers as a whole).
THEOREM ServiceFollowsProtocol == Spec => FollowsProtocol
<1>1. IInv /\ StepInv /\ [Next]_vars => [Protocol!ProtocolNext]_Protocol!protocolVars
      BY HandlerStepMoves, BackgroundMoves DEF Next, HandlerStep
<1> QED BY <1>1, ProtocolStarts, Invariance, StepInvariance, PTL
        DEF Spec, FollowsProtocol, Protocol!ProtocolSafety

=============================================================================
