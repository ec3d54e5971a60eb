-------------------------- MODULE SessionStepsProofs --------------------------
(***************************************************************************)
(* Theorems about the steps of a session: which step an entry shows, where *)
(* its program is meanwhile, and who gets to see it.  The invariant is     *)
(* StepInv, inductive relative to IInv.                                    *)
(***************************************************************************)
EXTENDS SessionApiProofs

-----------------------------------------------------------------------------
(* What the engine hands back *)

LEMMA NoProgressIsNone == NoProgress \notin RunProgress
BY EngineAssumption DEF NoProgress, RunProgress, PauseKind

LEMMA FinishStepShape ==
    ASSUME NEW n \in Nat, NEW result \in FinishStep(n)
    PROVE  IsStep(result) /\ WellFormed(result) /\ result.seq = n
<1>1. CASE \E k \in Kinds :
             result = [status |-> "paused", seq |-> n, progress |-> [kind |-> k, seq |-> n]]
      BY <1>1 DEF IsStep, StepStatus, WellFormed, RunProgress
<1>2. CASE \E s \in {"completed", "failed"} :
             result = [status |-> s, seq |-> n, progress |-> NoProgress]
      BY <1>2 DEF IsStep, StepStatus, WellFormed
<1> QED BY <1>1, <1>2 DEF FinishStep

\* The first step of a program.
LEMMA CreateResults ==
    ASSUME NEW r \in CreateReqs, NEW result \in Results(r), IsStep(result)
    PROVE  WellFormed(result) /\ result.seq = 1
<1>1. result \in {Bare("panicked")} \cup StartSession
      BY Routes DEF Results
<1>2. result \in FinishStep(1)
      BY <1>1 DEF StartSession, Bare, IsStep, StepStatus
<1> QED BY <1>2, FinishStepShape

\* The step after the one that handed the progress back, or that progress.
LEMMA ResumeResults ==
    ASSUME NEW r \in ResumeReqs, exec[r].progress \in RunProgress, NEW result \in Results(r)
    PROVE  /\ IsStep(result) \/ result.status \in {"mismatch", "panicked"}
           /\ IsStep(result) => WellFormed(result) /\ result.seq = exec[r].progress.seq + 1
           /\ result.status = "mismatch" => result.progress = exec[r].progress
<1> DEFINE progress == exec[r].progress
           input == call[r].input
<1>1. result \in {Bare("panicked")} \cup ResumeSession(progress, input)
      BY Routes DEF Results
<1>2. CASE result = Bare("panicked")
      BY <1>2 DEF Bare, IsStep, StepStatus
<1>3. CASE result \in FinishStep(progress.seq + 1)
  <2>1. progress.seq + 1 \in Nat
        BY DEF RunProgress
  <2>2. IsStep(result) /\ WellFormed(result) /\ result.seq = progress.seq + 1
        BY <1>3, <2>1, FinishStepShape
  <2> QED BY <2>2 DEF IsStep, StepStatus
<1>4. CASE result = [status |-> "mismatch", seq |-> 0, progress |-> progress]
      BY <1>4 DEF IsStep, StepStatus
<1> QED BY <1>1, <1>2, <1>3, <1>4 DEF ResumeSession

-----------------------------------------------------------------------------
(* Which step changes an entry, and what becomes of it *)

\* acquire_for_resume succeeds.
TakeOff(r) ==
    /\ Acquire(r)
    /\ Idle(Session(r))
    /\ TakeProgress(Session(r))
    /\ Submit(r, entry[Session(r)].progress)
    /\ Goto(r, "awaiting")

LEMMA EntryMoves ==
    ASSUME TypeOK, NEW r \in Requests, HandlerStep(r), NEW id \in CreateReqs,
           entry'[id] # entry[id]
    PROVE  \/ InsertSession(r) /\ id = r
           \/ (TakeOff(r) \/ RecordStep(r) \/ RestoreProgress(r)) /\ id = Session(r)
<1>t. entry \in [CreateReqs -> SessionEntry]
      BY DEF TypeOK, StoreTypeOK
<1>1. InsertSession(r) \/ Acquire(r) \/ RecordStep(r) \/ RestoreProgress(r)
      BY DEF HandlerStep, Receiving, ReceiveCreate, ReceiveRun, ReceiveResume, ReceiveStatus,
             ReceiveDelete, RejectMalformed, Handling, WakePanicked, FinishRun, CompileFailed,
             CheckCapacity, FetchCreated, Render, DeleteSession, Unlist, Abandon, Executing,
             StartExecution, EndExecution, storeVars
<1>2. CASE InsertSession(r)
      BY <1>t, <1>2 DEF InsertSession, Insert
<1>3. CASE Acquire(r)
      BY <1>t, <1>3 DEF Acquire, TakeOff, TakeProgress, storeVars
<1>4. CASE RecordStep(r)
      BY <1>t, <1>4 DEF RecordStep, StoreStep
<1>5. CASE RestoreProgress(r)
      BY <1>t, <1>5 DEF RestoreProgress, Restore
<1> QED BY <1>1, <1>2, <1>3, <1>4, <1>5

LEMMA InsertedEntry ==
    ASSUME TypeOK, NEW r \in CreateReqs, InsertSession(r)
    PROVE  /\ entry'[r].principal = call[r].caller
           /\ entry'[r].progress = exec[r].result.progress
           /\ (entry'[r].terminal <=> exec[r].result.status # "paused")
           /\ entry'[r].snapshot.status = exec[r].result.status
           /\ entry'[r].snapshot.seq = exec[r].result.seq
           /\ store' = store \cup {r}
BY DEF InsertSession, Insert, TypeOK, StoreTypeOK

LEMMA TakenEntry ==
    ASSUME TypeOK, NEW r \in Requests, TakeOff(r), Session(r) \in CreateReqs
    PROVE  entry'[Session(r)] = [entry[Session(r)] EXCEPT !.progress = NoProgress]
BY DEF TakeOff, TakeProgress, TypeOK, StoreTypeOK

LEMMA RecordedEntry ==
    ASSUME TypeOK, NEW r \in Requests, RecordStep(r), Session(r) \in CreateReqs
    PROVE  /\ entry'[Session(r)].principal = entry[Session(r)].principal
           /\ entry'[Session(r)].progress = exec[r].result.progress
           /\ (entry'[Session(r)].terminal <=> exec[r].result.status # "paused")
           /\ entry'[Session(r)].snapshot.status = exec[r].result.status
           /\ entry'[Session(r)].snapshot.seq = exec[r].result.seq
BY DEF RecordStep, StoreStep, TypeOK, StoreTypeOK, SessionEntry

LEMMA RestoredEntry ==
    ASSUME TypeOK, NEW r \in Requests, RestoreProgress(r), Session(r) \in CreateReqs
    PROVE  entry'[Session(r)] = [entry[Session(r)] EXCEPT !.progress = exec[r].result.progress]
BY DEF RestoreProgress, Restore, TypeOK, StoreTypeOK

\* Replacing the progress of an entry leaves its other fields alone.
LEMMA ProgressReplaced ==
    ASSUME NEW e \in SessionEntry, NEW progress
    PROVE  /\ [e EXCEPT !.progress = progress].progress = progress
           /\ [e EXCEPT !.progress = progress].principal = e.principal
           /\ [e EXCEPT !.progress = progress].terminal = e.terminal
           /\ [e EXCEPT !.progress = progress].snapshot = e.snapshot
BY DEF SessionEntry

LEMMA TakenFields ==
    ASSUME TypeOK, NEW r \in Requests, TakeOff(r), Session(r) \in CreateReqs
    PROVE  /\ entry'[Session(r)].progress = NoProgress
           /\ entry'[Session(r)].principal = entry[Session(r)].principal
           /\ entry'[Session(r)].terminal = entry[Session(r)].terminal
           /\ entry'[Session(r)].snapshot = entry[Session(r)].snapshot
<1>1. entry[Session(r)] \in SessionEntry
      BY DEF TypeOK, StoreTypeOK
<1>2. entry'[Session(r)] = [entry[Session(r)] EXCEPT !.progress = NoProgress]
      BY TakenEntry
<1> QED BY <1>1, <1>2, ProgressReplaced

LEMMA RestoredFields ==
    ASSUME TypeOK, NEW r \in Requests, RestoreProgress(r), Session(r) \in CreateReqs
    PROVE  /\ entry'[Session(r)].progress = exec[r].result.progress
           /\ entry'[Session(r)].principal = entry[Session(r)].principal
           /\ entry'[Session(r)].terminal = entry[Session(r)].terminal
           /\ entry'[Session(r)].snapshot = entry[Session(r)].snapshot
<1>1. entry[Session(r)] \in SessionEntry
      BY DEF TypeOK, StoreTypeOK
<1>2. entry'[Session(r)] = [entry[Session(r)] EXCEPT !.progress = exec[r].result.progress]
      BY RestoredEntry
<1> QED BY <1>1, <1>2, ProgressReplaced

\* The resume that comes back with a result: what it and its session are then.
LEMMA ComesBack ==
    ASSUME IInv, StepInv, NEW r \in Requests,
           RecordStep(r) \/ RestoreProgress(r)
    PROVE  /\ r \in ResumeReqs /\ pc[r] = "awaiting" /\ exec[r].phase = "finished"
           /\ Session(r) \in CreateReqs /\ Session(r) # NoId
           /\ resp[Session(r)].code = 201 /\ pc[Session(r)] = "done"
           /\ entry[Session(r)] # Unborn
           /\ InFlight(Session(r)) = {r}
           /\ Busy(Session(r)) /\ entry[Session(r)].snapshot.status = "paused"
           /\ call' = call
<1>1. r \in ResumeReqs /\ pc[r] = "awaiting" /\ exec[r].phase = "finished" /\ call' = call
      BY DEF IInv, RecordStep, RestoreProgress, Wake, HandlerInv
<1>2. Session(r) \in CreateReqs /\ Session(r) \in Requests /\ Session(r) # NoId
      BY <1>1, ApiAssumption DEF IInv, HandlerInv
<1>3. resp[Session(r)].code = 201 /\ pc[Session(r)] = "done"
      BY <1>1, <1>2 DEF IInv, HandlerInv
<1>4. entry[Session(r)] # Unborn
      BY <1>2, <1>3 DEF StepInv, EntryInv
<1>5. InFlight(Session(r)) = {r} /\ Busy(Session(r))
      BY <1>1, <1>2 DEF IInv, SingleFlight, InFlight
<1>6. entry[Session(r)].snapshot.status = "paused"
      BY <1>2, <1>4, <1>5 DEF Busy, StepInv, EntryInv, IInv, TypeOK, StoreTypeOK, SessionEntry,
                              Snapshot, StepStatus
<1> QED BY <1>1, <1>2, <1>3, <1>4, <1>5, <1>6

\* The same for one that sets out.
LEMMA SetsOut ==
    ASSUME IInv, StepInv, NEW r \in Requests, TakeOff(r)
    PROVE  /\ r \in ResumeReqs /\ pc[r] = "acquire" /\ exec[r].phase = "idle"
           /\ Session(r) \in CreateReqs /\ Session(r) # NoId
           /\ resp[Session(r)].code = 201 /\ pc[Session(r)] = "done"
           /\ entry[Session(r)] # Unborn
           /\ InFlight(Session(r)) = {}
           /\ Idle(Session(r)) /\ entry[Session(r)].snapshot.status = "paused"
           /\ entry[Session(r)].progress \in RunProgress
           /\ entry[Session(r)].progress.seq = entry[Session(r)].snapshot.seq
           /\ call' = call
<1>1. r \in ResumeReqs /\ pc[r] = "acquire" /\ exec[r].phase = "idle" /\ call' = call
      BY DEF IInv, TakeOff, Acquire, HandlerInv
<1>2. Session(r) \in CreateReqs /\ Session(r) \in Requests /\ Session(r) # NoId
      BY <1>1, ApiAssumption DEF IInv, HandlerInv
<1>3. resp[Session(r)].code = 201 /\ pc[Session(r)] = "done"
      BY <1>1, <1>2 DEF IInv, HandlerInv
<1>4. entry[Session(r)] # Unborn
      BY <1>2, <1>3 DEF StepInv, EntryInv
<1>5. Idle(Session(r)) /\ InFlight(Session(r)) = {}
      BY <1>2 DEF TakeOff, Idle, Busy, IInv, SingleFlight
<1>6. /\ entry[Session(r)].snapshot.status = "paused"
      /\ entry[Session(r)].progress.seq = entry[Session(r)].snapshot.seq
      BY <1>2, <1>5 DEF Idle, StepInv, EntryInv
<1>7. entry[Session(r)].progress \in RunProgress
      BY <1>2, <1>5 DEF Idle, IInv, TypeOK, StoreTypeOK, SessionEntry
<1> QED BY <1>1, <1>2, <1>3, <1>4, <1>5, <1>6, <1>7

\* A create goes through its insertion to its session, and does not come back.
LEMMA CreateMoves ==
    ASSUME TypeOK, NEW r \in CreateReqs, HandlerInv(r), HandlerStep(r)
    PROVE  /\ pc'[r] \in {"new", "awaiting", "insert"} => pc[r] \in {"new", "awaiting", "insert"}
           /\ pc'[r] \in {"fetch", "render"} \/ resp'[r].code = 201 =>
                 pc[r] \in {"fetch", "render"} \/ resp[r].code = 201 \/ InsertSession(r)
           /\ pc[r] = "insert" => InsertSession(r) \/ Executing(r)
<1>r. r \in Requests /\ r \notin RunReqs \cup ResumeReqs \cup StatusReqs \cup DeleteReqs
      BY Routes
<1>1. CASE ReceiveCreate(r)
      BY <1>r, <1>1, GotoLocal DEF ReceiveCreate, Receive
<1>2. CASE RejectMalformed(r)
      BY <1>r, <1>2, AnswerLocal DEF RejectMalformed, Receive
<1>3. CASE Executing(r)
      BY <1>3 DEF Executing, StartExecution, EndExecution, apiVars
<1>4. CASE Abandon(r)
      BY <1>r, <1>4, AnswerLocal DEF Abandon
<1>5. CASE WakePanicked(r) \/ FinishRun(r) \/ CompileFailed(r) \/ RestoreProgress(r)
      BY <1>r, <1>5, AnswerLocal DEF WakePanicked, FinishRun, CompileFailed, RestoreProgress, Wake
<1>6. CASE CheckCapacity(r)
      BY <1>r, <1>6, AnswerLocal, GotoLocal DEF CheckCapacity, Wake
<1>7. CASE InsertSession(r)
      BY <1>r, <1>7, GotoLocal DEF InsertSession
<1>8. CASE FetchCreated(r)
      BY <1>r, <1>8, AnswerLocal, GotoLocal DEF FetchCreated
<1>9. CASE Render(r)
      BY <1>r, <1>9, AnswerLocal, AnswerStepLocal DEF Render
<1>10. ~(\/ ReceiveRun(r) \/ ReceiveResume(r) \/ ReceiveStatus(r) \/ ReceiveDelete(r)
         \/ Acquire(r) \/ RecordStep(r))
      BY <1>r DEF ReceiveRun, ReceiveResume, ReceiveStatus, ReceiveDelete, Acquire, RecordStep,
                  HandlerInv
<1>11. CASE DeleteSession(r)
      BY <1>r, <1>11, AnswerLocal DEF DeleteSession
<1> QED BY <1>1, <1>2, <1>3, <1>4, <1>5, <1>6, <1>7, <1>8, <1>9, <1>10, <1>11
        DEF HandlerStep, Receiving, Handling

\* Whoever is handed out keeps its answer.
LEMMA HandedOutStays ==
    ASSUME IInv, NEW r \in Requests, HandlerStep(r), NEW id \in CreateReqs, resp[id].code = 201
    PROVE  resp'[id] = resp[id]
<1>1. id \in Requests /\ TypeOK /\ HandlerInv(r)
      BY ApiAssumption DEF IInv
<1> QED BY <1>1, AnswersStay

-----------------------------------------------------------------------------
(* StepInv is preserved: the entries *)

LEMMA EntryNext ==
    ASSUME IInv, StepInv, NEW r \in Requests, HandlerStep(r), NEW id \in CreateReqs
    PROVE  EntryInv(id)'
<1>t. TypeOK /\ HandlerInv(r) /\ id \in Requests /\ HandlerInv(id)
      BY Routes DEF IInv
<1>e. EntryInv(id) /\ CreateInv(id) /\ entry[id] \in SessionEntry
      BY <1>t DEF StepInv, TypeOK, StoreTypeOK
<1>u. Unborn.snapshot.status = "none" /\ Unborn.progress = NoProgress
      BY DEF Unborn
<1>1. CASE InsertSession(r) /\ id = r
  <2>1. pc[id] = "insert" /\ pc'[id] = "fetch" /\ IsStep(exec[id].result)
        BY <1>1, <1>t, GotoLocal DEF InsertSession, HandlerInv
  <2>2. WellFormed(exec[id].result)
        BY <1>e, <2>1 DEF CreateInv
  <2>3. /\ entry'[id].progress = exec[id].result.progress
        /\ (entry'[id].terminal <=> exec[id].result.status # "paused")
        /\ entry'[id].snapshot.status = exec[id].result.status
        /\ entry'[id].snapshot.seq = exec[id].result.seq
        BY <1>1, <1>t, InsertedEntry
  <2>4. entry'[id] # Unborn
        BY <1>u, <2>1, <2>3 DEF IsStep, StepStatus
  <2>5. entry'[id].terminal <=> entry'[id].snapshot.status \in {"completed", "failed"}
        BY <2>1, <2>3 DEF IsStep, StepStatus
  <2>6. entry'[id].progress # NoProgress =>
           /\ entry'[id].snapshot.status = "paused"
           /\ entry'[id].progress.seq = entry'[id].snapshot.seq
        BY <2>2, <2>3 DEF WellFormed
  <2>7. entry'[id].snapshot.status # "none"
        BY <2>1, <2>3 DEF IsStep, StepStatus
  <2> QED BY <2>1, <2>4, <2>5, <2>6, <2>7 DEF EntryInv
<1>2. CASE entry'[id] = entry[id]
  <2>1. pc'[id] \in {"new", "awaiting", "insert"} => entry[id] = Unborn
    <3>1. CASE id = r
          BY <1>t, <1>e, <3>1, CreateMoves DEF EntryInv
    <3>2. CASE id # r
          BY <1>t, <1>e, <3>2, StepIsLocal DEF OthersUntouched, EntryInv
    <3> QED BY <3>1, <3>2
  <2>2. ASSUME entry[id] = Unborn
        PROVE  id \notin store' /\ pc'[id] \notin {"fetch", "render"} /\ resp'[id].code # 201
    <3>1. id \notin store /\ pc[id] \notin {"fetch", "render"} /\ resp[id].code # 201
          BY <1>e, <2>2 DEF EntryInv
    <3>2. ~(InsertSession(r) /\ id = r)
      <4> SUFFICES ASSUME InsertSession(r), id = r PROVE FALSE
          OBVIOUS
      <4>1. IsStep(exec[id].result)
            BY <1>t DEF InsertSession, HandlerInv
      <4>2. entry'[id].snapshot.status = exec[id].result.status
            BY <1>t, InsertedEntry
      <4> QED BY <1>2, <1>u, <2>2, <4>1, <4>2 DEF IsStep, StepStatus
    <3>3. CASE id = r
      <4>1. pc'[id] \notin {"fetch", "render"} /\ resp'[id].code # 201
            BY <1>t, <3>1, <3>2, <3>3, CreateMoves
      <4>2. id \notin store'
        <5> SUFFICES ASSUME id \in store' PROVE FALSE
            OBVIOUS
        <5>1. pc[r] = "insert"
              BY <3>1, StoreGrows
        <5>2. Executing(r)
              BY <1>t, <3>2, <3>3, <5>1, CreateMoves
        <5> QED BY <3>1, <5>2 DEF Executing, StartExecution, EndExecution, storeVars
      <4> QED BY <4>1, <4>2
    <3>4. CASE id # r
      <4>1. pc'[id] = pc[id] /\ resp'[id] = resp[id]
            BY <1>t, <3>4, StepIsLocal DEF OthersUntouched
      <4>2. id \notin store'
            BY <3>1, <3>4, StoreGrows
      <4> QED BY <3>1, <4>1, <4>2
    <3> QED BY <3>3, <3>4
  <2> QED BY <1>2, <1>e, <2>1, <2>2 DEF EntryInv
<1>3. CASE (TakeOff(r) \/ RecordStep(r) \/ RestoreProgress(r)) /\ id = Session(r)
  <2>1. /\ r # id /\ resp[id].code = 201 /\ pc[id] = "done" /\ entry[id] # Unborn
        /\ entry[id].snapshot.status = "paused" /\ r \in ResumeReqs
        BY <1>3, ComesBack, SetsOut, Routes
  <2>2. pc'[id] = "done"
        BY <1>t, <2>1, StepIsLocal DEF OthersUntouched
  <2>3. CASE TakeOff(r)
    <3>1. entry'[id] = [entry[id] EXCEPT !.progress = NoProgress]
          BY <1>3, <1>t, <2>3, TakenEntry
    <3>2. /\ entry'[id].snapshot = entry[id].snapshot /\ entry'[id].terminal = entry[id].terminal
          /\ entry'[id].progress = NoProgress
          BY <1>e, <3>1 DEF SessionEntry
    <3>3. entry'[id] # Unborn
          BY <1>u, <2>1, <3>2
    <3> QED BY <1>e, <2>1, <2>2, <3>2, <3>3 DEF EntryInv
  <2>4. CASE RecordStep(r)
    <3>1. IsStep(exec[r].result) /\ pc[r] = "awaiting" /\ exec[r].phase = "finished"
          BY <2>4 DEF RecordStep, Wake, IsStep
    <3>2. WellFormed(exec[r].result)
          BY <2>1, <3>1 DEF StepInv, FlightInv
    <3>3. /\ entry'[id].progress = exec[r].result.progress
          /\ (entry'[id].terminal <=> exec[r].result.status # "paused")
          /\ entry'[id].snapshot.status = exec[r].result.status
          /\ entry'[id].snapshot.seq = exec[r].result.seq
          BY <1>3, <1>t, <2>4, RecordedEntry
    <3>4. entry'[id] # Unborn
          BY <1>u, <3>1, <3>3 DEF IsStep, StepStatus
    <3>5. entry'[id].terminal <=> entry'[id].snapshot.status \in {"completed", "failed"}
          BY <3>1, <3>3 DEF IsStep, StepStatus
    <3>6. entry'[id].progress # NoProgress =>
             /\ entry'[id].snapshot.status = "paused"
             /\ entry'[id].progress.seq = entry'[id].snapshot.seq
          BY <3>2, <3>3 DEF WellFormed
    <3>7. entry'[id].snapshot.status # "none"
          BY <3>1, <3>3 DEF IsStep, StepStatus
    <3> QED BY <2>2, <3>4, <3>5, <3>6, <3>7 DEF EntryInv
  <2>5. CASE RestoreProgress(r)
    <3>1. /\ exec[r].result.status = "mismatch" /\ pc[r] = "awaiting"
          /\ exec[r].phase = "finished"
          BY <2>5 DEF RestoreProgress, Wake
    <3>2. exec[r].result.progress.seq = entry[id].snapshot.seq
          BY <1>3, <2>1, <3>1 DEF StepInv, FlightInv
    <3>3. entry'[id] = [entry[id] EXCEPT !.progress = exec[r].result.progress]
          BY <1>3, <1>t, <2>5, RestoredEntry
    <3>4. /\ entry'[id].snapshot = entry[id].snapshot /\ entry'[id].terminal = entry[id].terminal
          /\ entry'[id].progress = exec[r].result.progress
          BY <1>e, <3>3 DEF SessionEntry
    <3>5. entry'[id] # Unborn
          BY <1>u, <2>1, <3>4
    <3> QED BY <1>e, <2>1, <2>2, <3>2, <3>4, <3>5 DEF EntryInv
  <2> QED BY <1>3, <2>3, <2>4, <2>5
<1> QED BY <1>t, <1>1, <1>2, <1>3, EntryMoves

LEMMA CreateNext ==
    ASSUME IInv, StepInv, NEW r \in Requests, HandlerStep(r), NEW q \in CreateReqs
    PROVE  CreateInv(q)'
<1>t. TypeOK /\ HandlerInv(r) /\ q \in Requests /\ CreateInv(q)
      BY Routes DEF IInv, StepInv
<1>1. CASE q # r
      BY <1>1, <1>t, StepIsLocal DEF OthersUntouched, CreateInv
<1>2. CASE q = r
  <2>0. ~IsStep(NoResult)
        BY DEF NoResult, Bare, IsStep, StepStatus
  <2>1. CASE ReceiveCreate(r)
        BY <1>2, <1>t, <2>0, <2>1, SubmitLocal DEF ReceiveCreate, CreateInv
  <2>2. CASE StartExecution(r)
    <3>1. exec'[r].result = exec[r].result /\ pc' = pc
          BY <1>t, <2>2 DEF StartExecution, Dispatch, TypeOK, ExecutorTypeOK, Execution, apiVars
    <3> QED BY <1>2, <1>t, <3>1 DEF CreateInv
  <2>3. CASE EndExecution(r)
    <3>1. PICK result \in Results(r) : Finish(r, result, pc[r] = "awaiting")
          BY <2>3 DEF EndExecution
    <3>2. exec'[r].result \in {result, NoResult}
          BY <1>t, <3>1 DEF Finish, Blank, TypeOK, ExecutorTypeOK
    <3> QED BY <1>2, <2>0, <3>2, CreateResults DEF CreateInv
  <2>4. CASE CheckCapacity(r)
    <3>1. pc[r] = "awaiting"
          BY <2>4 DEF CheckCapacity, Wake
    <3>2. CASE Answer(r, 503)
          BY <1>2, <1>t, <3>2, AnswerLocal DEF CreateInv
    <3>3. CASE UNCHANGED <<execVars, call>>
          BY <1>2, <1>t, <3>1, <3>3 DEF CreateInv, execVars
    <3> QED BY <2>4, <3>2, <3>3 DEF CheckCapacity
  <2>5. CASE pc'[r] \notin {"awaiting", "insert"}
        BY <1>2, <2>5 DEF CreateInv
  <2>6. ASSUME pc'[r] \in {"awaiting", "insert"}
        PROVE  ReceiveCreate(r) \/ StartExecution(r) \/ EndExecution(r) \/ CheckCapacity(r)
    <3>r. r \in CreateReqs /\ r \notin RunReqs \cup ResumeReqs \cup StatusReqs \cup DeleteReqs
          BY <1>2, Routes
    <3>1. ~(\/ WakePanicked(r) \/ FinishRun(r) \/ CompileFailed(r) \/ RestoreProgress(r)
            \/ Abandon(r) \/ DeleteSession(r) \/ RejectMalformed(r) \/ Render(r))
          BY <1>t, <2>6, AnswerLocal, AnswerStepLocal
          DEF WakePanicked, FinishRun, CompileFailed, RestoreProgress, Abandon, DeleteSession,
              RejectMalformed, Render
    <3>2. ~(\/ InsertSession(r) \/ FetchCreated(r))
          BY <1>t, <2>6, AnswerLocal, GotoLocal DEF InsertSession, FetchCreated
    <3>3. ~(\/ ReceiveRun(r) \/ ReceiveResume(r) \/ ReceiveStatus(r) \/ ReceiveDelete(r)
            \/ Acquire(r) \/ RecordStep(r))
          BY <1>t, <3>r DEF ReceiveRun, ReceiveResume, ReceiveStatus, ReceiveDelete, Acquire,
                            RecordStep, HandlerInv
    <3> QED BY <3>1, <3>2, <3>3 DEF HandlerStep, Receiving, Handling, Executing
  <2> QED BY <2>1, <2>2, <2>3, <2>4, <2>5, <2>6
<1> QED BY <1>1, <1>2

-----------------------------------------------------------------------------
(* StepInv is preserved: owners *)

\* An entry never changes hands.
LEMMA OwnerStays ==
    ASSUME IInv, StepInv, NEW r \in Requests, HandlerStep(r), NEW id \in CreateReqs,
           resp[id].code = 201
    PROVE  entry'[id].principal = entry[id].principal
<1>t. TypeOK /\ HandlerInv(r) /\ id \in Requests /\ HandlerInv(id)
      BY Routes DEF IInv
<1>e. entry[id] \in SessionEntry
      BY <1>t DEF TypeOK, StoreTypeOK
<1>1. ~(InsertSession(r) /\ id = r)
      BY <1>t DEF InsertSession, HandlerInv
<1>2. CASE TakeOff(r) /\ id = Session(r)
      BY <1>t, <1>2, TakenFields
<1>3. CASE RecordStep(r) /\ id = Session(r)
      BY <1>t, <1>3, RecordedEntry
<1>4. CASE RestoreProgress(r) /\ id = Session(r)
      BY <1>t, <1>4, RestoredFields
<1> QED BY <1>t, <1>1, <1>2, <1>3, <1>4, EntryMoves

\* After its arrival a request moves only until it is done; its execution
\* may go on.
LEMMA MovesOnce ==
    ASSUME IInv, NEW r \in Requests, HandlerStep(r), ~Receiving(r)
    PROVE  /\ call'[r] = call[r]
           /\ pc[r] \notin {"new", "done"} \/ (Executing(r) /\ pc' = pc /\ resp' = resp)
<1>t. TypeOK /\ HandlerInv(r)
      BY DEF IInv
<1>1. pc[r] \notin {"new", "done"} \/ (Executing(r) /\ pc' = pc /\ resp' = resp)
      BY DEF HandlerStep, Handling, WakePanicked, FinishRun, CompileFailed, CheckCapacity,
             InsertSession, FetchCreated, Acquire, RecordStep, RestoreProgress, Render,
             DeleteSession, Wake, Abandon, Executing, StartExecution, EndExecution, apiVars
<1>2. call'[r] = call[r]
      BY DEF HandlerStep, Handling, WakePanicked, FinishRun, CompileFailed, CheckCapacity,
             InsertSession, FetchCreated, Acquire, RecordStep, RestoreProgress, Render,
             DeleteSession, Wake, Abandon, Executing, StartExecution, EndExecution, apiVars
<1> QED BY <1>1, <1>2

LEMMA OwnerNext ==
    ASSUME IInv, StepInv, NEW r \in Requests, HandlerStep(r),
           NEW q \in ResumeReqs \cup StatusReqs \cup DeleteReqs
    PROVE  OwnerInv(q)'
<1>t. TypeOK /\ HandlerInv(r) /\ q \in Requests
      BY Routes DEF IInv
<1>o. OwnerInv(q)
      BY DEF StepInv
<1>c. Session(q) # NoId => Session(q) \in CreateReqs
      BY <1>t DEF Session, TypeOK, Call
<1>k. ASSUME Session(q) # NoId
      PROVE  /\ resp'[Session(q)].code = 201
             /\ entry'[Session(q)].principal = entry[Session(q)].principal
      BY <1>k, <1>o, <1>c, HandedOutStays, OwnerStays DEF OwnerInv
<1>1. CASE q # r
      BY <1>1, <1>t, <1>o, <1>k, StepIsLocal DEF OthersUntouched, OwnerInv, Session
<1>2. CASE q = r /\ ~Receiving(r)
      BY <1>2, <1>o, <1>k, MovesOnce DEF OwnerInv, Session
<1>3. CASE q = r /\ Receiving(r)
  <2>1. CASE RejectMalformed(r)
        BY <1>3, <1>t, <2>1, ReceiveLocal DEF RejectMalformed, CallOf, OwnerInv, Session
  <2>2. CASE ReceiveResume(r) \/ ReceiveStatus(r) \/ ReceiveDelete(r)
    <3>1. PICK p, id, input, label :
             id \in KnownIds /\ Receive(r, CallOf(p, id, 0, input)) /\ Fetch(r, id, p, label)
          BY <2>2 DEF ReceiveResume, ReceiveStatus, ReceiveDelete
    <3>2. call'[r].id = id /\ call'[r].caller = p
          BY <1>t, <3>1, ReceiveLocal DEF CallOf
    <3>3. id \in CreateReqs /\ resp'[id].code = 201
          BY <3>1, HandedOutStays DEF KnownIds
    <3>4. (pc'[r] = "done" /\ resp'[r].code = 404) \/ entry[id].principal = p
          BY <1>t, <3>1, AnswerLocal DEF Fetch, Visible
    <3>5. entry' = entry
          BY <2>2 DEF ReceiveResume, ReceiveStatus, ReceiveDelete, storeVars
    <3> QED BY <1>3, <3>2, <3>3, <3>4, <3>5 DEF OwnerInv, Session
  <2>3. ~(ReceiveCreate(r) \/ ReceiveRun(r))
        BY <1>3, Routes DEF ReceiveCreate, ReceiveRun
  <2> QED BY <1>3, <2>1, <2>2, <2>3 DEF Receiving
<1> QED BY <1>1, <1>2, <1>3

-----------------------------------------------------------------------------
(* StepInv is preserved: resumes in flight *)

\* An entry shows a new step only when a first one is inserted, or when the
\* next one is recorded by the resume in flight.
LEMMA SnapshotMoves ==
    ASSUME IInv, StepInv, NEW r \in Requests, HandlerStep(r), NEW id \in CreateReqs,
           entry'[id].snapshot # entry[id].snapshot
    PROVE  /\ \/ InsertSession(r) /\ id = r /\ entry[id] = Unborn
              \/ RecordStep(r) /\ id = Session(r)
           /\ ~entry[id].terminal
           /\ entry[id].snapshot.seq \in Nat
           /\ entry'[id].snapshot.seq = entry[id].snapshot.seq + 1
<1>t. TypeOK /\ HandlerInv(r) /\ id \in Requests /\ EntryInv(id) /\ CreateInv(id)
      BY Routes DEF IInv, StepInv
<1>e. entry[id] \in SessionEntry /\ entry[id].snapshot.seq \in Nat
      BY <1>t DEF TypeOK, StoreTypeOK, SessionEntry, Snapshot
<1>1. CASE InsertSession(r) /\ id = r
  <2>1. pc[id] = "insert" /\ IsStep(exec[id].result)
        BY <1>1, <1>t DEF InsertSession, HandlerInv
  <2>2. entry[id] = Unborn /\ exec[id].result.seq = 1
        BY <1>t, <2>1 DEF EntryInv, CreateInv
  <2>3. entry'[id].snapshot.seq = exec[id].result.seq
        BY <1>1, <1>t, InsertedEntry
  <2> QED BY <1>1, <1>e, <2>2, <2>3 DEF Unborn
<1>2. CASE TakeOff(r) /\ id = Session(r)
      BY <1>t, <1>2, TakenFields
<1>3. CASE RecordStep(r) /\ id = Session(r)
  <2>1. r \in ResumeReqs /\ pc[r] = "awaiting" /\ exec[r].phase = "finished" /\ Busy(id)
        BY <1>3, ComesBack
  <2>2. IsStep(exec[r].result)
        BY <1>3 DEF RecordStep, Wake, IsStep
  <2>3. exec[r].result.seq = entry[id].snapshot.seq + 1
        BY <1>3, <2>1, <2>2 DEF StepInv, FlightInv
  <2>4. entry'[id].snapshot.seq = exec[r].result.seq
        BY <1>3, <1>t, RecordedEntry
  <2> QED BY <1>3, <1>e, <2>1, <2>3, <2>4 DEF Busy
<1>4. CASE RestoreProgress(r) /\ id = Session(r)
      BY <1>t, <1>4, RestoredFields
<1> QED BY <1>t, <1>1, <1>2, <1>3, <1>4, EntryMoves

LEMMA TakeResultKeeps ==
    ASSUME TypeOK, NEW r \in Requests, TakeResult(r)
    PROVE  exec'[r].phase = exec[r].phase /\ exec'[r].result.seq = exec[r].result.seq
BY DEF TypeOK, ExecutorTypeOK, Execution, Result, TakeResult

\* The resumes that stand still while another handler moves.
LEMMA OthersFly ==
    ASSUME IInv, StepInv, NEW r \in Requests, HandlerStep(r), NEW q \in ResumeReqs, q # r
    PROVE  FlightInv(q)'
<1>t. TypeOK /\ q \in Requests /\ HandlerInv(q) /\ FlightInv(q)
      BY Routes DEF IInv, StepInv
<1>q. pc'[q] = pc[q] /\ call'[q] = call[q] /\ exec'[q] = exec[q] /\ resp'[q] = resp[q]
      BY <1>t, StepIsLocal DEF OthersUntouched
<1>s. /\ Session(q)' = Session(q)
      /\ (pc[q] = "render" \/ resp[q].code = 200 => exec[q].phase = "finished")'
      BY <1>t, <1>q DEF FlightInv, Session
<1>r. exec[q].result.seq \in Nat
      BY <1>t DEF TypeOK, ExecutorTypeOK, Execution, Result
<1>1. CASE Session(q) \notin CreateReqs
  <2>1. exec[q].phase = "idle"
        BY <1>t, <1>1 DEF HandlerInv, TypeOK, ExecutorTypeOK, Execution, Phase
  <2> QED BY <1>t, <1>q, <1>s, <2>1 DEF FlightInv
<1>2. CASE Session(q) \in CreateReqs /\ entry'[Session(q)].snapshot = entry[Session(q)].snapshot
      BY <1>t, <1>q, <1>s, <1>2 DEF FlightInv
<1>3. CASE Session(q) \in CreateReqs /\ entry'[Session(q)].snapshot # entry[Session(q)].snapshot
  <2>1. resp[Session(q)].code = 201 /\ HandlerInv(Session(q))
        BY <1>t, <1>3, Routes DEF IInv, HandlerInv
  <2>2. ~(InsertSession(r) /\ Session(q) = r)
        BY <2>1 DEF InsertSession, HandlerInv
  <2>3. /\ RecordStep(r) /\ Session(q) = Session(r)
        /\ entry[Session(q)].snapshot.seq \in Nat
        /\ entry'[Session(q)].snapshot.seq = entry[Session(q)].snapshot.seq + 1
        BY <1>3, <2>2, SnapshotMoves
  <2>4. q \notin InFlight(Session(q))
        BY <2>3, ComesBack
  <2>5. ~Flies(q)
        BY <2>4 DEF InFlight, Flies
  <2> QED BY <1>t, <1>q, <1>r, <1>s, <2>3, <2>5 DEF FlightInv, Flies
<1> QED BY <1>1, <1>2, <1>3

\* The resume that moves.
LEMMA OwnFlight ==
    ASSUME IInv, StepInv, NEW r \in ResumeReqs, HandlerStep(r)
    PROVE  FlightInv(r)'
<1>t. TypeOK /\ r \in Requests /\ HandlerInv(r) /\ FlightInv(r)
      BY Routes DEF IInv, StepInv
<1>r. r \notin CreateReqs \cup RunReqs \cup StatusReqs \cup DeleteReqs
      BY Routes
\* A request at rest.
<1>0. ASSUME exec'[r].phase = "idle", pc'[r] # "render", resp'[r].code # 200
      PROVE  FlightInv(r)'
      BY <1>0 DEF FlightInv
<1>1. CASE ReceiveResume(r) \/ RejectMalformed(r)
  <2>1. exec'[r].phase = "idle"
        BY <1>t, <1>1 DEF ReceiveResume, RejectMalformed, Receive, execVars, HandlerInv
  <2>2. pc'[r] # "render" /\ resp'[r].code # 200
    <3>1. CASE RejectMalformed(r)
          BY <1>t, <3>1, AnswerLocal DEF RejectMalformed
    <3>2. CASE ReceiveResume(r)
      <4>1. PICK p \in Principals, id \in KnownIds : Fetch(r, id, p, "acquire")
            BY <3>2 DEF ReceiveResume
      <4>2. resp[r].code = 0
            BY <1>t, <3>2 DEF ReceiveResume, Receive, HandlerInv
      <4> QED BY <1>t, <4>1, <4>2, FetchLocal
    <3> QED BY <1>1, <3>1, <3>2
  <2> QED BY <1>0, <2>1, <2>2
<1>2. CASE StartExecution(r)
  <2>1. /\ exec[r].phase = "queued" /\ exec'[r].phase = "running"
        /\ exec'[r].progress = exec[r].progress
        BY <1>t, <1>2 DEF StartExecution, Dispatch, TypeOK, ExecutorTypeOK, Execution
  <2>2. pc' = pc /\ call' = call /\ resp' = resp /\ entry' = entry
        BY <1>2 DEF StartExecution, apiVars, storeVars
  <2> QED BY <1>t, <2>1, <2>2 DEF FlightInv, Session
<1>3. CASE EndExecution(r)
  <2>1. PICK result \in Results(r) : Finish(r, result, pc[r] = "awaiting")
        BY <1>3 DEF EndExecution
  <2>2. pc' = pc /\ call' = call /\ resp' = resp /\ entry' = entry
        BY <1>3 DEF EndExecution, apiVars, storeVars
  <2>3. /\ exec[r].phase = "running" /\ exec[r].progress \in RunProgress
        /\ exec[r].progress.seq = entry[Session(r)].snapshot.seq
        BY <1>t, <2>1 DEF Finish, FlightInv
  <2>4. CASE pc[r] = "awaiting"
    <3>1. exec'[r].phase = "finished" /\ exec'[r].result = result
          BY <1>t, <2>1, <2>4 DEF Finish, Blank, TypeOK, ExecutorTypeOK
    <3>2. /\ IsStep(result) \/ result.status \in {"mismatch", "panicked"}
          /\ IsStep(result) =>
                WellFormed(result) /\ result.seq = entry[Session(r)].snapshot.seq + 1
          /\ result.status = "mismatch" =>
                /\ result.progress \in RunProgress
                /\ result.progress.seq = entry[Session(r)].snapshot.seq
          BY <2>3, ResumeResults
    <3>3. resp[r].code # 200
          BY <1>t, <2>3 DEF FlightInv
    <3> QED BY <2>2, <2>4, <3>1, <3>2, <3>3 DEF FlightInv, Session
  <2>5. CASE pc[r] # "awaiting"
    <3>1. exec'[r].phase = "detached"
          BY <1>t, <2>1, <2>5 DEF Finish, Blank, TypeOK, ExecutorTypeOK
    <3>2. pc[r] # "render" /\ resp[r].code # 200
          BY <1>t, <2>3 DEF FlightInv
    <3> QED BY <2>2, <3>1, <3>2 DEF FlightInv
  <2> QED BY <2>4, <2>5
<1>4. CASE Abandon(r)
  <2>1. pc'[r] = "done" /\ resp'[r].code = 408 /\ call' = call /\ entry' = entry
        BY <1>t, <1>4, AnswerLocal DEF Abandon, storeVars
  <2>2. \/ exec'[r] = exec[r] /\ exec[r].phase = "running"
        \/ exec'[r].phase \in {"idle", "detached"}
        BY <1>t, <1>4, DropHandlerLocal DEF Abandon, Blank
  <2> QED BY <1>t, <2>1, <2>2 DEF FlightInv, Session
<1>5. CASE WakePanicked(r) \/ RestoreProgress(r)
  <2>1. pc'[r] = "done" /\ resp'[r].code # 200
        BY <1>t, <1>5, AnswerLocal DEF WakePanicked, RestoreProgress
  <2>2. exec'[r].phase = "finished"
        BY <1>t, <1>5, TakeResultLocal DEF WakePanicked, RestoreProgress, Wake
  <2> QED BY <2>1, <2>2 DEF FlightInv
<1>6. CASE RecordStep(r)
  <2>1. /\ pc'[r] = "render" /\ resp' = resp /\ call' = call
        /\ exec[r].phase = "finished" /\ pc[r] = "awaiting"
        BY <1>t, <1>6, GotoLocal DEF RecordStep, Wake
  <2>2. exec'[r].phase = "finished" /\ exec'[r].result.seq = exec[r].result.seq
        BY <1>t, <1>6, <2>1, TakeResultKeeps DEF RecordStep, Wake
  <2>3. entry'[Session(r)].snapshot.seq = exec[r].result.seq
    <3>1. Session(r) \in CreateReqs
          BY <1>t, <1>6, ComesBack
    <3> QED BY <1>t, <1>6, <3>1, RecordedEntry
  <2>4. exec[r].result.seq \in Nat /\ resp[r].code = 0
        BY <1>t, <2>1 DEF TypeOK, ExecutorTypeOK, Execution, Result, HandlerInv
  <2> QED BY <2>1, <2>2, <2>3, <2>4 DEF FlightInv, Session
<1>7. CASE Acquire(r)
  <2>0. pc[r] = "acquire" /\ exec[r].phase = "idle" /\ resp[r].code = 0 /\ call' = call
        BY <1>t, <1>7 DEF Acquire, HandlerInv
  <2>1. CASE UNCHANGED <<storeVars, execVars>> /\ (Answer(r, 400) \/ Answer(r, 409))
    <3>1. exec'[r].phase = "idle"
          BY <2>0, <2>1 DEF execVars
    <3>2. pc'[r] # "render" /\ resp'[r].code # 200
          BY <1>t, <2>1, AnswerLocal
    <3> QED BY <1>0, <3>1, <3>2
  <2>2. CASE TakeOff(r)
    <3>1. pc'[r] = "awaiting" /\ resp' = resp
          BY <1>t, <2>2, GotoLocal DEF TakeOff
    <3>2. exec'[r].phase = "queued" /\ exec'[r].progress = entry[Session(r)].progress
          BY <1>t, <2>2, SubmitLocal DEF TakeOff
    <3>3. /\ Session(r) \in CreateReqs
          /\ entry[Session(r)].progress \in RunProgress
          /\ entry[Session(r)].progress.seq = entry[Session(r)].snapshot.seq
          BY <1>t, <2>2, SetsOut
    <3>4. entry'[Session(r)].snapshot = entry[Session(r)].snapshot
          BY <1>t, <2>2, <3>3, TakenFields
    <3> QED BY <2>0, <3>1, <3>2, <3>3, <3>4 DEF FlightInv, Session
  <2> QED BY <1>7, <2>1, <2>2 DEF Acquire, TakeOff
<1>8. CASE Render(r)
  <2>1. pc[r] = "render" /\ exec' = exec /\ pc'[r] = "done" /\ entry' = entry /\ call' = call
        BY <1>t, <1>8, AnswerLocal, AnswerStepLocal DEF Render, execVars, storeVars
  <2>2. exec[r].phase = "finished" /\ exec[r].result.seq <= entry[Session(r)].snapshot.seq
        BY <1>t, <2>1 DEF FlightInv
  <2>3. \/ resp'[r].code = 500
        \/ resp'[r].seq = entry[Session(r)].snapshot.seq
        BY <1>t, <1>8, AnswerLocal DEF Render, AnswerStep, TypeOK
  <2> QED BY <2>1, <2>2, <2>3 DEF FlightInv
<1>9. CASE DeleteSession(r)
  <2>1. exec' = exec /\ pc'[r] = "done" /\ resp'[r].code \in {204, 404}
        BY <1>t, <1>9, AnswerLocal DEF DeleteSession, execVars
  <2>2. exec[r].phase \notin {"queued", "running"}
        BY <1>t, <1>9 DEF DeleteSession, FlightInv, HandlerInv
  <2> QED BY <2>1, <2>2 DEF FlightInv
<1>10. ~(\/ ReceiveCreate(r) \/ ReceiveRun(r) \/ ReceiveStatus(r) \/ ReceiveDelete(r)
         \/ CheckCapacity(r) \/ InsertSession(r) \/ FetchCreated(r))
      BY <1>r, <1>t DEF ReceiveCreate, ReceiveRun, ReceiveStatus, ReceiveDelete, CheckCapacity,
                        InsertSession, FetchCreated, HandlerInv
<1>11. ~(FinishRun(r) \/ CompileFailed(r))
      BY <1>t DEF FinishRun, CompileFailed, Wake, FlightInv, IsStep, StepStatus
<1> QED BY <1>1, <1>2, <1>3, <1>4, <1>5, <1>6, <1>7, <1>8, <1>9, <1>10, <1>11
        DEF HandlerStep, Receiving, Handling, Executing

-----------------------------------------------------------------------------
(* StepInv is preserved: lost programs *)

\* A resume that lost the program of a session.
Culprit(r, id) ==
    /\ Session(r) = id
    /\ resp[r].code = 408 \/ exec[r].result.status = "panicked"

LEMMA CulpritStays ==
    ASSUME IInv, NEW r \in Requests, HandlerStep(r), NEW q \in ResumeReqs, NEW id,
           Culprit(q, id)
    PROVE  Culprit(q, id)'
<1>t. TypeOK /\ q \in Requests /\ HandlerInv(q) /\ HandlerInv(r)
      BY Routes DEF IInv
<1>1. pc[q] # "new" /\ (resp[q].code = 408 \/ exec[q].phase = "finished")
      BY <1>t DEF Culprit, HandlerInv, NoResult, Bare
<1>2. Session(q)' = Session(q)
      BY <1>t, <1>1, CallStays DEF Session
<1>3. CASE resp[q].code = 408
      BY <1>2, <1>3, <1>t, AnswersStay DEF Culprit
<1>4. CASE q # r
      BY <1>2, <1>4, <1>t, StepIsLocal DEF OthersUntouched, Culprit
<1>5. CASE q = r /\ exec[r].phase = "finished" /\ exec[r].result.status = "panicked"
  <2>1. ASSUME exec' = exec PROVE Culprit(q, id)'
        BY <1>2, <1>5, <2>1 DEF Culprit
  <2>2. ASSUME TakeResult(r) PROVE Culprit(q, id)'
        BY <1>t, <1>2, <1>5, <2>2, TakeResultLocal DEF Culprit
  <2>3. CASE Abandon(r)
        BY <1>t, <1>2, <1>5, <2>3, AnswerLocal DEF Abandon, Culprit
  <2>4. ~(Executing(r) \/ Receiving(r))
        BY <1>t, <1>1, <1>5 DEF Executing, StartExecution, EndExecution, Dispatch, Finish,
           Receiving, ReceiveCreate, ReceiveRun, ReceiveResume, ReceiveStatus, ReceiveDelete,
           RejectMalformed, Receive
  <2>5. CASE Acquire(r)
        BY <1>t, <1>5, <2>5 DEF Acquire, HandlerInv
  <2>6. CASE Handling(r) /\ ~Acquire(r)
        BY <2>1, <2>2, <2>6 DEF Handling, WakePanicked, FinishRun, CompileFailed, CheckCapacity,
           InsertSession, FetchCreated, RecordStep, RestoreProgress, Render, DeleteSession, Wake,
           execVars
  <2> QED BY <2>3, <2>4, <2>5, <2>6 DEF HandlerStep
<1> QED BY <1>1, <1>3, <1>4, <1>5 DEF Culprit

\* A resume ends its flight by handing something back, or by losing it.
LEMMA Lands ==
    ASSUME IInv, StepInv, NEW r \in ResumeReqs, HandlerStep(r), Flies(r), ~Flies(r)'
    PROVE  RecordStep(r) \/ RestoreProgress(r) \/ Culprit(r, Session(r))'
<1>t. TypeOK /\ r \in Requests /\ HandlerInv(r) /\ FlightInv(r)
      BY Routes DEF IInv, StepInv
<1>r. r \notin CreateReqs \cup RunReqs \cup StatusReqs \cup DeleteReqs
      BY Routes
<1>f. pc[r] = "awaiting" \/ (exec[r].phase \in {"queued", "running"} /\ resp[r].code = 408)
      BY <1>t DEF Flies, FlightInv
<1>d. pc[r] = "awaiting" \/ pc[r] = "done"
      BY <1>t, <1>f DEF HandlerInv
<1>c. call'[r] = call[r]
      BY <1>t, <1>d, CallStays
<1>1. CASE StartExecution(r)
      BY <1>t, <1>1 DEF StartExecution, Dispatch, Flies, TypeOK, ExecutorTypeOK, Execution
<1>2. CASE EndExecution(r)
  <2>1. PICK result \in Results(r) : Finish(r, result, pc[r] = "awaiting")
        BY <1>2 DEF EndExecution
  <2>2. pc' = pc /\ call' = call /\ resp' = resp
        BY <1>2 DEF EndExecution, apiVars
  <2>3. pc[r] # "awaiting"
    <3> SUFFICES ASSUME pc[r] = "awaiting" PROVE FALSE
        OBVIOUS
    <3>1. exec'[r].phase = "finished"
          BY <1>t, <2>1 DEF Finish, Blank, TypeOK, ExecutorTypeOK
    <3> QED BY <2>2, <3>1 DEF Flies
  <2> QED BY <1>f, <2>2, <2>3 DEF Culprit, Session
<1>3. CASE Abandon(r)
      BY <1>t, <1>c, <1>3, AnswerLocal DEF Abandon, Culprit, Session
<1>4. CASE WakePanicked(r)
  <2>1. exec'[r].result.status = "panicked"
        BY <1>t, <1>4, TakeResultLocal DEF WakePanicked, Wake
  <2> QED BY <1>c, <2>1 DEF Culprit, Session
<1>5. ~(FinishRun(r) \/ CompileFailed(r))
      BY <1>t DEF FinishRun, CompileFailed, Wake, FlightInv, IsStep, StepStatus
<1>6. ~(\/ Receiving(r) \/ CheckCapacity(r) \/ InsertSession(r) \/ FetchCreated(r)
        \/ Acquire(r) \/ Render(r) \/ DeleteSession(r))
      BY <1>d, <1>r DEF Receiving, ReceiveCreate, ReceiveRun, ReceiveResume, ReceiveStatus,
         ReceiveDelete, RejectMalformed, Receive, CheckCapacity, InsertSession, FetchCreated,
         Acquire, Render, DeleteSession
<1> QED BY <1>1, <1>2, <1>3, <1>4, <1>5, <1>6 DEF HandlerStep, Handling, Executing

\* What is handed back, or taken off with, leaves no one stranded.
LEMMA LossNext ==
    ASSUME IInv, StepInv, NEW r \in Requests, HandlerStep(r), NEW id \in CreateReqs
    PROVE  LossInv(id)'
<1>t. TypeOK /\ HandlerInv(r) /\ id \in Requests
      BY Routes DEF IInv
<1>i. EntryInv(id) /\ CreateInv(id) /\ LossInv(id)
      BY DEF StepInv
<1> SUFFICES ASSUME entry'[id] # Unborn, Busy(id)', InFlight(id)' = {}
             PROVE  \E q \in ResumeReqs : Culprit(q, id)'
    BY DEF LossInv, Culprit
<1>1. ASSUME WellFormed(exec[r].result), IsStep(exec[r].result),
             entry'[id].progress = exec[r].result.progress,
             entry'[id].terminal <=> exec[r].result.status # "paused"
      PROVE  FALSE
      BY <1>1, NoProgressIsNone DEF WellFormed, Busy
<1>2. CASE InsertSession(r) /\ id = r
  <2>1. pc[r] = "insert" /\ IsStep(exec[r].result)
        BY <1>t, <1>2 DEF InsertSession, HandlerInv
  <2>2. WellFormed(exec[r].result)
        BY <1>i, <1>2, <2>1 DEF CreateInv
  <2> QED BY <1>t, <1>1, <1>2, <2>1, <2>2, InsertedEntry
<1>3. CASE TakeOff(r) /\ id = Session(r)
  <2>1. r \in ResumeReqs /\ call' = call
        BY <1>3, <1>t, SetsOut
  <2>2. exec'[r].phase = "queued"
        BY <1>3, <1>t, SubmitLocal DEF TakeOff
  <2>3. r \in InFlight(id)'
        BY <1>3, <2>1, <2>2 DEF InFlight, Session
  <2> QED BY <2>3
<1>4. CASE RecordStep(r) /\ id = Session(r)
  <2>1. r \in ResumeReqs /\ pc[r] = "awaiting" /\ exec[r].phase = "finished"
        BY <1>4, ComesBack
  <2>2. IsStep(exec[r].result)
        BY <1>4 DEF RecordStep, Wake, IsStep
  <2>3. WellFormed(exec[r].result)
        BY <2>1, <2>2 DEF StepInv, FlightInv
  <2> QED BY <1>t, <1>1, <1>4, <2>2, <2>3, RecordedEntry
<1>5. CASE RestoreProgress(r) /\ id = Session(r)
  <2>1. r \in ResumeReqs /\ pc[r] = "awaiting" /\ exec[r].phase = "finished"
        BY <1>5, ComesBack
  <2>2. exec[r].result.progress \in RunProgress
        BY <1>5, <2>1 DEF RestoreProgress, Wake, StepInv, FlightInv
  <2>3. entry'[id].progress = exec[r].result.progress
        BY <1>t, <1>5, RestoredFields
  <2> QED BY <2>2, <2>3, NoProgressIsNone DEF Busy
<1>6. CASE entry'[id] = entry[id] /\ ~((RecordStep(r) \/ RestoreProgress(r)) /\ id = Session(r))
  <2>1. Busy(id)
        BY <1>6 DEF Busy
  <2>2. CASE entry[id] # Unborn /\ InFlight(id) = {}
    <3>1. PICK q \in ResumeReqs : Culprit(q, id)
          BY <1>i, <2>1, <2>2 DEF LossInv, Culprit
    <3> QED BY <3>1, CulpritStays
  <2>3. CASE InFlight(id) # {}
    <3>1. PICK q \in ResumeReqs : Session(q) = id /\ Flies(q)
          BY <2>3 DEF InFlight, Flies
    <3>2. q \in Requests /\ HandlerInv(q)
          BY Routes DEF IInv
    <3>3. pc[q] # "new"
          BY <3>1, <3>2 DEF HandlerInv, Flies
    <3>4. Session(q)' = id
          BY <1>t, <3>1, <3>2, <3>3, CallStays DEF Session
    <3>5. ~Flies(q)'
          BY <3>1, <3>4 DEF InFlight, Flies
    <3>6. q = r
          BY <1>t, <3>1, <3>2, <3>5, StepIsLocal DEF OthersUntouched, Flies
    <3> QED BY <1>6, <3>1, <3>4, <3>5, <3>6, Lands
  <2> QED BY <1>6, <2>2, <2>3
<1> QED BY <1>t, <1>2, <1>3, <1>4, <1>5, <1>6, EntryMoves

-----------------------------------------------------------------------------
(* StepInv is inductive *)

LEMMA StepInit == Init => StepInv
<1> SUFFICES ASSUME Init PROVE StepInv
    OBVIOUS
<1>1. /\ \A r \in Requests : /\ pc[r] = "new" /\ Session(r) = NoId /\ resp[r].code = 0
                             /\ exec[r].phase = "idle"
      /\ \A id \in CreateReqs : entry[id] = Unborn
      /\ store = {}
      BY ApiAssumption DEF Init, StoreInit, ExecutorInit, Blank, NoCall, CallOf, NoResponse, Session
<1>2. ASSUME NEW id \in CreateReqs PROVE EntryInv(id) /\ CreateInv(id) /\ LossInv(id)
  <2>1. pc[id] = "new" /\ resp[id].code = 0 /\ entry[id] = Unborn
        BY <1>1, Routes
  <2> QED BY <1>1, <2>1 DEF EntryInv, CreateInv, LossInv, Unborn
<1>3. ASSUME NEW r \in ResumeReqs PROVE FlightInv(r)
      BY <1>1, Routes DEF FlightInv
<1>4. ASSUME NEW r \in ResumeReqs \cup StatusReqs \cup DeleteReqs PROVE OwnerInv(r)
      BY <1>1, Routes DEF OwnerInv
<1> QED BY <1>2, <1>3, <1>4 DEF StepInv

\* The clock and the reaper touch neither entries nor handlers.
LEMMA ReaperSpares ==
    ASSUME Reaping \/ PassTime \/ UNCHANGED vars
    PROVE  /\ entry' = entry /\ store' \subseteq store
           /\ exec' = exec /\ pc' = pc /\ call' = call /\ resp' = resp
<1>1. CASE Reaping
      BY <1>1 DEF Reaping, ReaperWake, ReaperScanned, ReaperVisit, ReaperEvict, Unlist,
                  storeVars, execVars
<1>2. CASE PassTime
      BY <1>2 DEF PassTime, Tick, execVars, apiVars
<1>3. CASE UNCHANGED vars
      BY <1>3 DEF vars, storeVars, execVars, apiVars
<1> QED BY <1>1, <1>2, <1>3

LEMMA StepNext == IInv /\ StepInv /\ [Next]_vars => StepInv'
<1> SUFFICES ASSUME IInv, StepInv, [Next]_vars PROVE StepInv'
    OBVIOUS
<1>1. ASSUME NEW r \in Requests, HandlerStep(r) PROVE StepInv'
  <2>1. \A id \in CreateReqs : EntryInv(id)' /\ CreateInv(id)' /\ LossInv(id)'
        BY <1>1, EntryNext, CreateNext, LossNext
  <2>2. ASSUME NEW q \in ResumeReqs PROVE FlightInv(q)'
    <3>1. CASE q = r
          BY <1>1, <3>1, OwnFlight
    <3>2. CASE q # r
          BY <1>1, <3>2, OthersFly
    <3> QED BY <3>1, <3>2
  <2>3. \A q \in ResumeReqs \cup StatusReqs \cup DeleteReqs : OwnerInv(q)'
        BY <1>1, OwnerNext
  <2> QED BY <2>1, <2>2, <2>3 DEF StepInv
<1>2. CASE Reaping \/ PassTime \/ UNCHANGED vars
  <2>1. /\ entry' = entry /\ store' \subseteq store
        /\ exec' = exec /\ pc' = pc /\ call' = call /\ resp' = resp
        BY <1>2, ReaperSpares
  <2>2. ASSUME NEW id \in CreateReqs PROVE EntryInv(id)' /\ CreateInv(id)' /\ LossInv(id)'
    <3>1. EntryInv(id) /\ CreateInv(id) /\ LossInv(id)
          BY DEF StepInv
    <3>2. InFlight(id)' = InFlight(id)
          BY <2>1 DEF InFlight, Session
    <3> QED BY <2>1, <3>1, <3>2 DEF EntryInv, CreateInv, LossInv, Busy, Session
  <2>3. ASSUME NEW q \in ResumeReqs PROVE FlightInv(q)'
        BY <2>1 DEF StepInv, FlightInv, Session
  <2>4. ASSUME NEW q \in ResumeReqs \cup StatusReqs \cup DeleteReqs PROVE OwnerInv(q)'
        BY <2>1 DEF StepInv, OwnerInv, Session
  <2> QED BY <2>2, <2>3, <2>4 DEF StepInv
<1> QED BY <1>1, <1>2 DEF Next, HandlerStep

-----------------------------------------------------------------------------
(* A session until its creator is told of it *)

\* It is as it was inserted, and gone or about to go only if it has expired.
Created(c) ==
    /\ pc[c] \in {"fetch", "render"} =>
          Session(c) = c /\ entry[c].principal = call[c].caller /\ Renderable(c)
    /\ c \in reaper.doomed => entry[c] # Unborn
    /\ resp[c].code # 201 /\ entry[c] # Unborn /\ (c \notin store \/ c \in reaper.doomed) =>
          ExpiredAt(c, clock)
    /\ resp[c].code = 500 /\ entry[c] # Unborn => ExpiredAt(c, clock)

\* A delete is about to remove a session that its creator was told of.
KnownAtRemoval(r) ==
    pc[r] = "unlist" => Session(r) \in CreateReqs /\ resp[Session(r)].code = 201

CreationInv ==
    /\ reaper.now <= clock
    /\ \A c \in CreateReqs : Created(c)
    /\ \A r \in Requests : KnownAtRemoval(r)

LEMMA RemovalNext ==
    ASSUME IInv, CreationInv, NEW r \in Requests, HandlerStep(r), NEW q \in Requests
    PROVE  KnownAtRemoval(q)'
<1>t. TypeOK /\ KnownAtRemoval(q)
      BY DEF IInv, CreationInv
<1> SUFFICES ASSUME pc'[q] = "unlist"
             PROVE  Session(q)' \in CreateReqs /\ resp'[Session(q)'].code = 201
    BY DEF KnownAtRemoval, Session
<1>1. Session(q)' \in CreateReqs /\ resp[Session(q)'].code = 201
  <2>1. CASE q = r
        BY <1>t, <2>1, DeleteKnows DEF KnownAtRemoval, Session
  <2>2. CASE q # r
        BY <1>t, <2>2, StepIsLocal DEF OthersUntouched, KnownAtRemoval, Session
  <2> QED BY <2>1, <2>2
<1> QED BY <1>1, HandedOutStays

\* No handler touches an entry, or takes it off the map, between its insertion
\* and the answer of its creator.
LEMMA UntoldUntouched ==
    ASSUME IInv, StepInv, CreationInv, NEW r \in Requests, HandlerStep(r), NEW c \in CreateReqs,
           resp'[c].code # 201, ~(InsertSession(r) /\ c = r)
    PROVE  /\ resp[c].code # 201
           /\ entry'[c] = entry[c]
           /\ c \in store => c \in store'
<1>t. TypeOK /\ HandlerInv(r)
      BY DEF IInv
<1>1. resp[c].code # 201
      BY HandedOutStays
<1>2. ASSUME r \in ResumeReqs PROVE c # Session(r)
      BY <1>1, <1>2, ApiAssumption DEF StepInv, OwnerInv
<1>3. entry'[c] = entry[c]
  <2>1. r \in ResumeReqs \/ ~(TakeOff(r) \/ RecordStep(r) \/ RestoreProgress(r))
    <3>1. TakeOff(r) => r \in ResumeReqs
          BY <1>t DEF TakeOff, Acquire, HandlerInv
    <3>2. RestoreProgress(r) => r \in ResumeReqs
          BY <1>t DEF RestoreProgress, Wake, HandlerInv
    <3> QED BY <3>1, <3>2 DEF RecordStep
  <2> QED BY <1>t, <1>2, <2>1, EntryMoves
<1>4. c \in store => c \in store'
  <2>1. CASE DeleteSession(r)
    <3>1. Session(r) # c
          BY <1>1, <2>1 DEF DeleteSession, CreationInv, KnownAtRemoval
    <3> QED BY <2>1, <3>1 DEF DeleteSession, Unlist
  <2>2. CASE ~DeleteSession(r)
        BY <2>2 DEF HandlerStep, Receiving, ReceiveCreate, ReceiveRun, ReceiveResume, ReceiveStatus,
           ReceiveDelete, RejectMalformed, Handling, WakePanicked, FinishRun, CompileFailed,
           CheckCapacity, InsertSession, FetchCreated, Acquire, RecordStep, RestoreProgress,
           Render, Abandon, Executing, StartExecution, EndExecution, storeVars,
           Insert, TakeProgress, StoreStep, Restore
  <2> QED BY <2>1, <2>2
<1> QED BY <1>1, <1>3, <1>4

\* Handlers leave the clock and what the reaper has collected alone.
LEMMA HandlersSpare ==
    ASSUME TypeOK, NEW r \in Requests, HandlerStep(r)
    PROVE  clock' = clock /\ reaper'.now = reaper.now /\ reaper'.doomed = reaper.doomed
<1>1. clock' = clock
      BY DEF HandlerStep, Receiving, ReceiveCreate, ReceiveRun, ReceiveResume, ReceiveStatus,
         ReceiveDelete, RejectMalformed, Handling, WakePanicked, FinishRun, CompileFailed,
         CheckCapacity, InsertSession, FetchCreated, Acquire, RecordStep, RestoreProgress,
         Render, DeleteSession, Abandon, Executing, StartExecution, EndExecution, storeVars,
         Insert, TakeProgress, StoreStep, Restore, Unlist
<1>2. CASE InsertSession(r)
  <2>1. reaper \in Reaper
        BY DEF TypeOK
  <2>2. reaper' = reaper \/ reaper' = [reaper EXCEPT !.unseen = @ \cup {r}]
        BY <1>2 DEF InsertSession
  <2> QED BY <1>1, <2>1, <2>2 DEF Reaper
<1>3. CASE ~InsertSession(r)
  <2>1. reaper' = reaper
        BY <1>3 DEF HandlerStep, Receiving, ReceiveCreate, ReceiveRun, ReceiveResume,
           ReceiveStatus, ReceiveDelete, RejectMalformed, Handling, WakePanicked, FinishRun,
           CompileFailed, CheckCapacity, FetchCreated, Acquire, RecordStep, RestoreProgress,
           Render, DeleteSession, Abandon, Executing, StartExecution, EndExecution, apiVars
  <2> QED BY <1>1, <2>1
<1> QED BY <1>2, <1>3

\* A create that is answered 500 now was not inserted, or did not find its
\* session, or cannot show it.
LEMMA CreateFails ==
    ASSUME IInv, NEW r \in CreateReqs, HandlerStep(r), resp[r].code # 500, resp'[r].code = 500
    PROVE  /\ entry' = entry /\ store' = store
           /\ \/ pc[r] = "awaiting"
              \/ pc[r] = "fetch" /\ ~Visible(r, call[r].caller)
              \/ pc[r] = "render" /\ ~Renderable(Session(r))
<1>t. TypeOK /\ r \in Requests /\ HandlerInv(r)
      BY Routes DEF IInv
<1>1. ~(ReceiveCreate(r) \/ ReceiveRun(r) \/ RejectMalformed(r) \/ Executing(r) \/ Abandon(r))
      BY <1>t, AnswerLocal, GotoLocal DEF ReceiveCreate, ReceiveRun, RejectMalformed,
         Executing, StartExecution, EndExecution, apiVars, Abandon
<1>2. ~(ReceiveResume(r) \/ ReceiveStatus(r) \/ ReceiveDelete(r) \/ Acquire(r) \/ RecordStep(r))
      BY <1>t, Routes DEF ReceiveResume, ReceiveStatus, ReceiveDelete, Acquire, RecordStep, HandlerInv
<1>3. ~(\/ FinishRun(r) \/ CompileFailed(r) \/ CheckCapacity(r) \/ InsertSession(r)
        \/ RestoreProgress(r) \/ DeleteSession(r))
      BY <1>t, AnswerLocal, GotoLocal DEF FinishRun, CompileFailed, CheckCapacity,
         InsertSession, RestoreProgress, DeleteSession
<1>4. WakePanicked(r) \/ FetchCreated(r) \/ Render(r)
      BY <1>1, <1>2, <1>3 DEF HandlerStep, Receiving, Handling
<1>5. CASE WakePanicked(r)
      BY <1>5 DEF WakePanicked, Wake, storeVars
<1>6. CASE FetchCreated(r)
      BY <1>6, GotoLocal, <1>t DEF FetchCreated, storeVars
<1>7. CASE Render(r)
      BY <1>t, <1>7, AnswerStepLocal DEF Render, storeVars
<1> QED BY <1>4, <1>5, <1>6, <1>7

\* What was inserted stays inserted.
LEMMA BirthLasts ==
    ASSUME IInv, StepInv, NEW r \in Requests, HandlerStep(r), NEW c \in CreateReqs,
           entry[c] # Unborn
    PROVE  entry'[c] # Unborn
<1>t. TypeOK /\ HandlerInv(r) /\ EntryInv(c)
      BY DEF IInv, StepInv
<1>1. EntryInv(c)'
      BY EntryNext
<1>2. CASE entry'[c].snapshot = entry[c].snapshot
      BY <1>t, <1>1, <1>2 DEF EntryInv
<1>3. CASE entry'[c].snapshot # entry[c].snapshot
      BY <1>3, SnapshotMoves DEF Unborn
<1> QED BY <1>2, <1>3

LEMMA CreatedNext ==
    ASSUME IInv, StepInv, CreationInv, NEW r \in Requests, HandlerStep(r), NEW c \in CreateReqs
    PROVE  Created(c)'
<1>t. /\ TypeOK /\ HandlerInv(r) /\ c \in Requests /\ HandlerInv(c)
      /\ Created(c) /\ EntryInv(c) /\ CreateInv(c)
      BY Routes DEF IInv, StepInv, CreationInv
<1>c. clock' = clock /\ reaper'.doomed = reaper.doomed
      BY <1>t, HandlersSpare
<1>1. CASE InsertSession(r) /\ c = r
  <2>1. /\ pc[c] = "insert" /\ pc'[c] = "fetch" /\ call'[c] = call[c] /\ resp'[c] = resp[c]
        /\ IsStep(exec[c].result)
    <3>1. pc[c] = "insert" /\ call' = call /\ resp' = resp
          BY <1>1 DEF InsertSession, Goto
    <3>2. pc'[c] = "fetch"
          BY <1>1, <1>t, GotoLocal DEF InsertSession
    <3> QED BY <1>t, <3>1, <3>2 DEF HandlerInv
  <2>2. resp[c].code = 0 /\ Session(c) = c /\ entry[c] = Unborn
    <3>1. resp[c].code = 0 /\ Session(c) = c
          BY <1>t, <2>1 DEF HandlerInv
    <3> QED BY <1>t, <2>1, <3>1 DEF EntryInv
  <2>3. /\ entry'[c].principal = call[c].caller
        /\ entry'[c].progress = exec[c].result.progress
        /\ entry'[c].snapshot.status = exec[c].result.status
        /\ c \in store'
        BY <1>1, <1>t, InsertedEntry
  <2>4. Renderable(c)'
        BY <1>t, <2>1, <2>3, NoProgressIsNone DEF CreateInv, WellFormed, Renderable
  <2>5. c \notin reaper'.doomed
        BY <1>t, <1>c, <2>2 DEF Created
  <2> QED BY <2>1, <2>2, <2>3, <2>4, <2>5 DEF Created, Session
<1>2. CASE ~(InsertSession(r) /\ c = r)
  <2>1. ASSUME resp'[c].code # 201
        PROVE  resp[c].code # 201 /\ entry'[c] = entry[c] /\ (c \in store => c \in store')
        BY <1>2, <2>1, UntoldUntouched
  <2>2. pc'[c] \in {"fetch", "render"} =>
           /\ pc[c] \in {"fetch", "render"} /\ call'[c] = call[c] /\ resp'[c].code # 201
    <3> SUFFICES ASSUME pc'[c] \in {"fetch", "render"}
                 PROVE  /\ pc[c] \in {"fetch", "render"} /\ call'[c] = call[c]
                        /\ resp'[c].code # 201
        OBVIOUS
    <3>1. HandlerInv(c)'
      <4>1. Next
            BY DEF Next, HandlerStep
      <4> QED BY <1>t, <4>1, HandlerNext
    <3>2. resp'[c].code # 201
          BY <3>1 DEF HandlerInv
    <3>3. CASE c # r
          BY <1>t, <3>2, <3>3, StepIsLocal DEF OthersUntouched
    <3>4. CASE c = r
      <4>1. resp[c].code # 201
            BY <2>1, <3>2
      <4>2. pc[c] \in {"fetch", "render"}
            BY <1>2, <1>t, <3>2, <3>4, <4>1, CreateMoves
      <4>3. ~Receiving(r)
            BY <3>4, <4>2 DEF Receiving, ReceiveCreate, ReceiveRun, ReceiveResume, ReceiveStatus,
               ReceiveDelete, RejectMalformed, Receive
      <4> QED BY <3>2, <3>4, <4>2, <4>3, MovesOnce
    <3> QED BY <3>3, <3>4
  <2>3. pc'[c] \in {"fetch", "render"} =>
           (Session(c) = c /\ entry[c].principal = call[c].caller /\ Renderable(c))'
        BY <1>t, <2>1, <2>2 DEF Created, Session, Renderable
  <2>4. c \in reaper'.doomed => entry'[c] # Unborn
    <3>1. entry[c] # Unborn => entry'[c] # Unborn
          BY BirthLasts
    <3> QED BY <1>t, <1>c, <3>1 DEF Created
  <2>5. resp'[c].code # 201 /\ entry'[c] # Unborn /\ (c \notin store' \/ c \in reaper'.doomed) =>
           ExpiredAt(c, clock)'
        BY <1>t, <1>c, <2>1 DEF Created, ExpiredAt
  <2>6. resp'[c].code = 500 /\ entry'[c] # Unborn => ExpiredAt(c, clock)'
    <3> SUFFICES ASSUME resp'[c].code = 500, entry'[c] # Unborn PROVE ExpiredAt(c, clock)'
        OBVIOUS
    <3>0. entry'[c] = entry[c]
          BY <2>1
    <3>1. CASE resp[c].code = 500
          BY <1>t, <1>c, <3>0, <3>1 DEF Created, ExpiredAt
    <3>2. CASE resp[c].code # 500
      <4>1. c = r
            BY <1>t, <3>2, StepIsLocal DEF OthersUntouched
      <4>2. \/ pc[c] = "awaiting"
            \/ pc[c] = "fetch" /\ ~Visible(c, call[c].caller)
            \/ pc[c] = "render" /\ ~Renderable(Session(c))
            BY <3>2, <4>1, CreateFails
      <4>3. pc[c] = "fetch" /\ c \notin store /\ resp[c].code # 201
            BY <1>t, <2>1, <3>0, <4>2 DEF Created, EntryInv, Visible
      <4> QED BY <1>t, <1>c, <3>0, <4>3 DEF Created, ExpiredAt
    <3> QED BY <3>1, <3>2
  <2> QED BY <2>3, <2>4, <2>5, <2>6 DEF Created
<1> QED BY <1>1, <1>2

LEMMA CreationInit == Init => CreationInv
BY ApiAssumption
DEF Init, StoreInit, CreationInv, Created, KnownAtRemoval, Asleep, NoResponse

\* The reaper's reading of the clock lies in the past.
LEMMA ReaperOnTime ==
    ASSUME IInv, CreationInv, Reaping
    PROVE  reaper'.now <= clock'
<1>t. reaper \in Reaper /\ clock \in Nat /\ reaper.now <= clock
      BY StoreAssumption DEF IInv, TypeOK, StoreTypeOK, CreationInv
<1>k. clock' = clock
      BY DEF Reaping, ReaperWake, ReaperScanned, ReaperVisit, ReaperEvict, Unlist, storeVars
<1>1. reaper'.now \in {0, reaper.now, clock}
  <2>1. CASE ReaperWake
        BY <2>1 DEF ReaperWake
  <2>2. CASE ReaperScanned
        BY <1>t, <2>2 DEF ReaperScanned, Asleep, Reaper
  <2>3. CASE \E id \in CreateReqs : ReaperVisit(id)
        BY <1>t, <2>3 DEF ReaperVisit, Reaper
  <2>4. CASE \E id \in CreateReqs : ReaperEvict(id)
        BY <1>t, <2>4 DEF ReaperEvict, Asleep, Reaper
  <2> QED BY <2>1, <2>2, <2>3, <2>4 DEF Reaping
<1> QED BY <1>t, <1>k, <1>1 DEF Reaper

\* The reaper collects what has expired at a time that has passed.
LEMMA ReaperCreated ==
    ASSUME IInv, StepInv, CreationInv, Reaping, NEW c \in CreateReqs
    PROVE  Created(c)'
<1>t. TypeOK /\ Created(c) /\ EntryInv(c) /\ reaper.now <= clock
      BY DEF IInv, StepInv, CreationInv
<1>n. clock \in Nat /\ reaper.now \in Nat /\ entry[c].expires_at \in Nat
      BY <1>t, StoreAssumption DEF TypeOK, StoreTypeOK, SessionEntry, Reaper
<1>k. entry' = entry /\ clock' = clock /\ pc' = pc /\ call' = call /\ resp' = resp
      BY DEF Reaping, ReaperWake, ReaperScanned, ReaperVisit, ReaperEvict, Unlist, storeVars
<1>1. CASE ReaperWake
      BY <1>t, <1>n, <1>k, <1>1
      DEF ReaperWake, storeVars, Created, Session, Renderable, ExpiredAt
<1>2. CASE ReaperScanned
      BY <1>t, <1>n, <1>k, <1>2
      DEF ReaperScanned, Asleep, storeVars, TypeOK, Reaper, Created, Session, Renderable, ExpiredAt
<1>3. CASE \E id \in CreateReqs : ReaperVisit(id)
  <2>1. /\ reaper'.now = reaper.now /\ store' = store
        /\ c \in reaper'.doomed => c \in reaper.doomed \/ (c \in store /\ ExpiredAt(c, reaper.now))
        BY <1>t, <1>3 DEF ReaperVisit, storeVars, TypeOK, Reaper
  <2>2. ExpiredAt(c, reaper.now) => ExpiredAt(c, clock)
        BY <1>t, <1>n DEF ExpiredAt
  <2> QED BY <1>t, <1>k, <2>1, <2>2 DEF Created, EntryInv, Session, Renderable, ExpiredAt
<1>4. CASE \E id \in CreateReqs : ReaperEvict(id)
  <2>1. /\ reaper'.now <= clock
        /\ c \in reaper'.doomed => c \in reaper.doomed
        /\ c \notin store' => c \notin store \/ c \in reaper.doomed
        BY <1>t, <1>n, <1>4 DEF ReaperEvict, Unlist, Asleep, TypeOK, Reaper
  <2> QED BY <1>t, <1>k, <2>1 DEF Created, Session, Renderable, ExpiredAt
<1> QED BY <1>1, <1>2, <1>3, <1>4 DEF Reaping

LEMMA CreationNext == IInv /\ StepInv /\ CreationInv /\ [Next]_vars => CreationInv'
<1> SUFFICES ASSUME IInv, StepInv, CreationInv, [Next]_vars PROVE CreationInv'
    OBVIOUS
<1>t. TypeOK
      BY DEF IInv
<1>1. ASSUME NEW r \in Requests, HandlerStep(r) PROVE CreationInv'
      BY <1>t, <1>1, HandlersSpare, CreatedNext, RemovalNext DEF CreationInv
<1>2. CASE Reaping
  <2>1. reaper'.now <= clock'
        BY <1>2, ReaperOnTime
  <2>2. pc' = pc /\ call' = call /\ resp' = resp
        BY <1>2, ReaperSpares
  <2> QED BY <1>2, <2>1, <2>2, ReaperCreated DEF CreationInv, KnownAtRemoval, Session
<1>3. CASE PassTime \/ UNCHANGED vars
  <2>1. /\ entry' = entry /\ store' = store /\ pc' = pc /\ call' = call /\ resp' = resp
        /\ reaper' = reaper /\ (clock' = clock + 1 \/ clock' = clock)
        BY <1>3 DEF PassTime, Tick, execVars, apiVars, vars, storeVars
  <2>2. clock \in Nat /\ reaper.now \in Nat /\ \A c \in CreateReqs : entry[c].expires_at \in Nat
        BY <1>t, StoreAssumption DEF TypeOK, StoreTypeOK, SessionEntry, Reaper
  <2>3. ASSUME NEW c \in CreateReqs PROVE Created(c)'
    <3>1. ExpiredAt(c, clock) => ExpiredAt(c, clock)'
          BY <2>1, <2>2 DEF ExpiredAt
    <3> QED BY <2>1, <3>1 DEF CreationInv, Created, Session, Renderable
  <2> QED BY <2>1, <2>2, <2>3 DEF CreationInv, KnownAtRemoval, Session
<1> QED BY <1>1, <1>2, <1>3 DEF Next, HandlerStep

-----------------------------------------------------------------------------
(* The theorems *)

\* What the entries show agrees with what the executor holds, in every
\* reachable state (the resume handler from acquire_for_resume to store_step).
THEOREM StepInvariance == Spec => []StepInv
BY StepInit, StepNext, Invariance, PTL DEF Spec

\* A resume answered 200 shows its own step or a later one, although its
\* handler lets go of the entry between store_step and render.
THEOREM StepsAreRead == Spec => []ReadYourStep
<1>1. IInv /\ StepInv => ReadYourStep
  <2> SUFFICES ASSUME IInv, StepInv, NEW r \in ResumeReqs, resp[r].code = 200
               PROVE  resp[r].seq >= exec[r].result.seq
      BY DEF ReadYourStep
  <2>1. r \in Requests /\ TypeOK /\ FlightInv(r)
        BY Routes DEF IInv, StepInv
  <2>2. resp[r].seq \in Nat /\ exec[r].result.seq \in Nat
        BY <2>1 DEF TypeOK, ExecutorTypeOK, Execution, Result, Response
  <2> QED BY <2>1, <2>2 DEF FlightInv
<1> QED BY <1>1, Invariance, StepInvariance, PTL

\* Nobody but its owner gets any other answer about a session than "not found"
\* (SessionStore::get and remove, and the handlers that call them).
THEOREM SessionsIsolated == Spec => []Isolation
<1>1. StepInv => Isolation
      BY DEF StepInv, OwnerInv, Isolation
<1> QED BY <1>1, StepInvariance, PTL

\* A session is left neither finished nor resumable only by a resume of it
\* that timed out, lost its client or panicked (acquire_for_resume).
THEOREM StrandingExplained == Spec => []StrandedOnlyByLoss
<1>1. IInv /\ StepInv => StrandedOnlyByLoss
  <2> SUFFICES ASSUME IInv, StepInv, NEW id \in CreateReqs, Stranded(id)
               PROVE  \E r \in ResumeReqs : Culprit(r, id)
      BY DEF StrandedOnlyByLoss, Culprit
  <2>1. entry[id] # Unborn
        BY DEF Stranded, StepInv, EntryInv
  <2> QED BY <2>1 DEF Stranded, StepInv, LossInv, Culprit
<1> QED BY <1>1, Invariance, StepInvariance, PTL

\* No recorded step is lost, repeated or recorded over a later one, and none
\* follows the last (store_step, called long after acquire_for_resume).
THEOREM StepsSequential == Spec => StepsAreSequential
<1>1. IInv /\ StepInv /\ [Next]_vars =>
         [\A id \in CreateReqs :
            entry'[id].snapshot # entry[id].snapshot =>
               /\ ~entry[id].terminal
               /\ entry'[id].snapshot.seq = entry[id].snapshot.seq + 1]_vars
  <2> SUFFICES ASSUME IInv, StepInv, [Next]_vars, NEW id \in CreateReqs,
                      entry'[id].snapshot # entry[id].snapshot
               PROVE  /\ ~entry[id].terminal
                      /\ entry'[id].snapshot.seq = entry[id].snapshot.seq + 1
      OBVIOUS
  <2>1. PICK r \in Requests : HandlerStep(r)
    <3>1. ~(Reaping \/ PassTime \/ UNCHANGED vars)
          BY ReaperSpares
    <3> QED BY <3>1 DEF Next, HandlerStep
  <2> QED BY <2>1, SnapshotMoves
<1> QED BY <1>1, Invariance, StepInvariance, PTL DEF Spec, StepsAreSequential

\* A create whose session was inserted fails only because the session expired
\* before it could be shown (create, from SessionStore::create to its answer).
THEOREM CreatesLostToExpiry == Spec => []CreateLostOnlyExpired
<1>1. CreationInv => CreateLostOnlyExpired
      BY DEF CreationInv, Created, CreateLostOnlyExpired
<1> QED BY <1>1, CreationInit, CreationNext, Invariance, StepInvariance, PTL DEF Spec

=============================================================================
