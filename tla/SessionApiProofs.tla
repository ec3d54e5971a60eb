-------------------------- MODULE SessionApiProofs --------------------------
(***************************************************************************)
(* Theorems about SessionApi, for every number of requests, sessions,      *)
(* permits and workers.                                                    *)
(***************************************************************************)
EXTENDS SessionApi, FiniteSetTheorems, TLAPS

-----------------------------------------------------------------------------
(* Types of the engine's results *)

MaybeProgress == RunProgress \cup {NoProgress}

LEMMA BareType ==
    ASSUME NEW status \in ResultStatus
    PROVE  Bare(status) \in Result
BY DEF Bare, Result, NoProgress

LEMMA FinishStepType ==
    ASSUME NEW n \in Nat
    PROVE  FinishStep(n) \subseteq Result
<1> SUFFICES ASSUME NEW result \in FinishStep(n) PROVE result \in Result
    OBVIOUS
<1>1. CASE \E k \in Kinds :
             result = [status |-> "paused", seq |-> n, progress |-> [kind |-> k, seq |-> n]]
      BY <1>1 DEF Result, ResultStatus, StepStatus, RunProgress
<1>2. CASE \E s \in {"completed", "failed"} :
             result = [status |-> s, seq |-> n, progress |-> NoProgress]
      BY <1>2 DEF Result, ResultStatus, StepStatus
<1> QED BY <1>1, <1>2 DEF FinishStep

LEMMA ResumeSessionType ==
    ASSUME NEW progress \in MaybeProgress, NEW input
    PROVE  ResumeSession(progress, input) \subseteq Result
<1>1. progress.seq + 1 \in Nat
      BY DEF MaybeProgress, RunProgress, NoProgress
<1>2. FinishStep(progress.seq + 1) \subseteq Result
      BY <1>1, FinishStepType
<1>3. [status |-> "mismatch", seq |-> 0, progress |-> progress] \in Result
      BY DEF Result, ResultStatus, MaybeProgress
<1> QED BY <1>2, <1>3 DEF ResumeSession

\* Every execution, of whatever route, returns a Result.
LEMMA ResultsType ==
    ASSUME TypeOK, NEW r \in Requests
    PROVE  Results(r) \subseteq Result
<1>1. exec[r].progress \in MaybeProgress
      BY DEF TypeOK, ExecutorTypeOK, Execution, MaybeProgress
<1>2. Bare("panicked") \in Result /\ Bare("compile_error") \in Result /\ Bare("ran") \in Result
      BY BareType DEF ResultStatus
<1>3. StartSession \subseteq Result
      BY <1>2, FinishStepType DEF StartSession
<1>4. ResumeSession(exec[r].progress, call[r].input) \subseteq Result
      BY <1>1, ResumeSessionType
<1>5. RunToCompletion \subseteq Result
      BY <1>2 DEF RunToCompletion
<1> QED BY <1>2, <1>3, <1>4, <1>5 DEF Results

-----------------------------------------------------------------------------
(* Types preserved by the executor's operators *)

LEMMA BlankType ==
    ASSUME NEW phase \in Phase
    PROVE  /\ Blank(phase) \in Execution
           /\ \A p \in MaybeProgress : [Blank(phase) EXCEPT !.progress = p] \in Execution
           /\ \A result \in Result : [Blank(phase) EXCEPT !.result = result] \in Execution
<1>1. NoResult \in Result
      BY BareType DEF NoResult, ResultStatus
<1> QED BY <1>1 DEF Blank, Execution, MaybeProgress

LEMMA SubmitType ==
    ASSUME ExecutorTypeOK, NEW r \in Requests, NEW progress \in MaybeProgress,
           Submit(r, progress)
    PROVE  ExecutorTypeOK'
<1>1. [Blank("queued") EXCEPT !.progress = progress] \in Execution
      BY BlankType DEF Phase
<1> QED BY <1>1 DEF Submit, ExecutorTypeOK

LEMMA DispatchType ==
    ASSUME ExecutorTypeOK, NEW r \in Requests, Dispatch(r)
    PROVE  ExecutorTypeOK'
<1>1. permits' \in 0..MaxConcurrency
      BY ExecutorAssumption DEF Dispatch, ExecutorTypeOK
<1>2. [exec[r] EXCEPT !.phase = "running"] \in Execution
      BY DEF ExecutorTypeOK, Execution, Phase
<1> QED BY <1>1, <1>2 DEF Dispatch, ExecutorTypeOK

LEMMA DropHandlerType ==
    ASSUME ExecutorTypeOK, NEW r \in Requests, DropHandler(r)
    PROVE  ExecutorTypeOK'
<1>1. Blank("idle") \in Execution /\ Blank("detached") \in Execution
      BY BlankType DEF Phase
<1>2. exec[r] \in Execution
      BY DEF ExecutorTypeOK
<1>3. exec' \in [Requests -> Execution]
      BY <1>1, <1>2 DEF DropHandler, ExecutorTypeOK
<1> QED BY <1>3 DEF DropHandler, ExecutorTypeOK

LEMMA TakeResultType ==
    ASSUME ExecutorTypeOK, NEW r \in Requests, TakeResult(r)
    PROVE  ExecutorTypeOK'
<1>1. [exec[r] EXCEPT !.result.progress = NoProgress] \in Execution
      BY DEF ExecutorTypeOK, Execution, Result
<1> QED BY <1>1 DEF TakeResult, ExecutorTypeOK

\* A closure ends with one of the results of its route.
LEMMA EndExecutionType ==
    ASSUME TypeOK, NEW r \in Requests, NEW result \in Results(r), NEW listening \in BOOLEAN,
           Finish(r, result, listening), permits < MaxConcurrency
    PROVE  ExecutorTypeOK'
<1>1. result \in Result
      BY ResultsType
<1>2. [Blank("finished") EXCEPT !.result = result] \in Execution
      BY <1>1, BlankType DEF Phase
<1>3. Blank("detached") \in Execution
      BY BlankType DEF Phase
<1>4. permits' \in 0..MaxConcurrency
      BY ExecutorAssumption DEF Finish, TypeOK, ExecutorTypeOK
<1> QED BY <1>2, <1>3, <1>4 DEF Finish, TypeOK, ExecutorTypeOK

-----------------------------------------------------------------------------
(* Types preserved by the store's operators *)

LEMMA ResolveTtlType ==
    ASSUME NEW requested \in RequestedTtls
    PROVE  ResolveTtl(requested) \in Nat
BY StoreAssumption, ApiAssumption DEF ResolveTtl, NoTtl

LEMMA InsertType ==
    ASSUME StoreTypeOK, NEW id \in CreateReqs, NEW principal \in Principals \cup {Nobody},
           NEW ttl \in Nat, NEW step \in Result, IsStep(step),
           Insert(id, principal, ttl, step)
    PROVE  StoreTypeOK'
<1> DEFINE new == [principal |-> principal,
                   ttl |-> ttl,
                   expires_at |-> clock + ttl,
                   progress |-> step.progress,
                   terminal |-> step.status # "paused",
                   snapshot |-> [status |-> step.status, seq |-> step.seq]]
<1>1. clock + ttl \in Nat
      BY StoreAssumption DEF StoreTypeOK
<1>2. new \in SessionEntry
      BY <1>1 DEF SessionEntry, Snapshot, Result, IsStep
<1>3. entry' \in [CreateReqs -> SessionEntry]
      BY <1>2 DEF Insert, StoreTypeOK
<1> QED BY <1>3 DEF Insert, StoreTypeOK

LEMMA TakeProgressType ==
    ASSUME StoreTypeOK, NEW id \in CreateReqs, TakeProgress(id)
    PROVE  StoreTypeOK'
<1>1. [entry[id] EXCEPT !.progress = NoProgress] \in SessionEntry
      BY DEF StoreTypeOK, SessionEntry
<1> QED BY <1>1 DEF TakeProgress, StoreTypeOK

LEMMA RestoreType ==
    ASSUME StoreTypeOK, NEW id \in CreateReqs, NEW progress \in MaybeProgress,
           Restore(id, progress)
    PROVE  StoreTypeOK'
<1>1. [entry[id] EXCEPT !.progress = progress] \in SessionEntry
      BY DEF StoreTypeOK, SessionEntry, MaybeProgress
<1> QED BY <1>1 DEF Restore, StoreTypeOK

LEMMA StoreStepType ==
    ASSUME StoreTypeOK, NEW id \in CreateReqs, NEW step \in Result, IsStep(step),
           StoreStep(id, step)
    PROVE  StoreTypeOK'
<1>1. clock + entry[id].ttl \in Nat
      BY StoreAssumption DEF StoreTypeOK, SessionEntry
<1>2. [status |-> step.status, seq |-> step.seq] \in Snapshot
      BY DEF Snapshot, Result, IsStep
<1>3. [entry[id] EXCEPT !.progress = step.progress,
                        !.terminal = step.status # "paused",
                        !.snapshot = [status |-> step.status, seq |-> step.seq],
                        !.expires_at = clock + entry[id].ttl] \in SessionEntry
      BY <1>1, <1>2 DEF StoreTypeOK, SessionEntry, Result
<1>4. entry' \in [CreateReqs -> SessionEntry]
      BY <1>3 DEF StoreStep, StoreTypeOK
<1> QED BY <1>4 DEF StoreStep, StoreTypeOK

-----------------------------------------------------------------------------
(* Types preserved by the handlers' helpers *)

LEMMA GotoType ==
    ASSUME TypeOK, NEW r \in Requests, NEW label \in PC, Goto(r, label)
    PROVE  pc' \in [Requests -> PC] /\ resp' \in [Requests -> Response]
BY DEF TypeOK, Goto

LEMMA AnswerStepType ==
    ASSUME TypeOK, NEW r \in Requests, NEW code \in Code, NEW seq \in Nat,
           AnswerStep(r, code, seq)
    PROVE  pc' \in [Requests -> PC] /\ resp' \in [Requests -> Response]
BY DEF TypeOK, AnswerStep, PC, Response

LEMMA AnswerType ==
    ASSUME TypeOK, NEW r \in Requests, NEW code \in Code, Answer(r, code)
    PROVE  pc' \in [Requests -> PC] /\ resp' \in [Requests -> Response]
BY AnswerStepType DEF Answer

LEMMA FetchType ==
    ASSUME TypeOK, NEW r \in Requests, NEW id, NEW p, NEW label \in PC, Fetch(r, id, p, label)
    PROVE  pc' \in [Requests -> PC] /\ resp' \in [Requests -> Response]
BY GotoType, AnswerType DEF Fetch, Code

LEMMA ReceiveType ==
    ASSUME TypeOK, NEW r \in Requests, NEW content \in Call, Receive(r, content)
    PROVE  call' \in [Requests -> Call]
BY DEF TypeOK, Receive

LEMMA UnlistType ==
    ASSUME StoreTypeOK, NEW id, Unlist(id)
    PROVE  StoreTypeOK'
BY DEF StoreTypeOK, Unlist

-----------------------------------------------------------------------------
(* Permits are neither lost nor made up *)

LEMMA RunningFinite == IsFiniteSet(Running)
<1>1. Running \subseteq Requests
      BY DEF Running
<1> QED BY <1>1, FS_Subset, ExecutorAssumption

\* An execution that is running holds a permit.
LEMMA RunningHoldsPermit ==
    ASSUME TypeOK, PermitConservation, NEW r \in Requests, exec[r].phase = "running"
    PROVE  permits < MaxConcurrency
<1>1. r \in Running
      BY DEF Running
<1>2. Cardinality(Running) \in Nat /\ Cardinality(Running) # 0
      BY <1>1, RunningFinite, FS_CardinalityType, FS_EmptySet
<1> QED BY <1>2, ExecutorAssumption DEF PermitConservation, TypeOK, ExecutorTypeOK

\* A step that leaves the set of running executions and the permits alone.
LEMMA PermitsUntouched ==
    ASSUME PermitConservation, permits' = permits, Running' = Running
    PROVE  PermitConservation'
BY DEF PermitConservation

LEMMA DispatchConserves ==
    ASSUME TypeOK, PermitConservation, NEW r \in Requests, Dispatch(r)
    PROVE  PermitConservation'
<1>1. r \notin Running /\ Running' = Running \cup {r}
      BY DEF Dispatch, Running, TypeOK, ExecutorTypeOK, Execution
<1>2. Cardinality(Running') = Cardinality(Running) + 1
      BY <1>1, RunningFinite, FS_AddElement
<1> QED BY <1>2, RunningFinite, FS_CardinalityType, ExecutorAssumption
        DEF Dispatch, PermitConservation, TypeOK, ExecutorTypeOK

LEMMA FinishConserves ==
    ASSUME TypeOK, PermitConservation, NEW r \in Requests, NEW result, NEW listening,
           Finish(r, result, listening)
    PROVE  PermitConservation'
<1>1. r \in Running
      BY DEF Finish, Running
<1>2. exec'[r].phase # "running"
      BY DEF Finish, Blank, TypeOK, ExecutorTypeOK
<1>3. Running' = Running \ {r}
      BY <1>2 DEF Finish, Running, TypeOK, ExecutorTypeOK
<1>4. Cardinality(Running') = Cardinality(Running) - 1
      BY <1>1, <1>3, RunningFinite, FS_RemoveElement
<1> QED BY <1>4, RunningFinite, FS_CardinalityType, ExecutorAssumption
        DEF Finish, PermitConservation, TypeOK, ExecutorTypeOK

LEMMA SubmitConserves ==
    ASSUME TypeOK, PermitConservation, NEW r \in Requests, NEW progress,
           exec[r].phase = "idle", Submit(r, progress)
    PROVE  PermitConservation'
<1>1. exec'[r].phase = "queued"
      BY DEF Submit, Blank, TypeOK, ExecutorTypeOK
<1>2. Running' = Running
      BY <1>1 DEF Submit, Running, TypeOK, ExecutorTypeOK
<1> QED BY <1>2, PermitsUntouched DEF Submit

LEMMA DropHandlerConserves ==
    ASSUME TypeOK, PermitConservation, NEW r \in Requests, DropHandler(r)
    PROVE  PermitConservation'
<1>1. exec'[r].phase = "running" <=> exec[r].phase = "running"
      BY DEF DropHandler, Blank, TypeOK, ExecutorTypeOK
<1>2. Running' = Running
      BY <1>1 DEF DropHandler, Running, TypeOK, ExecutorTypeOK
<1> QED BY <1>2, PermitsUntouched DEF DropHandler

LEMMA TakeResultConserves ==
    ASSUME TypeOK, PermitConservation, NEW r \in Requests, TakeResult(r)
    PROVE  PermitConservation'
<1>1. exec'[r].phase = exec[r].phase
      BY DEF TakeResult, TypeOK, ExecutorTypeOK, Execution
<1>2. Running' = Running
      BY <1>1 DEF TakeResult, Running, TypeOK, ExecutorTypeOK
<1> QED BY <1>2, PermitsUntouched DEF TakeResult

-----------------------------------------------------------------------------
(* Type correctness *)

LEMMA StoreStutter == ASSUME StoreTypeOK, UNCHANGED storeVars PROVE StoreTypeOK'
BY DEF StoreTypeOK, storeVars

LEMMA ExecutorStutter == ASSUME ExecutorTypeOK, UNCHANGED execVars PROVE ExecutorTypeOK'
BY DEF ExecutorTypeOK, execVars

LEMMA TypeInit == Init => TypeOK
<1> SUFFICES ASSUME Init PROVE TypeOK
    OBVIOUS
<1>1. StoreTypeOK
  <2>1. Unborn \in SessionEntry
        BY DEF Unborn, SessionEntry, Snapshot
  <2> QED BY <2>1, StoreAssumption DEF Init, StoreInit, StoreTypeOK
<1>2. ExecutorTypeOK
  <2>1. Blank("idle") \in Execution
        BY BlankType DEF Phase
  <2> QED BY <2>1, ExecutorAssumption DEF Init, ExecutorInit, ExecutorTypeOK
<1>3. NoCall \in Call /\ NoResponse \in Response /\ Asleep \in Reaper
      BY DEF CallOf, NoCall, Call, NoResponse, Response, Code, Asleep, Reaper
<1> QED BY <1>1, <1>2, <1>3 DEF Init, TypeOK, PC

LEMMA TypeNext == IInv /\ [Next]_vars => TypeOK'
<1> SUFFICES ASSUME IInv, [Next]_vars PROVE TypeOK'
    OBVIOUS
<1> USE DEF IInv
<1>t. StoreTypeOK /\ ExecutorTypeOK /\ call \in [Requests -> Call] /\ reaper \in Reaper
      BY DEF TypeOK
<1>p. NoProgress \in MaybeProgress
      BY DEF MaybeProgress
<1>c. CreateReqs \subseteq Requests
      BY ApiAssumption
<1>1. ASSUME NEW r \in Requests, ReceiveCreate(r) PROVE TypeOK'
  <2>1. PICK p \in Principals, ttl \in RequestedTtls :
           Receive(r, CallOf(p, r, ResolveTtl(ttl), "none"))
        BY <1>1 DEF ReceiveCreate
  <2>2. call' \in [Requests -> Call]
    <3>1. r \in CreateReqs /\ ResolveTtl(ttl) \in Nat
          BY <1>1, ResolveTtlType DEF ReceiveCreate
    <3>2. CallOf(p, r, ResolveTtl(ttl), "none") \in Call
          BY <3>1 DEF CallOf, Call
    <3> QED BY <2>1, <3>2, ReceiveType
  <2>3. ExecutorTypeOK'
        BY <1>1, <1>t, <1>p, SubmitType DEF ReceiveCreate
  <2>4. pc' \in [Requests -> PC] /\ resp' \in [Requests -> Response]
        BY <1>1, GotoType DEF ReceiveCreate, PC
  <2> QED BY <1>1, <1>t, <2>2, <2>3, <2>4, StoreStutter DEF ReceiveCreate, TypeOK
<1>2. ASSUME NEW r \in Requests, ReceiveRun(r) PROVE TypeOK'
  <2>1. PICK p \in Principals : Receive(r, CallOf(p, NoId, 0, "none"))
        BY <1>2 DEF ReceiveRun
  <2>2. call' \in [Requests -> Call]
    <3>1. CallOf(p, NoId, 0, "none") \in Call
          BY DEF CallOf, Call
    <3> QED BY <2>1, <3>1, ReceiveType
  <2>3. ExecutorTypeOK'
        BY <1>2, <1>t, <1>p, SubmitType DEF ReceiveRun
  <2>4. pc' \in [Requests -> PC] /\ resp' \in [Requests -> Response]
        BY <1>2, GotoType DEF ReceiveRun, PC
  <2> QED BY <1>2, <1>t, <2>2, <2>3, <2>4, StoreStutter DEF ReceiveRun, TypeOK
<1>3. ASSUME NEW r \in Requests, ReceiveResume(r) PROVE TypeOK'
  <2>1. PICK p \in Principals, id \in CreateReqs, input \in Inputs :
           /\ Receive(r, CallOf(p, id, 0, input))
           /\ Fetch(r, id, p, "acquire")
        BY <1>3 DEF ReceiveResume, KnownIds
  <2>2. call' \in [Requests -> Call]
    <3>1. CallOf(p, id, 0, input) \in Call
          BY DEF CallOf, Call
    <3> QED BY <2>1, <3>1, ReceiveType
  <2>3. pc' \in [Requests -> PC] /\ resp' \in [Requests -> Response]
        BY <2>1, FetchType DEF PC
  <2> QED BY <1>3, <1>t, <2>2, <2>3, StoreStutter, ExecutorStutter DEF ReceiveResume, TypeOK
<1>4. ASSUME NEW r \in Requests, ReceiveStatus(r) \/ ReceiveDelete(r) PROVE TypeOK'
  <2>1. PICK p \in Principals, id \in CreateReqs :
           /\ Receive(r, CallOf(p, id, 0, "none"))
           /\ Fetch(r, id, p, "render") \/ Fetch(r, id, p, "unlist")
        BY <1>4 DEF ReceiveStatus, ReceiveDelete, KnownIds
  <2>2. call' \in [Requests -> Call]
    <3>1. CallOf(p, id, 0, "none") \in Call
          BY DEF CallOf, Call
    <3> QED BY <2>1, <3>1, ReceiveType
  <2>3. pc' \in [Requests -> PC] /\ resp' \in [Requests -> Response]
        BY <2>1, FetchType DEF PC
  <2> QED BY <1>4, <1>t, <2>2, <2>3, StoreStutter, ExecutorStutter
          DEF ReceiveStatus, ReceiveDelete, TypeOK
<1>5. ASSUME NEW r \in Requests, RejectMalformed(r) PROVE TypeOK'
  <2>1. PICK p \in Principals : Receive(r, CallOf(p, NoId, 0, "none"))
        BY <1>5 DEF RejectMalformed
  <2>2. call' \in [Requests -> Call]
    <3>1. CallOf(p, NoId, 0, "none") \in Call
          BY DEF CallOf, Call
    <3> QED BY <2>1, <3>1, ReceiveType
  <2>3. pc' \in [Requests -> PC] /\ resp' \in [Requests -> Response]
        BY <1>5, AnswerType DEF RejectMalformed, Code
  <2> QED BY <1>5, <1>t, <2>2, <2>3, StoreStutter, ExecutorStutter DEF RejectMalformed, TypeOK
<1>6. ASSUME NEW r \in Requests, StartExecution(r) PROVE TypeOK'
      BY <1>6, <1>t, DispatchType, StoreStutter DEF StartExecution, TypeOK, apiVars
<1>7. ASSUME NEW r \in Requests, EndExecution(r) PROVE TypeOK'
  <2>1. PICK result \in Results(r) : Finish(r, result, pc[r] = "awaiting")
        BY <1>7 DEF EndExecution
  <2>2. permits < MaxConcurrency
        BY <2>1, RunningHoldsPermit DEF Finish
  <2>3. ExecutorTypeOK'
        BY <2>1, <2>2, EndExecutionType
  <2> QED BY <1>7, <1>t, <2>3, StoreStutter DEF EndExecution, TypeOK, apiVars
<1>8. ASSUME NEW r \in Requests, Abandon(r) PROVE TypeOK'
  <2>1. pc' \in [Requests -> PC] /\ resp' \in [Requests -> Response]
        BY <1>8, AnswerType DEF Abandon, Code
  <2> QED BY <1>8, <1>t, <2>1, DropHandlerType, StoreStutter DEF Abandon, TypeOK
<1>9. ASSUME NEW r \in Requests, WakePanicked(r) \/ FinishRun(r) \/ CompileFailed(r)
      PROVE  TypeOK'
  <2>1. TakeResult(r) /\ UNCHANGED <<storeVars, call, reaper>> /\ (Answer(r, 500) \/ Answer(r, 200))
        BY <1>9 DEF WakePanicked, FinishRun, CompileFailed, Wake
  <2>2. pc' \in [Requests -> PC] /\ resp' \in [Requests -> Response]
        BY <2>1, AnswerType DEF Code
  <2> QED BY <1>t, <2>1, <2>2, TakeResultType, StoreStutter DEF TypeOK
<1>10. ASSUME NEW r \in Requests, CheckCapacity(r) PROVE TypeOK'
  <2>1. ExecutorTypeOK' /\ UNCHANGED call
        BY <1>10, <1>t, TakeResultType, ExecutorStutter DEF CheckCapacity, Wake
  <2>2. pc' \in [Requests -> PC] /\ resp' \in [Requests -> Response]
        BY <1>10, AnswerType, GotoType DEF CheckCapacity, Code, PC
  <2> QED BY <1>10, <1>t, <2>1, <2>2, StoreStutter DEF CheckCapacity, TypeOK
<1>11. ASSUME NEW r \in Requests, InsertSession(r) PROVE TypeOK'
  <2>1. r \in CreateReqs /\ IsStep(exec[r].result)
        BY <1>11 DEF InsertSession, HandlerInv
  <2>2. StoreTypeOK'
    <3>1. call[r].caller \in Principals \cup {Nobody} /\ call[r].ttl \in Nat
          BY <1>t DEF Call
    <3>2. exec[r].result \in Result
          BY <1>t DEF ExecutorTypeOK, Execution
    <3> QED BY <1>11, <1>t, <2>1, <3>1, <3>2, InsertType DEF InsertSession
  <2>3. ExecutorTypeOK'
        BY <1>11, <1>t, TakeResultType DEF InsertSession
  <2>4. pc' \in [Requests -> PC] /\ resp' \in [Requests -> Response]
        BY <1>11, GotoType DEF InsertSession, PC
  <2>5. reaper' \in Reaper
    <3>1. [reaper EXCEPT !.unseen = @ \cup {r}] \in Reaper
          BY <1>t, <2>1 DEF Reaper
    <3> QED BY <1>11, <1>t, <3>1 DEF InsertSession
  <2> QED BY <1>11, <1>t, <2>2, <2>3, <2>4, <2>5 DEF InsertSession, TypeOK
<1>12. ASSUME NEW r \in Requests, FetchCreated(r) PROVE TypeOK'
  <2>1. pc' \in [Requests -> PC] /\ resp' \in [Requests -> Response]
        BY <1>12, AnswerType, GotoType DEF FetchCreated, Code, PC
  <2> QED BY <1>12, <1>t, <2>1, StoreStutter, ExecutorStutter DEF FetchCreated, TypeOK
<1>13. ASSUME NEW r \in Requests, Acquire(r) PROVE TypeOK'
  <2>1. Session(r) \in CreateReqs
        BY <1>13 DEF Acquire, HandlerInv
  <2>2. entry[Session(r)].progress \in MaybeProgress
        BY <1>t, <2>1 DEF StoreTypeOK, SessionEntry, MaybeProgress
  <2>3. StoreTypeOK' /\ ExecutorTypeOK'
        BY <1>13, <1>t, <2>1, <2>2, TakeProgressType, SubmitType, StoreStutter, ExecutorStutter
        DEF Acquire
  <2>4. pc' \in [Requests -> PC] /\ resp' \in [Requests -> Response]
        BY <1>13, AnswerType, GotoType DEF Acquire, Code, PC
  <2> QED BY <1>13, <1>t, <2>3, <2>4 DEF Acquire, TypeOK
<1>14. ASSUME NEW r \in Requests, RecordStep(r) PROVE TypeOK'
  <2>1. Session(r) \in CreateReqs
        BY <1>14 DEF RecordStep, Wake, HandlerInv
  <2>2. exec[r].result \in Result /\ IsStep(exec[r].result)
        BY <1>14, <1>t DEF RecordStep, Wake, IsStep, ExecutorTypeOK, Execution
  <2>3. StoreTypeOK' /\ ExecutorTypeOK'
        BY <1>14, <1>t, <2>1, <2>2, StoreStepType, TakeResultType DEF RecordStep, Wake
  <2>4. pc' \in [Requests -> PC] /\ resp' \in [Requests -> Response]
        BY <1>14, GotoType DEF RecordStep, PC
  <2> QED BY <1>14, <1>t, <2>3, <2>4 DEF RecordStep, Wake, TypeOK
<1>15. ASSUME NEW r \in Requests, RestoreProgress(r) PROVE TypeOK'
  <2>1. Session(r) \in CreateReqs
        BY <1>15 DEF RestoreProgress, Wake, HandlerInv
  <2>2. exec[r].result.progress \in MaybeProgress
        BY <1>t DEF ExecutorTypeOK, Execution, Result, MaybeProgress
  <2>3. StoreTypeOK' /\ ExecutorTypeOK'
        BY <1>15, <1>t, <2>1, <2>2, RestoreType, TakeResultType DEF RestoreProgress, Wake
  <2>4. pc' \in [Requests -> PC] /\ resp' \in [Requests -> Response]
        BY <1>15, AnswerType DEF RestoreProgress, Code
  <2> QED BY <1>15, <1>t, <2>3, <2>4 DEF RestoreProgress, Wake, TypeOK
<1>16. ASSUME NEW r \in Requests, Render(r) PROVE TypeOK'
  <2>1. Session(r) \in CreateReqs
        BY <1>16 DEF Render, HandlerInv
  <2>2. entry[Session(r)].snapshot.seq \in Nat
        BY <1>t, <2>1 DEF StoreTypeOK, SessionEntry, Snapshot
  <2>3. pc' \in [Requests -> PC] /\ resp' \in [Requests -> Response]
        BY <1>16, <2>2, AnswerStepType, AnswerType DEF Render, Code
  <2> QED BY <1>16, <1>t, <2>3, StoreStutter, ExecutorStutter DEF Render, TypeOK
<1>17. ASSUME NEW r \in Requests, DeleteSession(r) PROVE TypeOK'
  <2>1. pc' \in [Requests -> PC] /\ resp' \in [Requests -> Response]
        BY <1>17, AnswerType DEF DeleteSession, Code
  <2> QED BY <1>17, <1>t, <2>1, UnlistType, ExecutorStutter DEF DeleteSession, TypeOK
<1>18. CASE Reaping
  <2>1. reaper' \in Reaper
    <3>1. Asleep \in Reaper
          BY DEF Asleep, Reaper
    <3>2. clock \in Nat /\ store \subseteq CreateReqs
          BY <1>t, StoreAssumption DEF StoreTypeOK
    <3>3. CASE ReaperWake
          BY <3>2, <3>3 DEF ReaperWake, Reaper
    <3>4. CASE ReaperScanned
          BY <1>t, <3>1, <3>4 DEF ReaperScanned, Reaper
    <3>5. ASSUME NEW id \in CreateReqs, ReaperVisit(id) PROVE reaper' \in Reaper
          BY <1>t, <3>5 DEF ReaperVisit, Reaper
    <3>6. ASSUME NEW id \in CreateReqs, ReaperEvict(id) PROVE reaper' \in Reaper
          BY <1>t, <3>1, <3>6 DEF ReaperEvict, Reaper
    <3> QED BY <1>18, <3>3, <3>4, <3>5, <3>6 DEF Reaping
  <2>2. StoreTypeOK'
        BY <1>18, <1>t, UnlistType, StoreStutter
        DEF Reaping, ReaperWake, ReaperScanned, ReaperVisit, ReaperEvict
  <2> QED BY <1>18, <1>t, <2>1, <2>2, ExecutorStutter
          DEF Reaping, ReaperWake, ReaperScanned, ReaperVisit, ReaperEvict, TypeOK
<1>19. CASE PassTime
  <2>1. StoreTypeOK'
        BY <1>19, <1>t, StoreAssumption DEF PassTime, Tick, StoreTypeOK
  <2> QED BY <1>19, <1>t, <2>1, ExecutorStutter DEF PassTime, TypeOK, apiVars
<1>20. CASE UNCHANGED vars
      BY <1>20, <1>t, StoreStutter, ExecutorStutter DEF vars, apiVars, TypeOK
<1> QED
  BY <1>1, <1>2, <1>3, <1>4, <1>5, <1>6, <1>7, <1>8, <1>9, <1>10, <1>11, <1>12, <1>13,
     <1>14, <1>15, <1>16, <1>17, <1>18, <1>19, <1>20
  DEF Next, Receiving, Handling, Executing

-----------------------------------------------------------------------------
(* Conservation of permits *)

LEMMA PermitsInit == Init => PermitConservation
<1> SUFFICES ASSUME Init PROVE PermitConservation
    OBVIOUS
<1>1. Running = {}
      BY DEF Init, ExecutorInit, Running, Blank
<1> QED BY <1>1, FS_EmptySet, ExecutorAssumption DEF Init, ExecutorInit, PermitConservation

\* Steps that leave the executor alone leave the permits alone.
LEMMA ExecutorStutterConserves ==
    ASSUME PermitConservation, UNCHANGED execVars PROVE PermitConservation'
BY PermitsUntouched DEF execVars, Running

LEMMA PermitsNext == IInv /\ [Next]_vars => PermitConservation'
<1> SUFFICES ASSUME IInv, [Next]_vars PROVE PermitConservation'
    OBVIOUS
<1> USE DEF IInv
<1>1. ASSUME NEW r \in Requests, Receiving(r) PROVE PermitConservation'
  <2>1. CASE ReceiveCreate(r) \/ ReceiveRun(r)
    <3>1. exec[r].phase = "idle" /\ Submit(r, NoProgress)
          BY <2>1 DEF ReceiveCreate, ReceiveRun, Receive, HandlerInv
    <3> QED BY <3>1, SubmitConserves
  <2>2. CASE ReceiveResume(r) \/ ReceiveStatus(r) \/ ReceiveDelete(r) \/ RejectMalformed(r)
        BY <2>2, ExecutorStutterConserves
        DEF ReceiveResume, ReceiveStatus, ReceiveDelete, RejectMalformed
  <2> QED BY <1>1, <2>1, <2>2 DEF Receiving
<1>2. ASSUME NEW r \in Requests, Executing(r) PROVE PermitConservation'
      BY <1>2, DispatchConserves, FinishConserves DEF Executing, StartExecution, EndExecution
<1>3. ASSUME NEW r \in Requests, Abandon(r) PROVE PermitConservation'
      BY <1>3, DropHandlerConserves DEF Abandon
<1>4. ASSUME NEW r \in Requests, Handling(r) PROVE PermitConservation'
  <2>1. CASE \/ WakePanicked(r) \/ FinishRun(r) \/ CompileFailed(r)
             \/ InsertSession(r) \/ RecordStep(r) \/ RestoreProgress(r)
        BY <2>1, TakeResultConserves
        DEF WakePanicked, FinishRun, CompileFailed, InsertSession, RecordStep,
            RestoreProgress, Wake
  <2>2. CASE CheckCapacity(r)
        BY <2>2, TakeResultConserves, ExecutorStutterConserves DEF CheckCapacity, Wake
  <2>3. CASE Acquire(r)
    <3>1. exec[r].phase = "idle"
          BY <2>3 DEF Acquire, HandlerInv
    <3> QED BY <2>3, <3>1, SubmitConserves, ExecutorStutterConserves DEF Acquire
  <2>4. CASE FetchCreated(r) \/ Render(r) \/ DeleteSession(r)
        BY <2>4, ExecutorStutterConserves DEF FetchCreated, Render, DeleteSession
  <2> QED BY <1>4, <2>1, <2>2, <2>3, <2>4 DEF Handling
<1>5. CASE Reaping
      BY <1>5, ExecutorStutterConserves
      DEF Reaping, ReaperWake, ReaperScanned, ReaperVisit, ReaperEvict
<1>6. CASE PassTime \/ UNCHANGED vars
      BY <1>6, ExecutorStutterConserves DEF PassTime, vars
<1> QED BY <1>1, <1>2, <1>3, <1>4, <1>5, <1>6 DEF Next

-----------------------------------------------------------------------------
(* Where handlers are *)

\* A step of handler r leaves the other requests alone.
OthersUntouched(r) ==
    \A q \in Requests \ {r} :
        pc'[q] = pc[q] /\ call'[q] = call[q] /\ exec'[q] = exec[q] /\ resp'[q] = resp[q]

\* A step of handler r or of its execution.
HandlerStep(r) == Receiving(r) \/ Handling(r) \/ Executing(r) \/ Abandon(r)

LEMMA GotoLocal ==
    ASSUME TypeOK, NEW r \in Requests, NEW label, Goto(r, label)
    PROVE  /\ pc'[r] = label
           /\ resp' = resp
           /\ \A q \in Requests \ {r} : pc'[q] = pc[q] /\ resp'[q] = resp[q]
BY DEF TypeOK, Goto

LEMMA AnswerStepLocal ==
    ASSUME TypeOK, NEW r \in Requests, NEW code, NEW seq, AnswerStep(r, code, seq)
    PROVE  /\ pc'[r] = "done"
           /\ resp'[r].code = code
           /\ \A q \in Requests \ {r} : pc'[q] = pc[q] /\ resp'[q] = resp[q]
BY DEF TypeOK, AnswerStep

LEMMA AnswerLocal ==
    ASSUME TypeOK, NEW r \in Requests, NEW code, Answer(r, code)
    PROVE  /\ pc'[r] = "done"
           /\ resp'[r].code = code
           /\ \A q \in Requests \ {r} : pc'[q] = pc[q] /\ resp'[q] = resp[q]
BY AnswerStepLocal DEF Answer

LEMMA ReceiveLocal ==
    ASSUME TypeOK, NEW r \in Requests, NEW content, Receive(r, content)
    PROVE  /\ pc[r] = "new"
           /\ call'[r] = content
           /\ \A q \in Requests \ {r} : call'[q] = call[q]
BY DEF TypeOK, Receive

LEMMA SubmitLocal ==
    ASSUME TypeOK, NEW r \in Requests, NEW progress, Submit(r, progress)
    PROVE  /\ exec'[r].phase = "queued"
           /\ exec'[r].progress = progress
           /\ exec'[r].result = NoResult
           /\ \A q \in Requests \ {r} : exec'[q] = exec[q]
BY DEF TypeOK, ExecutorTypeOK, Submit, Blank

LEMMA TakeResultLocal ==
    ASSUME TypeOK, NEW r \in Requests, TakeResult(r)
    PROVE  /\ exec'[r].phase = exec[r].phase
           /\ exec'[r].result.status = exec[r].result.status
           /\ \A q \in Requests \ {r} : exec'[q] = exec[q]
BY DEF TypeOK, ExecutorTypeOK, Execution, Result, TakeResult

LEMMA DropHandlerLocal ==
    ASSUME TypeOK, NEW r \in Requests, DropHandler(r)
    PROVE  /\ \/ exec'[r] = exec[r] /\ exec[r].phase = "running"
              \/ exec'[r] = Blank("idle")
              \/ exec'[r] = Blank("detached")
           /\ exec[r].phase = "queued" => exec'[r] = Blank("idle")
           /\ \A q \in Requests \ {r} : exec'[q] = exec[q]
BY DEF TypeOK, ExecutorTypeOK, DropHandler

LEMMA FetchLocal ==
    ASSUME TypeOK, NEW r \in Requests, NEW id, NEW p, NEW label, Fetch(r, id, p, label)
    PROVE  /\ \/ pc'[r] = label /\ resp' = resp
              \/ pc'[r] = "done" /\ resp'[r].code = 404
           /\ \A q \in Requests \ {r} : pc'[q] = pc[q] /\ resp'[q] = resp[q]
<1>1. CASE Goto(r, label)
      BY <1>1, GotoLocal
<1>2. CASE Answer(r, 404)
      BY <1>2, AnswerLocal
<1> QED BY <1>1, <1>2 DEF Fetch

\* What a handler step leaves behind, whatever the action.
LEMMA StepIsLocal ==
    ASSUME TypeOK, NEW r \in Requests, HandlerStep(r)
    PROVE  OthersUntouched(r)
<1>1. CASE ReceiveCreate(r) \/ ReceiveRun(r)
      BY <1>1, ReceiveLocal, SubmitLocal, GotoLocal
      DEF ReceiveCreate, ReceiveRun, OthersUntouched
<1>2. CASE ReceiveResume(r) \/ ReceiveStatus(r) \/ ReceiveDelete(r)
  <2>1. PICK p \in Principals, id \in KnownIds :
           \/ Fetch(r, id, p, "acquire") \/ Fetch(r, id, p, "render") \/ Fetch(r, id, p, "unlist")
        BY <1>2 DEF ReceiveResume, ReceiveStatus, ReceiveDelete
  <2>2. \A q \in Requests \ {r} : call'[q] = call[q]
        BY <1>2, ReceiveLocal DEF ReceiveResume, ReceiveStatus, ReceiveDelete
  <2>3. \A q \in Requests \ {r} : pc'[q] = pc[q] /\ resp'[q] = resp[q]
        BY <2>1, FetchLocal
  <2> QED BY <1>2, <2>2, <2>3
          DEF ReceiveResume, ReceiveStatus, ReceiveDelete, execVars, OthersUntouched
<1>3. CASE RejectMalformed(r)
      BY <1>3, ReceiveLocal, AnswerLocal DEF RejectMalformed, execVars, OthersUntouched
<1>4. CASE StartExecution(r) \/ EndExecution(r)
      BY <1>4 DEF StartExecution, EndExecution, Dispatch, Finish, apiVars, OthersUntouched,
                  TypeOK, ExecutorTypeOK
<1>5. CASE Abandon(r)
      BY <1>5, DropHandlerLocal, AnswerLocal DEF Abandon, OthersUntouched
<1>6. CASE WakePanicked(r) \/ FinishRun(r) \/ CompileFailed(r) \/ RestoreProgress(r)
      BY <1>6, TakeResultLocal, AnswerLocal
      DEF WakePanicked, FinishRun, CompileFailed, RestoreProgress, Wake, OthersUntouched
<1>7. CASE CheckCapacity(r)
      BY <1>7, TakeResultLocal, AnswerLocal, GotoLocal
      DEF CheckCapacity, Wake, execVars, OthersUntouched
<1>8. CASE InsertSession(r) \/ RecordStep(r)
      BY <1>8, TakeResultLocal, GotoLocal DEF InsertSession, RecordStep, Wake, OthersUntouched
<1>9. CASE FetchCreated(r) \/ Render(r) \/ DeleteSession(r)
      BY <1>9, AnswerLocal, AnswerStepLocal, GotoLocal
      DEF FetchCreated, Render, DeleteSession, execVars, OthersUntouched
<1>10. CASE Acquire(r)
      BY <1>10, AnswerLocal, GotoLocal, SubmitLocal DEF Acquire, execVars, OthersUntouched
<1> QED
  BY <1>1, <1>2, <1>3, <1>4, <1>5, <1>6, <1>7, <1>8, <1>9, <1>10
  DEF HandlerStep, Receiving, Handling, Executing

\* Which routes a request may be for: only those of status and delete overlap.
LEMMA Routes ==
    ASSUME NEW r
    PROVE  /\ r \in CreateReqs =>
                r \in Requests /\ r \notin RunReqs \cup ResumeReqs \cup StatusReqs \cup DeleteReqs
           /\ r \in RunReqs =>
                r \in Requests /\ r \notin CreateReqs \cup ResumeReqs \cup StatusReqs \cup DeleteReqs
           /\ r \in ResumeReqs =>
                r \in Requests /\ r \notin CreateReqs \cup RunReqs \cup StatusReqs \cup DeleteReqs
           /\ r \in StatusReqs \cup DeleteReqs =>
                r \in Requests /\ r \notin CreateReqs \cup RunReqs \cup ResumeReqs
BY ApiAssumption

\* An answer is given once.
LEMMA AnswersStay ==
    ASSUME TypeOK, NEW r \in Requests, HandlerInv(r), HandlerStep(r),
           NEW q \in Requests, resp[q].code # 0
    PROVE  resp'[q] = resp[q]
<1>1. CASE q # r
      BY <1>1, StepIsLocal DEF OthersUntouched
<1>2. CASE q = r
  <2>1. pc[r] = "done"
        BY <1>2 DEF HandlerInv
  <2>2. Executing(r)
        BY <2>1
        DEF HandlerStep, Receiving, ReceiveCreate, ReceiveRun, ReceiveResume, ReceiveStatus,
            ReceiveDelete, RejectMalformed, Receive, Handling, WakePanicked, FinishRun,
            CompileFailed, CheckCapacity, InsertSession, FetchCreated, Acquire, RecordStep,
            RestoreProgress, Render, DeleteSession, Wake, Abandon
  <2> QED BY <2>2 DEF Executing, StartExecution, EndExecution, apiVars
<1> QED BY <1>1, <1>2

\* The other handlers keep the invariant, because answers stay.
LEMMA OthersKeepHandlerInv ==
    ASSUME TypeOK, \A q \in Requests : HandlerInv(q),
           NEW r \in Requests, HandlerStep(r), NEW q \in Requests, q # r
    PROVE  HandlerInv(q)'
<1>1. pc'[q] = pc[q] /\ call'[q] = call[q] /\ exec'[q] = exec[q] /\ resp'[q] = resp[q]
      BY StepIsLocal DEF OthersUntouched
<1>2. ASSUME resp[Session(q)].code = 201, Session(q) \in CreateReqs
      PROVE  resp'[Session(q)].code = 201
      BY <1>2, AnswersStay, ApiAssumption
<1> QED BY <1>1, <1>2 DEF HandlerInv, Session

\* The handler that moves: its new place and what it has in hand there.
LEMMA OwnHandlerInv ==
    ASSUME IInv, NEW r \in Requests, HandlerStep(r)
    PROVE  HandlerInv(r)'
<1> USE DEF IInv
<1>h. HandlerInv(r)
      OBVIOUS
<1>n. ~IsStep(NoResult) /\ NoResult.status = "none"
      BY DEF NoResult, Bare, IsStep, StepStatus
<1>s. ASSUME Session(r) \in CreateReqs, resp[Session(r)].code = 201
      PROVE  resp'[Session(r)].code = 201
      BY <1>s, <1>h, AnswersStay, ApiAssumption
<1>1. CASE ReceiveCreate(r)
  <2>1. r \in CreateReqs /\ r \notin ResumeReqs
        BY <1>1, Routes DEF ReceiveCreate
  <2>2. pc[r] = "new" /\ call'[r].id = r
        BY <1>1, ReceiveLocal DEF ReceiveCreate, CallOf
  <2>3. pc'[r] = "awaiting" /\ resp' = resp
        BY <1>1, GotoLocal DEF ReceiveCreate
  <2>4. exec'[r].phase = "queued" /\ exec'[r].result = NoResult
        BY <1>1, SubmitLocal DEF ReceiveCreate
  <2> QED BY <1>h, <1>n, <2>1, <2>2, <2>3, <2>4 DEF HandlerInv, Session
<1>2. CASE ReceiveRun(r)
  <2>1. r \notin CreateReqs /\ r \notin ResumeReqs /\ pc[r] = "new"
        BY <1>2, Routes DEF ReceiveRun, Receive
  <2>2. pc'[r] = "awaiting" /\ resp' = resp
        BY <1>2, GotoLocal DEF ReceiveRun
  <2>3. exec'[r].phase = "queued" /\ exec'[r].result = NoResult
        BY <1>2, SubmitLocal DEF ReceiveRun
  <2> QED BY <1>h, <1>n, <2>1, <2>2, <2>3 DEF HandlerInv, Session
<1>3. CASE ReceiveResume(r)
  <2>1. PICK p \in Principals, id \in KnownIds, input \in Inputs :
           /\ Receive(r, CallOf(p, id, 0, input))
           /\ Fetch(r, id, p, "acquire")
        BY <1>3 DEF ReceiveResume
  <2>2. r \in ResumeReqs /\ r \notin CreateReqs
        BY <1>3, Routes DEF ReceiveResume
  <2>3. pc[r] = "new" /\ call'[r].id = id
        BY <2>1, ReceiveLocal DEF CallOf
  <2>4. \/ pc'[r] = "acquire" /\ resp' = resp
        \/ pc'[r] = "done" /\ resp'[r].code = 404
        BY <2>1, FetchLocal
  <2>5. exec' = exec
        BY <1>3 DEF ReceiveResume, execVars
  <2>6. id \in CreateReqs /\ resp'[id].code = 201
        BY <1>h, AnswersStay, ApiAssumption DEF KnownIds
  <2> QED BY <1>h, <2>2, <2>3, <2>4, <2>5, <2>6 DEF HandlerInv, Session
<1>4. CASE ReceiveStatus(r) \/ ReceiveDelete(r)
  <2>1. PICK p \in Principals, id \in KnownIds :
           /\ Receive(r, CallOf(p, id, 0, "none"))
           /\ Fetch(r, id, p, "render") \/ Fetch(r, id, p, "unlist")
        BY <1>4 DEF ReceiveStatus, ReceiveDelete
  <2>2. r \notin ResumeReqs /\ r \notin CreateReqs
        BY <1>4, Routes DEF ReceiveStatus, ReceiveDelete
  <2>3. pc[r] = "new" /\ call'[r].id = id /\ id \in CreateReqs
        BY <2>1, ReceiveLocal DEF CallOf, KnownIds
  <2>4. \/ pc'[r] \in {"render", "unlist"} /\ resp' = resp
        \/ pc'[r] = "done" /\ resp'[r].code = 404
        BY <2>1, FetchLocal
  <2>5. exec' = exec
        BY <1>4 DEF ReceiveStatus, ReceiveDelete, execVars
  <2> QED BY <1>h, <2>2, <2>3, <2>4, <2>5 DEF HandlerInv, Session
<1>5. CASE RejectMalformed(r)
  <2>1. pc[r] = "new" /\ call'[r].id = NoId
        BY <1>5, ReceiveLocal DEF RejectMalformed, CallOf
  <2>2. pc'[r] = "done" /\ exec' = exec
        BY <1>5, AnswerLocal DEF RejectMalformed, execVars
  <2> QED BY <1>h, <2>1, <2>2, ApiAssumption DEF HandlerInv, Session
<1>6. CASE StartExecution(r)
  <2>1. /\ exec[r].phase = "queued" /\ exec'[r].phase = "running"
        /\ exec'[r].result = exec[r].result
        BY <1>6 DEF StartExecution, Dispatch, TypeOK, ExecutorTypeOK, Execution
  <2>2. pc' = pc /\ call' = call /\ resp' = resp
        BY <1>6 DEF StartExecution, apiVars
  <2> QED BY <1>h, <2>1, <2>2 DEF HandlerInv, Session
<1>7. CASE EndExecution(r)
  <2>1. PICK result \in Results(r) : Finish(r, result, pc[r] = "awaiting")
        BY <1>7 DEF EndExecution
  <2>2. pc' = pc /\ call' = call /\ resp' = resp
        BY <1>7 DEF EndExecution, apiVars
  <2>3. result.status = "mismatch" => r \in ResumeReqs
        BY DEF Results, Bare, StartSession, FinishStep, RunToCompletion
  <2>4. CASE pc[r] = "awaiting"
    <3>1. exec'[r].phase = "finished" /\ exec'[r].result = result
          BY <2>1, <2>4 DEF Finish, Blank, TypeOK, ExecutorTypeOK
    <3> QED BY <1>h, <2>1, <2>2, <2>3, <2>4, <3>1 DEF HandlerInv, Session, Finish
  <2>5. CASE pc[r] # "awaiting"
    <3>1. /\ exec[r].phase = "running" /\ exec'[r].phase = "detached"
          /\ exec'[r].result = NoResult
          BY <2>1, <2>5 DEF Finish, Blank, TypeOK, ExecutorTypeOK
    <3> QED BY <1>h, <1>n, <2>2, <2>5, <3>1 DEF HandlerInv, Session
  <2> QED BY <2>4, <2>5
<1>8. CASE Abandon(r)
  <2>1. pc[r] = "awaiting" /\ pc'[r] = "done" /\ call' = call
        BY <1>8, AnswerLocal DEF Abandon
  <2>2. \/ exec'[r] = exec[r] /\ exec[r].phase = "running"
        \/ exec'[r].phase \in {"idle", "detached"} /\ exec'[r].result = NoResult
        BY <1>8, DropHandlerLocal DEF Abandon, Blank
  <2>3. exec'[r].phase # "idle" => exec[r].phase # "idle"
        BY <1>h, <2>1 DEF HandlerInv
  <2> QED BY <1>h, <1>n, <1>s, <2>1, <2>2, <2>3 DEF HandlerInv, Session
<1>9. CASE WakePanicked(r) \/ FinishRun(r) \/ CompileFailed(r) \/ RestoreProgress(r)
  <2>1. pc'[r] = "done" /\ call' = call
        BY <1>9, AnswerLocal DEF WakePanicked, FinishRun, CompileFailed, RestoreProgress, Wake
  <2>2. /\ exec[r].phase = "finished" /\ exec'[r].phase = "finished"
        /\ exec'[r].result.status = exec[r].result.status
        BY <1>9, TakeResultLocal
        DEF WakePanicked, FinishRun, CompileFailed, RestoreProgress, Wake
  <2> QED BY <1>h, <1>s, <2>1, <2>2 DEF HandlerInv, Session
<1>10. CASE CheckCapacity(r)
  <2>1. /\ r \in CreateReqs /\ r \notin ResumeReqs /\ call' = call
        /\ pc[r] = "awaiting" /\ exec[r].phase = "finished"
        BY <1>10, Routes DEF CheckCapacity, Wake
  <2>2. CASE Answer(r, 503)
    <3>1. pc'[r] = "done"
          BY <2>2, AnswerLocal
    <3>2. exec'[r].phase = "finished" /\ exec'[r].result.status = exec[r].result.status
          BY <1>10, <2>1, TakeResultLocal DEF CheckCapacity, Wake, execVars
    <3> QED BY <1>h, <2>1, <3>1, <3>2 DEF HandlerInv, Session
  <2>3. CASE Goto(r, "insert")
    <3>1. pc'[r] = "insert" /\ resp' = resp
          BY <2>3, GotoLocal
    <3>2. exec' = exec /\ IsStep(exec[r].result)
      <4>1. ~Answer(r, 503)
            BY <3>1, AnswerLocal
      <4> QED BY <1>10, <4>1 DEF CheckCapacity, execVars, IsStep
    <3> QED BY <1>h, <2>1, <3>1, <3>2 DEF HandlerInv, Session
  <2> QED BY <1>10, <2>2, <2>3 DEF CheckCapacity
<1>11. CASE InsertSession(r) \/ RecordStep(r)
  <2>1. \/ r \in CreateReqs /\ pc[r] = "insert" /\ pc'[r] = "fetch"
        \/ r \in ResumeReqs /\ pc[r] = "awaiting" /\ pc'[r] = "render"
        BY <1>11, <1>h, GotoLocal DEF InsertSession, RecordStep, Wake, HandlerInv
  <2>2. call' = call /\ resp' = resp
        BY <1>11, GotoLocal DEF InsertSession, RecordStep, Wake
  <2>3. exec'[r].phase = exec[r].phase /\ exec'[r].result.status = exec[r].result.status
        BY <1>11, TakeResultLocal DEF InsertSession, RecordStep, Wake
  <2>4. exec[r].phase = "finished"
        BY <1>11, <1>h, <1>n DEF InsertSession, RecordStep, Wake, HandlerInv
  <2>5. pc'[r] = "render" => Session(r) \in CreateReqs
        BY <1>h, <2>1, <2>4 DEF HandlerInv
  <2> QED BY <1>h, <2>1, <2>2, <2>3, <2>4, <2>5, Routes DEF HandlerInv, Session
<1>12. CASE FetchCreated(r)
  <2>1. r \in CreateReqs /\ r \notin ResumeReqs /\ Session(r) = r /\ resp[r].code = 0
        BY <1>12, <1>h, Routes DEF FetchCreated, HandlerInv
  <2>2. (pc'[r] = "render" /\ resp' = resp) \/ pc'[r] = "done"
        BY <1>12, GotoLocal, AnswerLocal DEF FetchCreated
  <2>3. exec' = exec /\ call' = call
        BY <1>12 DEF FetchCreated, execVars
  <2> QED BY <1>h, <2>1, <2>2, <2>3 DEF HandlerInv, Session
<1>13. CASE Acquire(r)
  <2>1. r \in ResumeReqs /\ r \notin CreateReqs /\ Session(r) \in CreateReqs
        BY <1>13, <1>h, Routes DEF Acquire, HandlerInv
  <2>2. call' = call /\ pc[r] = "acquire" /\ exec[r].phase = "idle"
        BY <1>13, <1>h DEF Acquire, HandlerInv
  <2>3. CASE Answer(r, 400) \/ Answer(r, 409)
    <3>1. pc'[r] = "done"
          BY <2>3, AnswerLocal
    <3>2. exec' = exec
      <4>1. ~Goto(r, "awaiting")
            BY <3>1, GotoLocal
      <4> QED BY <1>13, <4>1 DEF Acquire, execVars
    <3> QED BY <1>h, <1>s, <2>1, <2>2, <3>1, <3>2 DEF HandlerInv, Session
  <2>4. CASE Submit(r, entry[Session(r)].progress) /\ Goto(r, "awaiting")
    <3>1. pc'[r] = "awaiting" /\ resp' = resp
          BY <2>4, GotoLocal
    <3>2. exec'[r].phase = "queued" /\ exec'[r].result = NoResult
          BY <2>4, SubmitLocal
    <3> QED BY <1>h, <1>n, <1>s, <2>1, <2>2, <3>1, <3>2 DEF HandlerInv, Session
  <2> QED BY <1>13, <2>3, <2>4 DEF Acquire
<1>14. CASE Render(r) \/ DeleteSession(r)
  <2>1. pc'[r] = "done"
        BY <1>14, AnswerLocal, AnswerStepLocal DEF Render, DeleteSession
  <2>2. exec' = exec /\ call' = call
        BY <1>14 DEF Render, DeleteSession, execVars
  <2> QED BY <1>h, <1>s, <2>1, <2>2 DEF HandlerInv, Session
<1> QED
  BY <1>1, <1>2, <1>3, <1>4, <1>5, <1>6, <1>7, <1>8, <1>9, <1>10, <1>11, <1>12, <1>13, <1>14
  DEF HandlerStep, Receiving, Handling, Executing

LEMMA HandlerInit == Init => \A r \in Requests : HandlerInv(r)
BY ApiAssumption
DEF Init, ExecutorInit, HandlerInv, Blank, NoResult, Bare, NoCall, CallOf, NoResponse, Session

LEMMA HandlerNext == IInv /\ [Next]_vars => \A r \in Requests : HandlerInv(r)'
<1> SUFFICES ASSUME IInv, [Next]_vars, NEW q \in Requests PROVE HandlerInv(q)'
    OBVIOUS
<1>1. ASSUME NEW r \in Requests, HandlerStep(r) PROVE HandlerInv(q)'
      BY <1>1, OwnHandlerInv, OthersKeepHandlerInv DEF IInv
<1>2. ASSUME UNCHANGED <<exec, pc, call, resp>> PROVE HandlerInv(q)'
      BY <1>2 DEF IInv, HandlerInv, Session
<1>3. CASE Reaping \/ PassTime \/ UNCHANGED vars
      BY <1>2, <1>3
      DEF Reaping, ReaperWake, ReaperScanned, ReaperVisit, ReaperEvict, PassTime,
          vars, execVars, apiVars
<1> QED BY <1>1, <1>3 DEF Next, HandlerStep

-----------------------------------------------------------------------------
(* At most one execution per session *)

\* A step that puts no resume in flight, and changes only entries without one.
LEMMA NoTakeOff ==
    ASSUME SingleFlight,
           \A id \in CreateReqs : InFlight(id)' \subseteq InFlight(id),
           \A id \in CreateReqs : InFlight(id)' = {} \/ entry'[id] = entry[id]
    PROVE  SingleFlight'
BY DEF SingleFlight, Busy

\* Whether a request counts as in flight.
Flies(r) ==
    \/ exec[r].phase \in {"queued", "running"}
    \/ exec[r].phase = "finished" /\ pc[r] = "awaiting"

LEMMA InFlightAlt ==
    ASSUME NEW id
    PROVE  InFlight(id) = {r \in ResumeReqs : Session(r) = id /\ Flies(r)}
BY DEF InFlight, Flies

\* The other requests of a session are in flight as before.
LEMMA InFlightLocal ==
    ASSUME TypeOK, NEW r \in Requests, HandlerStep(r),
           r \in ResumeReqs /\ Flies(r)' => Flies(r) /\ call'[r] = call[r],
           NEW id \in CreateReqs
    PROVE  InFlight(id)' \subseteq InFlight(id)
<1> SUFFICES ASSUME NEW q \in InFlight(id)' PROVE q \in InFlight(id)
    OBVIOUS
<1>1. q \in ResumeReqs /\ Session(q)' = id /\ Flies(q)'
      BY DEF InFlight, Flies
<1>2. CASE q = r
      BY <1>1, <1>2 DEF InFlight, Flies, Session
<1>3. CASE q # r
  <2>1. pc'[q] = pc[q] /\ call'[q] = call[q] /\ exec'[q] = exec[q]
        BY <1>1, <1>3, StepIsLocal, ApiAssumption DEF OthersUntouched
  <2> QED BY <1>1, <2>1 DEF InFlight, Flies, Session
<1> QED BY <1>2, <1>3

LEMMA SingleFlightInit == Init => SingleFlight
BY ApiAssumption DEF Init, ExecutorInit, Blank, SingleFlight, InFlight

LEMMA SingleFlightNext == IInv /\ [Next]_vars => SingleFlight'
<1> SUFFICES ASSUME IInv, [Next]_vars PROVE SingleFlight'
    OBVIOUS
<1> USE DEF IInv
<1>1. ASSUME NEW r \in Requests, HandlerStep(r), entry' = entry,
             r \in ResumeReqs /\ Flies(r)' => Flies(r) /\ call'[r] = call[r]
      PROVE  SingleFlight'
      BY <1>1, InFlightLocal, NoTakeOff
<1>2. ASSUME NEW r \in Requests, Receiving(r) PROVE SingleFlight'
  <2>1. entry' = entry
        BY <1>2 DEF Receiving, ReceiveCreate, ReceiveRun, ReceiveResume, ReceiveStatus,
                    ReceiveDelete, RejectMalformed, storeVars
  <2>2. CASE ReceiveCreate(r) \/ ReceiveRun(r)
    <3>1. r \notin ResumeReqs
          BY <2>2, Routes DEF ReceiveCreate, ReceiveRun
    <3> QED BY <1>1, <1>2, <2>1, <3>1 DEF HandlerStep
  <2>3. CASE ReceiveResume(r) \/ ReceiveStatus(r) \/ ReceiveDelete(r) \/ RejectMalformed(r)
    <3>1. exec' = exec /\ exec[r].phase = "idle"
          BY <2>3 DEF ReceiveResume, ReceiveStatus, ReceiveDelete, RejectMalformed, Receive,
                      execVars, HandlerInv
    <3>2. ~Flies(r)'
          BY <3>1 DEF Flies
    <3> QED BY <1>1, <1>2, <2>1, <3>2 DEF HandlerStep
  <2> QED BY <1>2, <2>2, <2>3 DEF Receiving
<1>3. ASSUME NEW r \in Requests, Executing(r) PROVE SingleFlight'
  <2>1. entry' = entry /\ pc' = pc /\ call' = call
        BY <1>3 DEF Executing, StartExecution, EndExecution, storeVars, apiVars
  <2>2. exec[r].phase \in {"queued", "running"}
        BY <1>3 DEF Executing, StartExecution, EndExecution, Dispatch, Finish
  <2> QED BY <1>1, <1>3, <2>1, <2>2 DEF HandlerStep, Flies
<1>4. ASSUME NEW r \in Requests, Abandon(r) PROVE SingleFlight'
  <2>1. entry' = entry /\ call' = call
        BY <1>4 DEF Abandon, storeVars
  <2>2. \/ exec'[r] = exec[r] /\ exec[r].phase = "running"
        \/ exec'[r].phase \in {"idle", "detached"}
        BY <1>4, DropHandlerLocal DEF Abandon, Blank
  <2> QED BY <1>1, <1>4, <2>1, <2>2 DEF HandlerStep, Flies
<1>5. ASSUME NEW r \in Requests,
             \/ WakePanicked(r) \/ FinishRun(r) \/ CompileFailed(r) \/ CheckCapacity(r)
             \/ FetchCreated(r) \/ Render(r) \/ DeleteSession(r)
      PROVE  SingleFlight'
  <2>1. entry' = entry /\ call' = call
        BY <1>5 DEF WakePanicked, FinishRun, CompileFailed, CheckCapacity, FetchCreated, Render,
                    DeleteSession, Wake, Unlist, storeVars
  <2>2. exec'[r].phase = exec[r].phase
        BY <1>5, TakeResultLocal
        DEF WakePanicked, FinishRun, CompileFailed, CheckCapacity, FetchCreated, Render,
            DeleteSession, Wake, execVars
  <2>3. pc'[r] # "awaiting"
        BY <1>5, AnswerLocal, AnswerStepLocal, GotoLocal
        DEF WakePanicked, FinishRun, CompileFailed, CheckCapacity, FetchCreated, Render,
            DeleteSession
  <2> QED BY <1>1, <1>5, <2>1, <2>2, <2>3 DEF HandlerStep, Handling, Flies
<1>6. ASSUME NEW r \in Requests, InsertSession(r) PROVE SingleFlight'
  <2>1. pc[r] = "insert" /\ resp[r].code = 0 /\ r \in CreateReqs /\ r \notin ResumeReqs
        BY <1>6, Routes DEF InsertSession, HandlerInv
  <2>2. InFlight(r) = {}
        BY <2>1, ApiAssumption DEF InFlight, HandlerInv
  <2>3. \A id \in CreateReqs : InFlight(id)' \subseteq InFlight(id)
        BY <1>6, <2>1, InFlightLocal DEF HandlerStep, Handling
  <2>4. \A id \in CreateReqs \ {r} : entry'[id] = entry[id]
        BY <1>6 DEF InsertSession, Insert, TypeOK, StoreTypeOK
  <2> QED BY <2>1, <2>2, <2>3, <2>4, NoTakeOff
<1>7. ASSUME NEW r \in Requests, Acquire(r) PROVE SingleFlight'
  <2>1. r \in ResumeReqs /\ Session(r) \in CreateReqs /\ exec[r].phase = "idle"
        BY <1>7 DEF Acquire, HandlerInv
  <2>2. CASE Answer(r, 400) \/ Answer(r, 409)
    <3>1. ~Goto(r, "awaiting")
          BY <2>2, AnswerLocal, GotoLocal
    <3>2. entry' = entry /\ exec' = exec
          BY <1>7, <3>1 DEF Acquire, storeVars, execVars
    <3> QED BY <1>1, <1>7, <2>1, <3>2 DEF HandlerStep, Handling, Flies
  <2>3. CASE /\ Idle(Session(r)) /\ TakeProgress(Session(r))
             /\ Submit(r, entry[Session(r)].progress)
    <3>1. InFlight(Session(r)) = {}
          BY <2>1, <2>3 DEF SingleFlight, Idle, Busy
    <3>2. call' = call
          BY <1>7 DEF Acquire
    <3>3. ASSUME NEW id \in CreateReqs, NEW q \in InFlight(id)'
          PROVE  q \in InFlight(id) \/ (q = r /\ id = Session(r))
      <4>1. q \in ResumeReqs /\ Session(q)' = id /\ Flies(q)'
            BY <3>3 DEF InFlight, Flies
      <4>2. CASE q = r
            BY <3>2, <4>1, <4>2 DEF Session
      <4>3. CASE q # r
        <5>1. pc'[q] = pc[q] /\ exec'[q] = exec[q]
              BY <1>7, <4>1, <4>3, StepIsLocal, ApiAssumption
              DEF OthersUntouched, HandlerStep, Handling
        <5> QED BY <3>2, <4>1, <5>1 DEF InFlight, Flies, Session
      <4> QED BY <4>2, <4>3
    <3>4. \A id \in CreateReqs \ {Session(r)} : entry'[id] = entry[id]
          BY <2>1, <2>3 DEF TakeProgress, TypeOK, StoreTypeOK
    <3>5. Busy(Session(r))'
      <4>1. /\ entry'[Session(r)].progress = NoProgress
            /\ entry'[Session(r)].terminal = entry[Session(r)].terminal
            BY <2>1, <2>3 DEF TakeProgress, TypeOK, StoreTypeOK, SessionEntry
      <4>2. Session(r)' = Session(r)
            BY <3>2 DEF Session
      <4> QED BY <2>3, <4>1, <4>2 DEF Busy, Idle
    <3>6. ASSUME NEW id \in CreateReqs
          PROVE  /\ \A p, q \in InFlight(id)' : p = q
                 /\ InFlight(id)' # {} => Busy(id)'
      <4>1. CASE id = Session(r)
        <5>1. InFlight(id)' \subseteq {r}
              BY <3>1, <3>3, <4>1
        <5>2. Busy(id)'
              BY <2>1, <2>3, <3>5, <4>1 DEF Busy, Idle, TakeProgress, TypeOK, StoreTypeOK, SessionEntry
        <5> QED BY <5>1, <5>2
      <4>2. CASE id # Session(r)
        <5>1. InFlight(id)' \subseteq InFlight(id)
              BY <3>3, <4>2
        <5>2. entry'[id] = entry[id]
              BY <3>4, <4>2
        <5> QED BY <5>1, <5>2 DEF SingleFlight, Busy
      <4> QED BY <4>1, <4>2
    <3> QED BY <3>6 DEF SingleFlight
  <2> QED BY <1>7, <2>2, <2>3 DEF Acquire
<1>8. ASSUME NEW r \in Requests, RecordStep(r) \/ RestoreProgress(r) PROVE SingleFlight'
  <2>1. /\ r \in ResumeReqs /\ pc[r] = "awaiting" /\ exec[r].phase = "finished"
        /\ call' = call /\ TakeResult(r)
        BY <1>8 DEF RecordStep, RestoreProgress, Wake, HandlerInv
  <2>2. Session(r) \in CreateReqs
        BY <2>1 DEF HandlerInv
  <2>3. ~Flies(r)'
    <3>1. exec'[r].phase = "finished"
          BY <2>1, TakeResultLocal
    <3>2. pc'[r] # "awaiting"
          BY <1>8, GotoLocal, AnswerLocal DEF RecordStep, RestoreProgress
    <3> QED BY <3>1, <3>2 DEF Flies
  <2>4. \A id \in CreateReqs : InFlight(id)' \subseteq InFlight(id)
        BY <1>8, <2>3, InFlightLocal DEF HandlerStep, Handling
  <2>5. ASSUME NEW id \in CreateReqs, id = Session(r) PROVE InFlight(id)' = {}
    <3>1. InFlight(id) \subseteq {r}
          BY <2>1, <2>5 DEF SingleFlight, InFlight
    <3>2. r \notin InFlight(id)'
          BY <2>3 DEF InFlight, Flies
    <3> QED BY <2>4, <3>1, <3>2
  <2>6. \A id \in CreateReqs \ {Session(r)} : entry'[id] = entry[id]
        BY <1>8, <2>2 DEF RecordStep, RestoreProgress, StoreStep, Restore, TypeOK, StoreTypeOK
  <2> QED BY <2>4, <2>5, <2>6, NoTakeOff
<1>9. CASE Reaping \/ PassTime \/ UNCHANGED vars
  <2>1. UNCHANGED <<entry, exec, pc, call>>
        BY <1>9
        DEF Reaping, ReaperWake, ReaperScanned, ReaperVisit, ReaperEvict, Unlist, PassTime, Tick,
            vars, storeVars, execVars, apiVars
  <2> QED BY <2>1 DEF SingleFlight, InFlight, Busy, Session
<1> QED
  BY <1>2, <1>3, <1>4, <1>5, <1>6, <1>7, <1>8, <1>9 DEF Next, Handling

-----------------------------------------------------------------------------
(* The capacity of the store *)

Inserting == {r \in Requests : pc[r] = "insert"}

LEMMA CapacityAlt ==
    CapacityInv <=> Cardinality(store) + Cardinality(Inserting) <= MaxSessions + Workers - 1
BY DEF CapacityInv, Inserting

LEMMA CapacityFinite ==
    ASSUME TypeOK
    PROVE  /\ IsFiniteSet(store) /\ Cardinality(store) \in Nat
           /\ IsFiniteSet(Inserting) /\ Cardinality(Inserting) \in Nat
           /\ IsFiniteSet(OnWorker) /\ Cardinality(OnWorker) \in Nat
<1>1. store \subseteq CreateReqs /\ Inserting \subseteq Requests /\ OnWorker \subseteq Requests
      BY DEF TypeOK, StoreTypeOK, Inserting, OnWorker
<1>2. IsFiniteSet(store) /\ IsFiniteSet(Inserting) /\ IsFiniteSet(OnWorker)
      BY <1>1, FS_Subset, StoreAssumption, ExecutorAssumption
<1> QED BY <1>2, FS_CardinalityType

\* A step that adds neither a session nor an insertion to come.
LEMMA CapacityShrinks ==
    ASSUME TypeOK, CapacityInv, store' \subseteq store, Inserting' \subseteq Inserting
    PROVE  CapacityInv'
<1>1. Cardinality(store') <= Cardinality(store) /\ Cardinality(store') \in Nat
      BY CapacityFinite, FS_Subset, FS_CardinalityType
<1>2. Cardinality(Inserting') <= Cardinality(Inserting) /\ Cardinality(Inserting') \in Nat
      BY CapacityFinite, FS_Subset, FS_CardinalityType
<1>3. (Cardinality(store) + Cardinality(Inserting) <= MaxSessions + Workers - 1)'
      BY <1>1, <1>2, CapacityFinite, CapacityAlt, StoreAssumption, ApiAssumption
<1> QED BY <1>3 DEF CapacityInv, Inserting

\* A handler step to anywhere but "insert".
LEMMA NotInserting ==
    ASSUME TypeOK, NEW r \in Requests, HandlerStep(r), pc'[r] # "insert"
    PROVE  Inserting' \subseteq Inserting \ {r}
BY StepIsLocal DEF Inserting, OthersUntouched

LEMMA CapacityInit == Init => CapacityInv
<1> SUFFICES ASSUME Init PROVE CapacityInv
    OBVIOUS
<1>1. store = {} /\ Inserting = {}
      BY DEF Init, StoreInit, Inserting
<1> QED BY <1>1, FS_EmptySet, CapacityAlt, StoreAssumption, ApiAssumption

LEMMA CapacityNext == IInv /\ CapacityInv /\ [Next]_vars => CapacityInv'
<1> SUFFICES ASSUME IInv, CapacityInv, [Next]_vars PROVE CapacityInv'
    OBVIOUS
<1>t. TypeOK
      BY DEF IInv
<1>1. ASSUME NEW r \in Requests, HandlerStep(r), pc'[r] # "insert", store' \subseteq store
      PROVE  CapacityInv'
      BY <1>1, <1>t, NotInserting, CapacityShrinks
<1>2. ASSUME NEW r \in Requests, Receiving(r) PROVE CapacityInv'
  <2>1. store' = store
        BY <1>2 DEF Receiving, ReceiveCreate, ReceiveRun, ReceiveResume, ReceiveStatus,
                    ReceiveDelete, RejectMalformed, storeVars
  <2>2. CASE ReceiveCreate(r) \/ ReceiveRun(r)
    <3>1. pc'[r] # "insert"
          BY <2>2, <1>t, GotoLocal DEF ReceiveCreate, ReceiveRun
    <3> QED BY <1>1, <1>2, <2>1, <3>1 DEF HandlerStep
  <2>3. CASE RejectMalformed(r)
    <3>1. pc'[r] # "insert"
          BY <2>3, <1>t, AnswerLocal DEF RejectMalformed
    <3> QED BY <1>1, <1>2, <2>1, <3>1 DEF HandlerStep
  <2>4. CASE ReceiveResume(r) \/ ReceiveStatus(r) \/ ReceiveDelete(r)
    <3>1. PICK p \in Principals, id \in KnownIds :
             \/ Fetch(r, id, p, "acquire") \/ Fetch(r, id, p, "render") \/ Fetch(r, id, p, "unlist")
          BY <2>4 DEF ReceiveResume, ReceiveStatus, ReceiveDelete
    <3>2. pc'[r] # "insert"
          BY <3>1, <1>t, FetchLocal
    <3> QED BY <1>1, <1>2, <2>1, <3>2 DEF HandlerStep
  <2> QED BY <1>2, <2>2, <2>3, <2>4 DEF Receiving
<1>3. ASSUME NEW r \in Requests, Executing(r) PROVE CapacityInv'
  <2>1. store' = store /\ pc' = pc
        BY <1>3 DEF Executing, StartExecution, EndExecution, storeVars, apiVars
  <2> QED BY <1>t, <2>1, CapacityShrinks DEF Inserting
<1>4. ASSUME NEW r \in Requests,
             \/ WakePanicked(r) \/ FinishRun(r) \/ CompileFailed(r) \/ FetchCreated(r)
             \/ Acquire(r) \/ RecordStep(r) \/ RestoreProgress(r)
             \/ Render(r) \/ DeleteSession(r) \/ Abandon(r)
      PROVE  CapacityInv'
  <2>1. pc'[r] # "insert"
        BY <1>4, <1>t, AnswerLocal, AnswerStepLocal, GotoLocal
        DEF WakePanicked, FinishRun, CompileFailed, FetchCreated, Acquire, RecordStep,
            RestoreProgress, Render, DeleteSession, Abandon
  <2>2. store' \subseteq store
        BY <1>4
        DEF WakePanicked, FinishRun, CompileFailed, FetchCreated, Acquire, RecordStep,
            RestoreProgress, Render, DeleteSession, Abandon, storeVars, TakeProgress,
            StoreStep, Restore, Unlist
  <2> QED BY <1>1, <1>4, <2>1, <2>2 DEF HandlerStep, Handling
<1>5. ASSUME NEW r \in Requests, CheckCapacity(r) PROVE CapacityInv'
  <2>1. store' = store
        BY <1>5 DEF CheckCapacity, storeVars
  <2>2. CASE Answer(r, 503)
    <3>1. pc'[r] # "insert"
          BY <2>2, <1>t, AnswerLocal
    <3> QED BY <1>1, <1>5, <2>1, <3>1 DEF HandlerStep, Handling
  <2>3. CASE ~AtCapacity /\ FreeWorker /\ pc[r] = "awaiting" /\ Goto(r, "insert")
    <3>1. Cardinality(store) <= MaxSessions - 1
          BY <2>3, <1>t, CapacityFinite, StoreAssumption DEF AtCapacity
    <3>2. Cardinality(OnWorker) <= Workers - 1
          BY <2>3, <1>t, CapacityFinite, ApiAssumption DEF FreeWorker
    <3>3. Inserting' \subseteq OnWorker \cup {r}
          BY <1>5, <1>t, StepIsLocal
          DEF Inserting, OnWorker, OthersUntouched, HandlerStep, Handling
    <3>4. Cardinality(Inserting') <= Workers /\ Cardinality(Inserting') \in Nat
      <4>1. r \notin OnWorker
            BY <2>3 DEF OnWorker
      <4>2. Cardinality(OnWorker \cup {r}) = Cardinality(OnWorker) + 1
            BY <1>t, <4>1, CapacityFinite, FS_AddElement
      <4>3. IsFiniteSet(OnWorker \cup {r})
            BY <1>t, CapacityFinite, FS_AddElement
      <4>4. /\ Cardinality(Inserting') <= Cardinality(OnWorker \cup {r})
            /\ Cardinality(Inserting') \in Nat
            BY <3>3, <4>3, FS_Subset, FS_CardinalityType
      <4> QED BY <1>t, <3>2, <4>2, <4>4, CapacityFinite, ApiAssumption
    <3>5. (Cardinality(store) + Cardinality(Inserting) <= MaxSessions + Workers - 1)'
          BY <1>t, <2>1, <3>1, <3>4, CapacityFinite, StoreAssumption, ApiAssumption
    <3> QED BY <3>5 DEF CapacityInv, Inserting
  <2> QED BY <1>5, <2>2, <2>3 DEF CheckCapacity
<1>6. ASSUME NEW r \in Requests, InsertSession(r) PROVE CapacityInv'
  <2>1. r \in Inserting /\ store' = store \cup {r}
        BY <1>6 DEF InsertSession, Insert, Inserting
  <2>2. Inserting' \subseteq Inserting \ {r}
    <3>1. pc'[r] # "insert"
          BY <1>6, <1>t, GotoLocal DEF InsertSession
    <3> QED BY <1>6, <1>t, <3>1, NotInserting DEF HandlerStep, Handling
  <2>3. Cardinality(store') <= Cardinality(store) + 1 /\ Cardinality(store') \in Nat
    <3>1. IsFiniteSet(store) /\ Cardinality(store) \in Nat
          BY <1>t, CapacityFinite
    <3>2. /\ IsFiniteSet(store \cup {r})
          /\ Cardinality(store \cup {r}) = IF r \in store THEN Cardinality(store)
                                                        ELSE Cardinality(store) + 1
          BY <3>1, FS_AddElement
    <3> QED BY <2>1, <3>1, <3>2
  <2>4. /\ Cardinality(Inserting') <= Cardinality(Inserting) - 1
        /\ Cardinality(Inserting') \in Nat
    <3>1. /\ IsFiniteSet(Inserting \ {r})
          /\ Cardinality(Inserting \ {r}) = Cardinality(Inserting) - 1
          BY <1>t, <2>1, CapacityFinite, FS_RemoveElement
    <3> QED BY <2>2, <3>1, FS_Subset, FS_CardinalityType
  <2>5. (Cardinality(store) + Cardinality(Inserting) <= MaxSessions + Workers - 1)'
        BY <1>t, <2>3, <2>4, CapacityFinite, CapacityAlt, StoreAssumption, ApiAssumption
  <2> QED BY <2>5 DEF CapacityInv, Inserting
<1>7. CASE Reaping \/ PassTime \/ UNCHANGED vars
  <2>1. store' \subseteq store /\ pc' = pc
        BY <1>7
        DEF Reaping, ReaperWake, ReaperScanned, ReaperVisit, ReaperEvict, Unlist, PassTime, Tick,
            vars, storeVars, apiVars
  <2> QED BY <1>t, <2>1, CapacityShrinks DEF Inserting
<1> QED
  BY <1>2, <1>3, <1>4, <1>5, <1>6, <1>7 DEF Next, Handling

-----------------------------------------------------------------------------
(* A session is deleted once *)

\* A delete knows its session from an answer, and leaves it off the map for good.
Gone(d) ==
    /\ pc[d] = "unlist" \/ resp[d].code = 204 =>
            Session(d) \in CreateReqs /\ resp[Session(d)].code = 201
    /\ resp[d].code = 204 => pc[d] = "done" /\ Session(d) \notin store

DeletedInv == DeletedOnce /\ \A d \in DeleteReqs : Gone(d)

\* Once received, a request stays what it is.
LEMMA CallStays ==
    ASSUME TypeOK, NEW r \in Requests, HandlerStep(r), NEW q \in Requests, pc[q] # "new"
    PROVE  call'[q] = call[q]
<1>1. CASE q # r
      BY <1>1, StepIsLocal DEF OthersUntouched
<1>2. CASE q = r
  <2>1. ~Receiving(r)
        BY <1>2 DEF Receiving, ReceiveCreate, ReceiveRun, ReceiveResume, ReceiveStatus,
                    ReceiveDelete, RejectMalformed, Receive
  <2> QED BY <1>2, <2>1
          DEF HandlerStep, Handling, WakePanicked, FinishRun, CompileFailed, CheckCapacity,
              InsertSession, FetchCreated, Acquire, RecordStep, RestoreProgress, Render,
              DeleteSession, Wake, Abandon, Executing, StartExecution, EndExecution, apiVars
<1> QED BY <1>1, <1>2

\* Only an insertion adds to the map, and only its own session.
LEMMA StoreGrows ==
    ASSUME NEW r \in Requests, HandlerStep(r), NEW id \in store', id \notin store
    PROVE  id = r /\ pc[r] = "insert"
BY DEF HandlerStep, Receiving, ReceiveCreate, ReceiveRun, ReceiveResume, ReceiveStatus,
       ReceiveDelete, RejectMalformed, Handling, WakePanicked, FinishRun, CompileFailed,
       CheckCapacity, InsertSession, FetchCreated, Acquire, RecordStep, RestoreProgress,
       Render, DeleteSession, Abandon, Executing, StartExecution, EndExecution, storeVars,
       Insert, TakeProgress, StoreStep, Restore, Unlist

\* The answer 204 comes from the removal of a session that was listed.
LEMMA DeleteAnswer ==
    ASSUME TypeOK, NEW r \in Requests, HandlerStep(r), resp[r].code # 204, resp'[r].code = 204
    PROVE  /\ pc[r] = "unlist" /\ Session(r) \in store
           /\ pc'[r] = "done" /\ Session(r) \notin store'
<1>1. ~(ReceiveCreate(r) \/ ReceiveRun(r) \/ RejectMalformed(r))
      BY AnswerLocal, GotoLocal DEF ReceiveCreate, ReceiveRun, RejectMalformed
<1>2. ~(ReceiveResume(r) \/ ReceiveStatus(r) \/ ReceiveDelete(r))
  <2>1. ASSUME NEW id, NEW p, NEW label, Fetch(r, id, p, label) PROVE FALSE
        BY <2>1, FetchLocal
  <2> QED BY <2>1 DEF ReceiveResume, ReceiveStatus, ReceiveDelete
<1>3. ~(Executing(r) \/ Abandon(r))
      BY AnswerLocal DEF Executing, StartExecution, EndExecution, apiVars, Abandon
<1>4. ~(\/ WakePanicked(r) \/ FinishRun(r) \/ CompileFailed(r) \/ CheckCapacity(r)
        \/ InsertSession(r) \/ FetchCreated(r))
      BY AnswerLocal, GotoLocal DEF WakePanicked, FinishRun, CompileFailed, CheckCapacity,
         InsertSession, FetchCreated
<1>5. ~(Acquire(r) \/ RecordStep(r) \/ RestoreProgress(r) \/ Render(r))
      BY AnswerLocal, GotoLocal, AnswerStepLocal
      DEF Acquire, RecordStep, RestoreProgress, Render
<1>6. DeleteSession(r)
      BY <1>1, <1>2, <1>3, <1>4, <1>5 DEF HandlerStep, Receiving, Handling
<1> QED BY <1>6, AnswerLocal DEF DeleteSession, Unlist

\* A delete comes to its removal with a session that clients know.
LEMMA DeleteKnows ==
    ASSUME TypeOK, NEW r \in Requests, HandlerStep(r), pc'[r] = "unlist"
    PROVE  IF pc[r] = "unlist" THEN call'[r] = call[r]
           ELSE Session(r)' \in CreateReqs /\ resp[Session(r)'].code = 201
<1>1. CASE pc[r] = "unlist"
      BY <1>1, CallStays
<1>2. CASE pc[r] # "unlist"
  <2>1. ~(ReceiveCreate(r) \/ ReceiveRun(r) \/ RejectMalformed(r))
        BY AnswerLocal, GotoLocal DEF ReceiveCreate, ReceiveRun, RejectMalformed
  <2>2. ~(ReceiveResume(r) \/ ReceiveStatus(r))
    <3>1. ASSUME NEW id, NEW p, Fetch(r, id, p, "acquire") \/ Fetch(r, id, p, "render")
          PROVE  FALSE
          BY <3>1, FetchLocal
    <3> QED BY <3>1 DEF ReceiveResume, ReceiveStatus
  <2>3. ~(Executing(r) \/ Abandon(r))
        BY <1>2, AnswerLocal DEF Executing, StartExecution, EndExecution, apiVars, Abandon
  <2>4. ~Handling(r)
        BY <1>2, AnswerLocal, GotoLocal, AnswerStepLocal
        DEF Handling, WakePanicked, FinishRun, CompileFailed, CheckCapacity, InsertSession,
            FetchCreated, Acquire, RecordStep, RestoreProgress, Render, DeleteSession
  <2>5. ReceiveDelete(r)
        BY <2>1, <2>2, <2>3, <2>4 DEF HandlerStep, Receiving
  <2>6. PICK p \in Principals, id \in KnownIds : Receive(r, CallOf(p, id, 0, "none"))
        BY <2>5 DEF ReceiveDelete
  <2>7. Session(r)' = id
        BY <2>6, ReceiveLocal DEF Session, CallOf
  <2> QED BY <1>2, <2>7 DEF KnownIds
<1> QED BY <1>1, <1>2

LEMMA DeletedInit == Init => DeletedInv
BY ApiAssumption DEF Init, DeletedInv, DeletedOnce, Gone, NoResponse

\* A delete keeps what it knows, whichever request moves.
LEMMA GoneNext ==
    ASSUME IInv, NEW r \in Requests, HandlerStep(r), NEW d \in DeleteReqs, Gone(d)
    PROVE  Gone(d)'
<1>d. d \in Requests
      BY Routes
<1>t. TypeOK /\ HandlerInv(r) /\ HandlerInv(d)
      BY <1>d DEF IInv
<1>1. ASSUME Session(d) \in CreateReqs, resp[Session(d)].code = 201, call'[d] = call[d]
      PROVE  /\ Session(d)' = Session(d)
             /\ resp'[Session(d)].code = 201
             /\ Session(d) \notin store => Session(d) \notin store'
  <2>1. Session(d) \in Requests /\ HandlerInv(Session(d))
        BY <1>1, Routes DEF IInv
  <2>2. resp'[Session(d)] = resp[Session(d)]
        BY <1>1, <1>t, <2>1, AnswersStay
  <2>3. pc[Session(d)] = "done"
        BY <1>1, <2>1 DEF HandlerInv
  <2>4. ASSUME Session(d) \notin store, Session(d) \in store' PROVE FALSE
        BY <2>3, <2>4, StoreGrows
  <2> QED BY <1>1, <2>2, <2>4 DEF Session
<1>2. CASE d # r
  <2>1. pc'[d] = pc[d] /\ resp'[d] = resp[d] /\ call'[d] = call[d]
        BY <1>2, <1>d, <1>t, StepIsLocal DEF OthersUntouched
  <2> QED BY <1>1, <2>1 DEF Gone
<1>3. CASE d = r /\ resp[d].code = 204
  <2>1. pc[d] = "done" /\ call'[d] = call[d]
        BY <1>d, <1>t, <1>3, CallStays DEF Gone
  <2>2. resp'[d] = resp[d]
        BY <1>d, <1>t, <1>3, AnswersStay
  <2>3. pc'[d] = "done"
    <3>1. Executing(r)
          BY <1>3, <2>1
          DEF HandlerStep, Receiving, ReceiveCreate, ReceiveRun, ReceiveResume, ReceiveStatus,
              ReceiveDelete, RejectMalformed, Receive, Handling, WakePanicked, FinishRun,
              CompileFailed, CheckCapacity, InsertSession, FetchCreated, Acquire, RecordStep,
              RestoreProgress, Render, DeleteSession, Wake, Abandon
    <3> QED BY <2>1, <3>1 DEF Executing, StartExecution, EndExecution, apiVars
  <2> QED BY <1>1, <1>3, <2>1, <2>2, <2>3 DEF Gone
<1>4. CASE d = r /\ resp[d].code # 204 /\ resp'[d].code = 204
  <2>1. /\ pc[d] = "unlist" /\ pc'[d] = "done" /\ Session(d) \notin store'
        BY <1>t, <1>4, DeleteAnswer
  <2>2. call'[d] = call[d]
        BY <1>d, <1>t, <2>1, CallStays
  <2> QED BY <1>1, <2>1, <2>2 DEF Gone
<1>5. CASE d = r /\ resp'[d].code # 204
  <2>1. SUFFICES ASSUME pc'[d] = "unlist"
                 PROVE  Session(d)' \in CreateReqs /\ resp'[Session(d)'].code = 201
        BY <1>5 DEF Gone, Session
  <2>2. CASE pc[d] = "unlist"
        BY <1>t, <1>5, <1>1, <2>1, <2>2, DeleteKnows DEF Gone
  <2>3. CASE pc[d] # "unlist"
    <3>1. Session(d)' \in CreateReqs /\ resp[Session(d)'].code = 201
          BY <1>t, <1>5, <2>1, <2>3, DeleteKnows
    <3>2. Session(d)' \in Requests
          BY <3>1, Routes
    <3> QED BY <1>t, <3>1, <3>2, AnswersStay
  <2> QED BY <2>2, <2>3
<1> QED BY <1>2, <1>3, <1>4, <1>5

LEMMA DeletedNext == IInv /\ DeletedInv /\ [Next]_vars => DeletedInv'
<1> SUFFICES ASSUME IInv, DeletedInv, [Next]_vars PROVE DeletedInv'
    OBVIOUS
<1>t. TypeOK /\ \A q \in Requests : HandlerInv(q)
      BY DEF IInv
<1>1. ASSUME NEW r \in Requests, HandlerStep(r) PROVE DeletedInv'
  <2>1. \A d \in DeleteReqs : Gone(d)'
        BY <1>1, GoneNext DEF DeletedInv
  \* An answer 204 that is new is r's, and takes the session off the map.
  <2>2. ASSUME NEW d \in DeleteReqs, NEW e \in DeleteReqs, d # e,
               resp'[d].code = 204, resp'[e].code = 204, Session(d)' = Session(e)',
               d # r
        PROVE  FALSE
    <3>1. d \in Requests /\ e \in Requests
          BY Routes
    <3>2. resp'[d] = resp[d] /\ call'[d] = call[d]
          BY <1>1, <1>t, <2>2, <3>1, StepIsLocal DEF OthersUntouched
    <3>3. Session(d) \notin store /\ Gone(e) /\ Session(d)' = Session(d)
          BY <2>2, <3>2 DEF DeletedInv, Gone, Session
    <3>4. CASE resp[e].code = 204
      <4>1. call'[e] = call[e]
            BY <1>1, <1>t, <3>1, <3>3, <3>4, CallStays DEF Gone
      <4> QED BY <2>2, <3>2, <3>3, <3>4, <4>1 DEF DeletedInv, DeletedOnce, Session
    <3>5. CASE resp[e].code # 204
      <4>1. e = r
            BY <1>1, <1>t, <2>2, <3>1, <3>5, StepIsLocal DEF OthersUntouched
      <4>2. pc[e] = "unlist" /\ Session(e) \in store
            BY <1>1, <1>t, <2>2, <3>5, <4>1, DeleteAnswer
      <4>3. call'[e] = call[e]
            BY <1>1, <1>t, <3>1, <4>2, CallStays
      <4> QED BY <2>2, <3>3, <4>2, <4>3 DEF Session
    <3> QED BY <3>4, <3>5
  <2>3. DeletedOnce'
    <3> SUFFICES ASSUME NEW d \in DeleteReqs, NEW e \in DeleteReqs, d # e,
                        resp'[d].code = 204, resp'[e].code = 204, Session(d)' = Session(e)'
                 PROVE  FALSE
        BY DEF DeletedOnce
    <3> QED BY <2>2
  <2> QED BY <2>1, <2>3 DEF DeletedInv
<1>2. CASE Reaping \/ PassTime \/ UNCHANGED vars
  <2>1. store' \subseteq store /\ pc' = pc /\ call' = call /\ resp' = resp
    <3>1. CASE Reaping
          BY <3>1 DEF Reaping, ReaperWake, ReaperScanned, ReaperVisit, ReaperEvict, Unlist,
                      storeVars
    <3>2. CASE PassTime
          BY <3>2 DEF PassTime, Tick, apiVars
    <3>3. CASE UNCHANGED vars
          BY <3>3 DEF vars, storeVars, apiVars
    <3> QED BY <1>2, <3>1, <3>2, <3>3
  <2>2. DeletedOnce'
        BY <2>1 DEF DeletedInv, DeletedOnce, Session
  <2>3. \A d \in DeleteReqs : Gone(d)'
        BY <2>1 DEF DeletedInv, Gone, Session
  <2> QED BY <2>2, <2>3 DEF DeletedInv
<1> QED BY <1>1, <1>2 DEF Next, HandlerStep

-----------------------------------------------------------------------------
(* The theorems *)

\* The inductive invariant holds in every reachable state.
THEOREM Invariance == Spec => []IInv
<1>1. Init => IInv
      BY TypeInit, PermitsInit, HandlerInit, SingleFlightInit DEF IInv
<1>2. IInv /\ [Next]_vars => IInv'
      BY TypeNext, PermitsNext, HandlerNext, SingleFlightNext DEF IInv
<1> QED BY <1>1, <1>2, PTL DEF Spec

\* Every variable keeps its type: permits stay between 0 and max_concurrency,
\* and no handler acts on a session it did not find (the whole service).
THEOREM TypeCorrectness == Spec => []TypeOK
<1>1. IInv => TypeOK
      BY DEF IInv
<1> QED BY <1>1, Invariance, PTL

\* However many executions panic, time out or lose their client, every permit
\* is free or held by a running execution (spawn_execution).
THEOREM PermitsConserved == Spec => []PermitConservation
<1>1. IInv => PermitConservation
      BY DEF IInv
<1> QED BY <1>1, Invariance, PTL

\* No two executions ever step the same program, and a session with one in
\* flight offers no progress to another (acquire_for_resume, store_step).
THEOREM OneExecutionPerSession == Spec => []SingleFlight
<1>1. IInv => SingleFlight
      BY DEF IInv
<1> QED BY <1>1, Invariance, PTL

\* The inductive form of the capacity bound: insertions to come are counted in
\* (SessionStore::create).
THEOREM CapacityInvariance == Spec => []CapacityInv
<1>1. Init => CapacityInv
      BY CapacityInit
<1>2. IInv /\ CapacityInv /\ [Next]_vars => CapacityInv'
      BY CapacityNext
<1> QED BY <1>1, <1>2, Invariance, PTL DEF Spec

\* However deletes and the reaper race for a session, one delete at most is
\* told that it deleted it (SessionStore::remove).
THEOREM DeletionsUnique == Spec => []DeletedOnce
<1>1. IInv /\ DeletedInv /\ [Next]_vars => DeletedInv'
      BY DeletedNext
<1>2. DeletedInv => DeletedOnce
      BY DEF DeletedInv
<1> QED BY <1>1, <1>2, DeletedInit, Invariance, PTL DEF Spec

\* The store never holds more than max_sessions + workers - 1 sessions: a worker
\* that has passed the capacity check has at most its one insertion to come
\* (SessionStore::create).
THEOREM CapacityBounded == Spec => []CapacityOvershootBound
<1>1. IInv /\ CapacityInv => CapacityOvershootBound
  <2> SUFFICES ASSUME IInv, CapacityInv PROVE CapacityOvershootBound
      OBVIOUS
  <2>1. TypeOK
        BY DEF IInv
  <2> QED BY <2>1, CapacityFinite, CapacityAlt, StoreAssumption, ApiAssumption
          DEF CapacityOvershootBound
<1> QED BY <1>1, Invariance, CapacityInvariance, PTL

\* On a runtime with a single worker the promise of SessionStore::new is kept ("holds
\* at most `max_sessions` sessions"): no other handler runs between the capacity
\* check and the insertion of a create.
THEOREM CapacityOnOneWorker == Workers = 1 => (Spec => []CapacityRespected)
<1> SUFFICES ASSUME Workers = 1 PROVE Spec => []CapacityRespected
    OBVIOUS
<1>1. CapacityOvershootBound => CapacityRespected
  BY StoreAssumption DEF CapacityOvershootBound, CapacityRespected
<1> QED BY <1>1, CapacityBounded, PTL
=============================================================================
