----------------------------- MODULE SessionApi -----------------------------
(***************************************************************************)
(* The session service: the HTTP handlers of src/api/sessions.rs (and      *)
(* the stateless run/compile handlers, which only compete for permits),    *)
(* the executor they await, the store they share and the background reaper *)
(* of src/main.rs, all interleaved.                                        *)
(*                                                                         *)
(* A request is one handler invocation.  Between two awaits a handler runs *)
(* on a worker thread of the runtime, and other threads interleave with it *)
(* at every access to shared state, so each such access is an action.      *)
(* `pc` says which access comes next.  While it awaits its execution a     *)
(* handler occupies no worker, and its future may be dropped.              *)
(*                                                                         *)
(* As in SessionStore, definitions commented as faulty are not part of the *)
(* specification.                                                          *)
(***************************************************************************)
EXTENDS SessionStore, Executor

CONSTANTS RunReqs,        \* requests for POST /v1/run and POST /v1/compile
          ResumeReqs,     \* requests for the other routes of a session
          StatusReqs,
          DeleteReqs,
          RequestedTtls,  \* values of ttl_seconds clients send, NoTtl for none
          Workers         \* worker threads of the tokio runtime

\* The session of a request that names none.
NoId == "none"

ASSUME ApiAssumption ==
    /\ Requests = CreateReqs \cup RunReqs \cup ResumeReqs \cup StatusReqs \cup DeleteReqs
    /\ CreateReqs \cap (RunReqs \cup ResumeReqs \cup StatusReqs \cup DeleteReqs) = {}
    /\ RunReqs \cap (ResumeReqs \cup StatusReqs \cup DeleteReqs) = {}
    /\ ResumeReqs \cap (StatusReqs \cup DeleteReqs) = {}
    /\ NoId \notin CreateReqs
    /\ RequestedTtls \subseteq Nat \cup {NoTtl}
    /\ Workers \in Nat \ {0}

VARIABLES pc,       \* where each handler is
          call,     \* the caller and content of each request
          resp,     \* the answer to each request
          reaper    \* the reaper task

apiVars == <<pc, call, resp, reaper>>

vars == <<storeVars, execVars, apiVars>>

Call == [caller: Principals \cup {Nobody},
         id: CreateReqs \cup {NoId},
         ttl: Nat,
         input: Inputs \cup {"none"}]

CallOf(p, id, ttl, input) == [caller |-> p, id |-> id, ttl |-> ttl, input |-> input]

NoCall == CallOf(Nobody, NoId, 0, "none")

\* new       not received yet
\* acquire   resume: entry fetched, about to take its progress
\* awaiting  create, run, resume: awaiting spawn_execution
\* insert    create: capacity checked, about to insert
\* fetch     create: inserted, about to fetch the entry again
\* render    entry in hand, about to lock and render it
\* unlist    delete: ownership checked, about to remove
\* done      answered, or dropped
PC == {"new", "acquire", "awaiting", "insert", "fetch", "render", "unlist", "done"}

\* HTTP statuses; 0 before the answer.  408 is a request whose future was
\* dropped: by the timeout layer, or because the client went away.
Code == {0, 200, 201, 204, 400, 404, 408, 409, 500, 503}

\* `seq` is the step a SessionView shows, 0 in answers that show none.
Response == [code: Code, seq: Nat]

NoResponse == [code |-> 0, seq |-> 0]

Reaper == [phase: {"sleep", "scan", "sweep"}, now: Nat,
           unseen: SUBSET CreateReqs, doomed: SUBSET CreateReqs]

Asleep == [phase |-> "sleep", now |-> 0, unseen |-> {}, doomed |-> {}]

TypeOK ==
    /\ StoreTypeOK
    /\ ExecutorTypeOK
    /\ pc \in [Requests -> PC]
    /\ call \in [Requests -> Call]
    /\ resp \in [Requests -> Response]
    /\ reaper \in Reaper

Init ==
    /\ StoreInit
    /\ ExecutorInit
    /\ pc = [r \in Requests |-> "new"]
    /\ call = [r \in Requests |-> NoCall]
    /\ resp = [r \in Requests |-> NoResponse]
    /\ reaper = Asleep

-----------------------------------------------------------------------------
(* Helpers *)

\* Handlers between two accesses of one poll.
OnWorker == {r \in Requests : pc[r] \in {"acquire", "insert", "fetch", "render", "unlist"}}

\* A worker thread is free to poll a future across more than one action.
FreeWorker ==
    Cardinality(OnWorker) + (IF reaper.phase = "sleep" THEN 0 ELSE 1) < Workers

Goto(r, label) == pc' = [pc EXCEPT ![r] = label] /\ UNCHANGED resp

AnswerStep(r, code, seq) ==
    /\ pc' = [pc EXCEPT ![r] = "done"]
    /\ resp' = [resp EXCEPT ![r] = [code |-> code, seq |-> seq]]

Answer(r, code) == AnswerStep(r, code, 0)

\* The ids clients know: those a create request was answered with.
KnownIds == {id \in CreateReqs : resp[id].code = 201}

\* The session of a request.
Session(r) == call[r].id

-----------------------------------------------------------------------------
(* Requests arrive.  One poll validates the body and goes on to the first  *)
(* access of shared state.                                                 *)

Receive(r, content) ==
    /\ pc[r] = "new"
    /\ call' = [call EXCEPT ![r] = content]

\* create, up to its await.
ReceiveCreate(r) ==
    /\ r \in CreateReqs
    /\ \E p \in Principals, ttl \in RequestedTtls :
          Receive(r, CallOf(p, r, ResolveTtl(ttl), "none"))
    /\ Submit(r, NoProgress)
    /\ Goto(r, "awaiting")
    /\ UNCHANGED <<storeVars, reaper>>

\* run and compile, up to their await.
ReceiveRun(r) ==
    /\ r \in RunReqs
    /\ \E p \in Principals : Receive(r, CallOf(p, NoId, 0, "none"))
    /\ Submit(r, NoProgress)
    /\ Goto(r, "awaiting")
    /\ UNCHANGED <<storeVars, reaper>>

\* SessionStore::get: go on with the entry, or answer 404.
Fetch(r, id, p, label) ==
    \/ Visible(id, p) /\ FreeWorker /\ Goto(r, label)
    \/ ~Visible(id, p) /\ Answer(r, 404)

\* resume, up to the lock of the fetched entry.
ReceiveResume(r) ==
    /\ r \in ResumeReqs
    /\ \E p \in Principals, id \in KnownIds, input \in Inputs :
          /\ Receive(r, CallOf(p, id, 0, input))
          /\ Fetch(r, id, p, "acquire")
    /\ UNCHANGED <<storeVars, execVars, reaper>>

\* status, up to the lock of the fetched entry.
ReceiveStatus(r) ==
    /\ r \in StatusReqs
    /\ \E p \in Principals, id \in KnownIds :
          /\ Receive(r, CallOf(p, id, 0, "none"))
          /\ Fetch(r, id, p, "render")
    /\ UNCHANGED <<storeVars, execVars, reaper>>

\* delete, up to the removal: the ownership test of SessionStore::remove.
ReceiveDelete(r) ==
    /\ r \in DeleteReqs
    /\ \E p \in Principals, id \in KnownIds :
          /\ Receive(r, CallOf(p, id, 0, "none"))
          /\ Fetch(r, id, p, "unlist")
    /\ UNCHANGED <<storeVars, execVars, reaper>>

\* A body that does not deserialize, or that into_spec or into_input refuses,
\* is answered before anything is looked up.
RejectMalformed(r) ==
    /\ r \in CreateReqs \cup RunReqs \cup ResumeReqs
    /\ \E p \in Principals : Receive(r, CallOf(p, NoId, 0, "none"))
    /\ Answer(r, 400)
    /\ UNCHANGED <<storeVars, execVars, reaper>>

-----------------------------------------------------------------------------
(* The execution a handler awaits. *)

\* A permit is granted and the closure starts on the blocking pool.
StartExecution(r) ==
    /\ Dispatch(r)
    /\ UNCHANGED <<storeVars, apiVars>>

Results(r) ==
    {Bare("panicked")} \cup
    CASE r \in CreateReqs -> StartSession
      [] r \in ResumeReqs -> ResumeSession(exec[r].progress, call[r].input)
      [] OTHER            -> RunToCompletion

\* The closure returns, or panics.
EndExecution(r) ==
    /\ \E result \in Results(r) : Finish(r, result, pc[r] = "awaiting")
    /\ UNCHANGED <<storeVars, apiVars>>

\* The request timeout fires, or the client disconnects, at the await: the
\* handler's future is dropped with everything it owns.
\* (Faulty: only the wait for a permit is bounded.)
AbandonQueued(r) ==
    /\ pc[r] = "awaiting"
    /\ exec[r].phase = "queued"
    /\ DropHandler(r)
    /\ Answer(r, 408)
    /\ UNCHANGED <<storeVars, call, reaper>>

Abandon(r) ==
    /\ pc[r] = "awaiting"
    /\ DropHandler(r)
    /\ Answer(r, 408)
    /\ UNCHANGED <<storeVars, call, reaper>>

\* The handler is polled again with the result of its execution.
Wake(r, statuses) ==
    /\ pc[r] = "awaiting"
    /\ exec[r].phase = "finished"
    /\ exec[r].result.status \in statuses
    /\ TakeResult(r)
    /\ UNCHANGED call

WakePanicked(r) ==
    /\ Wake(r, {"panicked"})
    /\ Answer(r, 500)
    /\ UNCHANGED <<storeVars, reaper>>

-----------------------------------------------------------------------------
(* run, compile, create after the await *)

FinishRun(r) ==
    /\ Wake(r, {"ran"})
    /\ Answer(r, 200)
    /\ UNCHANGED <<storeVars, reaper>>

CompileFailed(r) ==
    /\ Wake(r, {"compile_error"})
    /\ Answer(r, 200)
    /\ UNCHANGED <<storeVars, reaper>>

\* SessionStore::create: the capacity check.
CheckCapacity(r) ==
    /\ r \in CreateReqs
    /\ \/ AtCapacity /\ Wake(r, StepStatus) /\ Answer(r, 503)
       \/ /\ ~AtCapacity /\ FreeWorker
          /\ pc[r] = "awaiting"
          /\ exec[r].phase = "finished"
          /\ exec[r].result.status \in StepStatus
          /\ Goto(r, "insert")
          /\ UNCHANGED <<execVars, call>>
    /\ UNCHANGED <<storeVars, reaper>>

\* SessionStore::create: the insertion.  A scan of the map under way may or
\* may not come across the new entry.
InsertSession(r) ==
    /\ pc[r] = "insert"
    /\ Insert(r, call[r].caller, call[r].ttl, exec[r].result)
    /\ TakeResult(r)
    /\ Goto(r, "fetch")
    /\ \/ UNCHANGED reaper
       \/ /\ reaper.phase = "scan"
          /\ reaper' = [reaper EXCEPT !.unseen = @ \cup {r}]
    /\ UNCHANGED call

\* create looks its session up again, and fails if the reaper was faster.
FetchCreated(r) ==
    /\ pc[r] = "fetch"
    /\ \/ Visible(r, call[r].caller) /\ Goto(r, "render")
       \/ ~Visible(r, call[r].caller) /\ Answer(r, 500)
    /\ UNCHANGED <<storeVars, execVars, call, reaper>>

-----------------------------------------------------------------------------
(* resume *)

\* acquire_for_resume under the entry lock, then spawn_execution.
Acquire(r) ==
    /\ pc[r] = "acquire"
    /\ \/ /\ Finished(Session(r))
          /\ Answer(r, 400)
          /\ UNCHANGED <<storeVars, execVars>>
       \/ /\ Busy(Session(r))
          /\ Answer(r, 409)
          /\ UNCHANGED <<storeVars, execVars>>
       \/ /\ Idle(Session(r))
          /\ TakeProgress(Session(r))
          /\ Submit(r, entry[Session(r)].progress)
          /\ Goto(r, "awaiting")
    /\ UNCHANGED <<call, reaper>>

\* ResumeResult::Stepped: store_step under the entry lock.
RecordStep(r) ==
    /\ r \in ResumeReqs
    /\ FreeWorker
    /\ Wake(r, StepStatus)
    /\ StoreStep(Session(r), exec[r].result)
    /\ Goto(r, "render")
    /\ UNCHANGED reaper

\* ResumeResult::Mismatch: restore under the entry lock, and 400.
RestoreProgress(r) ==
    /\ Wake(r, {"mismatch"})
    /\ Restore(Session(r), exec[r].result.progress)
    /\ Answer(r, 400)
    /\ UNCHANGED reaper

-----------------------------------------------------------------------------
(* status, delete, and the last section of create and resume *)

\* render under the entry lock: a paused snapshot can be shown only while the
\* progress is there too.
Renderable(id) ==
    entry[id].snapshot.status = "paused" => entry[id].progress # NoProgress

Render(r) ==
    /\ pc[r] = "render"
    /\ \/ /\ Renderable(Session(r))
          /\ AnswerStep(r, IF r \in CreateReqs THEN 201 ELSE 200,
                        entry[Session(r)].snapshot.seq)
       \/ /\ ~Renderable(Session(r))
          /\ Answer(r, 500)
    /\ UNCHANGED <<storeVars, execVars, call, reaper>>

\* SessionStore::remove: whoever takes the id off the map has deleted it.
\* (Faulty: the ownership test decides the answer.)
DeleteOwned(r) ==
    /\ pc[r] = "unlist"
    /\ Unlist(Session(r))
    /\ Answer(r, 204)
    /\ UNCHANGED <<execVars, call, reaper>>

DeleteSession(r) ==
    /\ pc[r] = "unlist"
    /\ Unlist(Session(r))
    /\ Answer(r, IF Session(r) \in store THEN 204 ELSE 404)
    /\ UNCHANGED <<execVars, call, reaper>>

-----------------------------------------------------------------------------
(* The reaper: it reads the clock once, collects the expired ids, then     *)
(* removes them without a second look.                                     *)

ReaperWake ==
    /\ reaper.phase = "sleep"
    /\ FreeWorker
    /\ reaper' = [phase |-> "scan", now |-> clock, unseen |-> store, doomed |-> {}]
    /\ UNCHANGED <<storeVars, execVars, pc, call, resp>>

\* (Faulty: a session without progress is taken for a busy one and spared.)
ReaperVisitSparing(id) ==
    /\ reaper.phase = "scan"
    /\ id \in reaper.unseen
    /\ reaper' = [reaper EXCEPT
                    !.unseen = @ \ {id},
                    !.doomed = IF id \in store /\ ~Busy(id) /\ ExpiredAt(id, reaper.now)
                               THEN @ \cup {id} ELSE @]
    /\ UNCHANGED <<storeVars, execVars, pc, call, resp>>

\* (Faulty: what will have expired by the next round is evicted right away.)
ReaperVisitEarly(id) ==
    /\ reaper.phase = "scan"
    /\ id \in reaper.unseen
    /\ reaper' = [reaper EXCEPT
                    !.unseen = @ \ {id},
                    !.doomed = IF id \in store /\ ExpiredAt(id, reaper.now + 1)
                               THEN @ \cup {id} ELSE @]
    /\ UNCHANGED <<storeVars, execVars, pc, call, resp>>

ReaperVisit(id) ==
    /\ reaper.phase = "scan"
    /\ id \in reaper.unseen
    /\ reaper' = [reaper EXCEPT
                    !.unseen = @ \ {id},
                    !.doomed = IF id \in store /\ ExpiredAt(id, reaper.now)
                               THEN @ \cup {id} ELSE @]
    /\ UNCHANGED <<storeVars, execVars, pc, call, resp>>

ReaperScanned ==
    /\ reaper.phase = "scan"
    /\ reaper.unseen = {}
    /\ reaper' = IF reaper.doomed = {} THEN Asleep ELSE [reaper EXCEPT !.phase = "sweep"]
    /\ UNCHANGED <<storeVars, execVars, pc, call, resp>>

ReaperEvict(id) ==
    /\ reaper.phase = "sweep"
    /\ id \in reaper.doomed
    /\ Unlist(id)
    /\ reaper' = IF reaper.doomed = {id} THEN Asleep
                 ELSE [reaper EXCEPT !.doomed = @ \ {id}]
    /\ UNCHANGED <<execVars, pc, call, resp>>

-----------------------------------------------------------------------------

Receiving(r) ==
    \/ ReceiveCreate(r) \/ ReceiveRun(r) \/ ReceiveResume(r)
    \/ ReceiveStatus(r) \/ ReceiveDelete(r) \/ RejectMalformed(r)

\* The steps of a handler that needs no more input.
Handling(r) ==
    \/ WakePanicked(r) \/ FinishRun(r) \/ CompileFailed(r)
    \/ CheckCapacity(r) \/ InsertSession(r) \/ FetchCreated(r)
    \/ Acquire(r) \/ RecordStep(r) \/ RestoreProgress(r)
    \/ Render(r) \/ DeleteSession(r)

Executing(r) == StartExecution(r) \/ EndExecution(r)

Reaping ==
    \/ ReaperWake
    \/ ReaperScanned
    \/ \E id \in CreateReqs : ReaperVisit(id) \/ ReaperEvict(id)

PassTime == Tick /\ UNCHANGED <<execVars, apiVars>>

Next ==
    \/ \E r \in Requests : Receiving(r) \/ Handling(r) \/ Executing(r) \/ Abandon(r)
    \/ Reaping
    \/ PassTime

Spec == Init /\ [][Next]_vars

\* Time passes; the interval timer wakes the reaper, which then runs to its
\* end; a handler on a worker keeps running; the timeout layer's timer drops
\* a handler that awaits for too long.  Nothing is assumed of executions: a
\* program may run for as long as it likes.
Fairness ==
    /\ WF_vars(PassTime)
    /\ WF_vars(Reaping)
    /\ \A r \in Requests : WF_vars(Handling(r)) /\ WF_vars(Abandon(r))

FairSpec == Spec /\ Fairness

-----------------------------------------------------------------------------
(* What a session's callers rely on *)

\* The resumes of a session that are with the executor or back from it but not
\* yet recorded.  One whose handler is gone counts while it still runs.
InFlight(id) ==
    {r \in ResumeReqs :
        /\ Session(r) = id
        /\ \/ exec[r].phase \in {"queued", "running"}
           \/ exec[r].phase = "finished" /\ pc[r] = "awaiting"}

\* A program is stepped by one execution at a time, and its entry offers no
\* progress while one is about: resumes are serialized although the entry lock
\* is not held across the execution (acquire_for_resume takes the progress out).
SingleFlight ==
    \A id \in CreateReqs :
        /\ \A q, r \in InFlight(id) : q = r
        /\ InFlight(id) # {} => Busy(id)

\* The recorded steps of a session are 1, 2, 3, ... and end with the first one
\* that does not pause: no step is lost, repeated or recorded over a later one
\* (store_step is called long after acquire_for_resume).
StepsAreSequential ==
    [][\A id \in CreateReqs :
         entry'[id].snapshot # entry[id].snapshot =>
            /\ ~entry[id].terminal
            /\ entry'[id].snapshot.seq = entry[id].snapshot.seq + 1]_vars

\* A resume answered 200 shows its own step or a later one, never an older one
\* (the handler lets go of the entry between store_step and render).
ReadYourStep ==
    \A r \in ResumeReqs : resp[r].code = 200 => resp[r].seq >= exec[r].result.seq

\* A listed session that is neither finished nor resumable, with no resume in
\* flight: its program is gone.
Stranded(id) == id \in store /\ Busy(id) /\ InFlight(id) = {}

\* A program is lost only with a resume of it that timed out, lost its client
\* or panicked; every other path puts the session back into a resumable or
\* finished state (store_step or restore, after acquire_for_resume).
StrandedOnlyByLoss ==
    \A id \in CreateReqs : Stranded(id) =>
        \E r \in ResumeReqs :
            /\ Session(r) = id
            /\ resp[r].code = 408 \/ exec[r].result.status = "panicked"

\* Of several deletes of one session, at most one is answered 204, however
\* they and the reaper interleave (SessionStore::remove).
DeletedOnce ==
    \A d, e \in DeleteReqs :
        /\ resp[d].code = 204 /\ resp[e].code = 204
        /\ Session(d) = Session(e)
        => d = e

\* Once a create has inserted its session, it is answered 500 only if the session
\* expired before it could be shown: between the insertion and the answer nobody
\* but the reaper can take the session away, and only for its age, and nobody can
\* take its program out (create looks its own session up again).
CreateLostOnlyExpired ==
    \A c \in CreateReqs : resp[c].code = 500 /\ entry[c] # Unborn => ExpiredAt(c, clock)

\* Whoever does not own a session learns no more than that it is not found
\* (SessionStore::get and remove).
Isolation ==
    \A r \in ResumeReqs \cup StatusReqs \cup DeleteReqs :
        Session(r) # NoId /\ resp[r].code \notin {0, 404} =>
            call[r].caller = entry[Session(r)].principal

-----------------------------------------------------------------------------
(* What the server relies on *)

\* The store outgrows max_sessions by less than the number of workers: the
\* capacity check and the insertion are two steps, but no await separates them.
CapacityOvershootBound == Cardinality(store) <= MaxSessions + Workers - 1

\* Every permit is either free or held by a running execution, also when
\* executions panic or lose their handler: the number of executions never
\* exceeds max_concurrency and no permit leaks (spawn_execution).
PermitConservation == permits + Cardinality(Running) = MaxConcurrency

\* Every request is answered or dropped, however long executions run: nothing
\* but an await bounded by the timeout layer can block a handler.
EveryRequestAnswered ==
    \A r \in Requests : (pc[r] # "new") ~> (pc[r] = "done")

\* An expired session is evicted or renewed, stranded ones included, so an
\* abandoned client leaks no memory (spawn_reaper).
ExpiredEventuallyReaped ==
    \A id \in CreateReqs :
        (id \in store /\ ExpiredAt(id, clock)) ~> (id \notin store \/ ~ExpiredAt(id, clock))

-----------------------------------------------------------------------------
(* The inductive invariant behind the safety properties *)

\* What holds of a handler at each place: which routes get there, that it then
\* has a session its caller was told of, and what its execution came to.
HandlerInv(r) ==
    /\ pc[r] \in {"acquire", "render", "unlist"} => Session(r) \in CreateReqs
    /\ pc[r] = "acquire" => r \in ResumeReqs
    /\ pc[r] \in {"insert", "fetch"} => r \in CreateReqs
    /\ pc[r] = "insert" => IsStep(exec[r].result)
    /\ pc[r] \in {"new", "acquire"} => exec[r].phase = "idle"
    /\ pc[r] = "awaiting" => exec[r].phase \in {"queued", "running", "finished"}
    /\ resp[r].code # 0 => pc[r] = "done"
    /\ r \in CreateReqs /\ pc[r] \in {"awaiting", "insert", "fetch"} => Session(r) = r
    /\ r \in ResumeReqs /\ exec[r].phase # "idle" => Session(r) \in CreateReqs
    /\ r \in ResumeReqs /\ Session(r) \in CreateReqs => resp[Session(r)].code = 201
    /\ exec[r].phase # "finished" => exec[r].result = NoResult
    /\ exec[r].result.status = "mismatch" => r \in ResumeReqs

\* TypeOK needs the conservation of permits (a permit comes back only if one is
\* out) and the places of the handlers; SingleFlight needs that nobody resumes
\* a session whose id was not handed out yet.
IInv ==
    /\ TypeOK
    /\ PermitConservation
    /\ \A r \in Requests : HandlerInv(r)
    /\ SingleFlight

\* A step and the progress it hands back belong together.
WellFormed(step) ==
    IF step.status = "paused"
    THEN step.progress \in RunProgress /\ step.progress.seq = step.seq
    ELSE step.progress = NoProgress

\* An entry is unborn until its creator inserts it; then it shows its latest
\* step, and any progress in it is the one that step handed back.
EntryInv(id) ==
    /\ entry[id] = Unborn <=> entry[id].snapshot.status = "none"
    /\ entry[id].terminal <=> entry[id].snapshot.status \in {"completed", "failed"}
    /\ entry[id].progress # NoProgress =>
          /\ entry[id].snapshot.status = "paused"
          /\ entry[id].progress.seq = entry[id].snapshot.seq
    /\ pc[id] \in {"new", "awaiting", "insert"} => entry[id] = Unborn
    /\ entry[id] = Unborn =>
          id \notin store /\ pc[id] \notin {"fetch", "render"} /\ resp[id].code # 201

\* What a create is about to insert is a first step.
CreateInv(r) ==
    pc[r] \in {"awaiting", "insert"} /\ IsStep(exec[r].result) =>
        WellFormed(exec[r].result) /\ exec[r].result.seq = 1

\* A resume in flight has the progress of the session's latest step, and comes
\* back with it or with the next step; only its handler's loss cuts it off.
FlightInv(r) ==
    LET latest == entry[Session(r)].snapshot.seq
        result == exec[r].result
    IN  /\ exec[r].phase \in {"queued", "running"} =>
              /\ exec[r].progress \in RunProgress /\ exec[r].progress.seq = latest
              /\ pc[r] = "awaiting" \/ resp[r].code = 408
        /\ pc[r] = "awaiting" /\ exec[r].phase = "finished" =>
              /\ IsStep(result) \/ result.status \in {"mismatch", "panicked"}
              /\ IsStep(result) => WellFormed(result) /\ result.seq = latest + 1
              /\ result.status = "mismatch" =>
                    result.progress \in RunProgress /\ result.progress.seq = latest
        /\ pc[r] = "render" \/ resp[r].code = 200 => exec[r].phase = "finished"
        /\ pc[r] = "render" => result.seq <= latest
        /\ resp[r].code = 200 => result.seq <= resp[r].seq

\* The session of a request was handed out before; past its lookup the request
\* is its owner's.
OwnerInv(r) ==
    Session(r) # NoId =>
        /\ resp[Session(r)].code = 201
        /\ pc[r] \notin {"new", "done"} \/ resp[r].code \notin {0, 404} =>
              call[r].caller = entry[Session(r)].principal

\* A session without a program and without a resume in flight has lost it to
\* one, whether it is still listed or not.
LossInv(id) ==
    entry[id] # Unborn /\ Busy(id) /\ InFlight(id) = {} =>
        \E r \in ResumeReqs :
            Session(r) = id /\ (resp[r].code = 408 \/ exec[r].result.status = "panicked")

\* A recorded step is the successor of the one its resume set out from: what
\* the entry shows has to be followed through the executor and back.
StepInv ==
    /\ \A id \in CreateReqs : EntryInv(id) /\ CreateInv(id) /\ LossInv(id)
    /\ \A r \in ResumeReqs : FlightInv(r)
    /\ \A r \in ResumeReqs \cup StatusReqs \cup DeleteReqs : OwnerInv(r)

\* The capacity bound, with the inserts still to come counted in.
CapacityInv ==
    Cardinality(store) + Cardinality({r \in Requests : pc[r] = "insert"})
        <= MaxSessions + Workers - 1

-----------------------------------------------------------------------------
(* What the comments and the README promise and the code does not keep *)

\* "holds at most `max_sessions` sessions" (src/session.rs, SessionStore::new).
CapacityRespected == Cardinality(store) <= MaxSessions

\* "The caller **must** later call store_step or restore to leave the session
\* in a consistent state" (src/session.rs, acquire_for_resume).
NeverStranded == \A id \in CreateReqs : ~Stranded(id)

\* "Returns the session's new state" (README, the resume route): a recorded
\* step is reported to the client whose resume made it.
StepIsReported ==
    \A r \in ResumeReqs :
        pc[r] = "done" /\ resp[r].code # 408 /\ IsStep(exec[r].result) =>
            /\ resp[r].code = 200
            /\ resp[r].seq = exec[r].result.seq

Evicts(id) == reaper.phase = "sweep" /\ reaper' # reaper /\ id \in store \ store'

\* "Evicts every session past its expiry" (src/session.rs, reap_expired), and
\* no other one.
OnlyExpiredEvicted ==
    [][\A id \in CreateReqs : Evicts(id) => ExpiredAt(id, clock)]_vars
=============================================================================
