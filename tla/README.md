# Verification of monty-server

monty-server runs Python programs for HTTP clients: in one go (`POST /v1/run`),
or as *sessions* that pause whenever the program needs something from its host
and go on when the client answers (`POST /v1/sessions`, `.../resume`). This
directory holds TLA+ models of the server, the TLC runs that check them and
TLAPS proofs about them. Paths are relative to the repository.

## The system

| Component | State | Operations |
|---|---|---|
| session store (`src/session.rs`) | a concurrent map from ids to `Arc<Mutex<SessionEntry>>`; an entry has an owner, a TTL, an expiry time, the resumable `progress` (absent while a resume is in flight), a `terminal` flag and the snapshot of the latest step | `create`, `get`, `remove`, `reap_expired`; on an entry `acquire_for_resume`, `restore`, `store_step` |
| session handlers (`src/api/sessions.rs`) | none between requests; a handler in flight owns an entry's `Arc` and, during a resume, the progress it took out | `create`, `resume`, `status`, `delete`, `render` |
| execution gate (`src/api/mod.rs`, `src/state.rs`) | the semaphore of `max_concurrency` permits, the closures waiting and running | `spawn_execution`; the timeout layer that drops a handler |
| engine (`src/engine.rs`) | none of its own; drives the external interpreter `monty` | `compile`, `run_to_completion`, `start_session`, `resume_session` |
| reaper (`src/main.rs`) | the ids it has collected | every 30 s `reap_expired` and `prune_idle` |
| stateless endpoints (`src/api/run.rs`, `src/api/compile.rs`) | none | compete for permits |
| resource tracker (`src/tracker.rs`) | counters, a clock of execution segments, the first breach | the callbacks of the interpreter; `begin_segment`, `end_segment`, `stats` |
| rate limiter (`src/rate_limit.rs`) | a token bucket per caller | `check`, `prune_idle` |
| authentication (`src/auth.rs`), limits (`src/limits.rs`), configuration (`src/config.rs`) | none / read-only | resolve a caller, a set of limits, the environment |
| request bodies (`src/api/dto.rs`, `ResumeRequest` in `src/api/sessions.rs`) | none | `into_spec`, `into_input`: which bodies are accepted, and what they become |
| value conversion (`src/convert.rs`) | none | `json_to_monty`, `monty_to_json`, `exception_from_parts` |
| error bodies (`src/error.rs`), metadata (`src/api/meta.rs`), `src/main.rs` start and stop | none | formatting, logging, I/O |

How they interact: a handler looks an entry up in the map (one critical
section), locks it for a moment (another one), and lets go of it before it
awaits `spawn_execution`. During the await the program is with the executor and
the entry has no progress: the absent progress is the only thing that keeps two
resumes of a session apart. The handler comes back, locks the entry to record
the step, and locks it once more to render the answer. The reaper and other
handlers run between any two of these sections, and the handler's future may be
dropped at the await.

What is hard here: handlers on several threads that interleave at every lock;
futures dropped while they own the only copy of a program; closures that
outlive their handler; a reaper that acts on what it read earlier; a capacity
check that is apart from the insertion it guards. In the sequential parts it is
long sequences of legal calls: a tracker whose clock, counters and sampling live
on over all resumes of a program, and buckets that are refilled lazily, shared by
tokens of one name and forgotten when idle. On the way of a request it is the
formats: values that can be mistaken for tags, fields that are optional and may
be `null`, inputs bound by position, tokens that share a name.

What makes each part correct:

| Component | It is correct if |
|---|---|
| session store, session handlers | one execution of a session at a time; steps are neither lost nor repeated; a session belongs to its owner; the store keeps its limit; no program is lost while nothing went wrong |
| execution gate | no permit is lost or doubled, whatever panics or is dropped; every request is answered |
| reaper | what is expired goes, and nothing else |
| resource tracker, limits | a program gets what its client asked for and the server allows; it is charged for its own time only; an overrun is caught soon, and for good |
| authentication, configuration | a caller has the identity and the rate that the list of tokens gives it, and whoever reaches a session has the identity of its creator |
| request bodies, value conversion, engine | what a client means arrives in its program as it was meant, or is refused as a whole; a step reports all that was printed in it |
| rate limiter, authentication | in every span of time a caller is admitted its burst and what its rate yields; it is refused, and told when to come back, accordingly; forgetting a bucket changes nothing |

## Modules

    Engine <- Executor   <- SessionApi <- SessionRefinement <- MCSessionApi
           <- SessionStore <-         \                      \- SessionRefinementProofs
                                       \- SessionApiProofs <- SessionStepsProofs <-
    SessionProtocol  (abstract; INSTANCEd by SessionRefinement)

    Engine <- Steps <- Requests <- MCRequests
             Bodies <-        \- RequestsLemmas <- RequestsProofs
               Auth <-
             Values <------------ MCRequests

    Limits <- Tracker <- MCTracker                  RateLimiter <- MCRateLimiter
                      <- TrackerProofs                 \- RateLimiterProofs <- RateRefusalProofs
                                                           Auth <- MCRateLimiter

An arrow points from a module that is extended. The groups share no state in the
code either: a tracker belongs to one program, the rate limiter is done with a
request before its handler begins, and a body is converted before anything is
looked up. `SessionApi` is about several requests at once and leaves out what
they carry; `Requests` is about what they carry, one request at a time.

- **Engine**: what a call of `src/engine.rs` can return. The interpreter is
  external, so a step is a free choice between pausing again (on one of the
  `Kinds`), completing and failing. A program is a token that knows the kind of
  its pause and the number of the step that produced it; the number is what the
  properties follow. `settle` answers OS calls by itself and is folded
  into a step; `Steps` unfolds it.
- **Executor**: `spawn_execution`. `Submit` queues a closure with the program it
  captured, `Dispatch` gives it a permit and starts it (the two happen in one
  poll), `Finish` returns or panics and gives the permit back, `DropHandler` is
  a dropped future: a queued closure goes with it, a running one is detached.
- **SessionStore**: the map and its entries, one operator per critical section.
  `store` is the map's key set; `entry` keeps an entry also after its removal,
  as the `Arc`s of handlers do. A session's id is its create request: a v4 UUID
  is not issued twice.
- **SessionApi**: requests, handlers, timeouts, panics and the reaper composed.
  A request is one handler invocation, with its place `pc[r]`, its content
  `call[r]` and its answer `resp[r]`. Each access of shared state is an action,
  so all interleavings of handlers on different threads are there.
- **SessionProtocol**: what a session promises its owner, with no handlers,
  locks or clocks: absent, idle, busy, done or lost, and a step count.
- **SessionRefinement**: reads a session's phase off its entry and the handlers
  and states that SessionApi implements SessionProtocol: `FollowsProtocol` its
  moves, `ImplementsProtocol` its progress as well.
- **Limits**: `ResolvedLimits::resolve`.
- **Tracker**: the tracker of one program over all its segments. The interpreter
  is external: while a segment runs it may call back in any order, and go on after
  any error. `held`, the bytes of the objects that exist, stands for its heap.
- **RateLimiter**: `rate_limit`, the buckets and `prune_idle`. A caller is an API
  token, or an address when none is configured, and `KeyOf` is the name of its bucket.
- **Values**: `json_to_monty` with every tag, on values that are records of a
  kind, a scalar and parts; and, as the reference, how a client writes a Python
  value after the table in the repository's README (`Form`), in the shortest form
  and in the most explicit one.
- **Bodies**: `ResumeRequest::into_input` and `SourceFields::into_spec`, over any
  conversion of a single value. An `Option` is a sequence of at most one element,
  and `null` is read as none.
- **Steps**: one step in the engine: what the program prints and yields, the loop
  of `settle`, `finish_step`.
- **Auth**: `load_auth` and `authenticate`.
- **Requests**: Auth, Bodies, Engine and Steps composed: a client is
  authenticated, starts a program from code or from a compiled snapshot, and
  answers its pauses. A client either means something (an answer, inputs), which it
  writes as documented, or sends any body at all.
- **MCSessionApi**, **MCTracker**, **MCRateLimiter**, **MCRequests**: what only
  TLC needs. MCRateLimiter takes its callers from `load_auth` and `authenticate`,
  and assumes (TLC checks it) that they are those that Auth computes;
  `TokensAuthenticate` says what these are for every list of tokens.
- **SessionApiProofs**, **SessionStepsProofs**, **SessionRefinementProofs**,
  **TrackerProofs**, **RateLimiterProofs**, **RateRefusalProofs**,
  **RequestsLemmas** (what operators compute), **RequestsProofs**: the proofs.

| Code | Model |
|---|---|
| `create` up to its await; after it | `ReceiveCreate`; `CompileFailed`, `CheckCapacity`, `InsertSession`, `FetchCreated`, `Render` |
| `resume` up to its await; after it | `ReceiveResume`, `Acquire`; `RecordStep` and `Render`, or `RestoreProgress` |
| `status` | `ReceiveStatus`, `Render` |
| `delete` (`SessionStore::remove`) | `ReceiveDelete` (ownership), `DeleteSession` (removal) |
| `run`, `compile` | `ReceiveRun`, `FinishRun` |
| a body that is refused | `RejectMalformed` |
| `spawn_execution` | `StartExecution`, `EndExecution`, `WakePanicked` |
| the timeout layer, a disconnecting client | `Abandon` |
| `reap_expired` | `ReaperWake` (reads the clock), `ReaperVisit` (one entry, under its lock), `ReaperScanned`, `ReaperEvict` |
| `Instant::now()` | `clock`, advanced by `PassTime`, `TrackerTick`, `RateTick` |
| `begin_segment`; `end_segment` and `finish_step` | `BeginSegment`; `EndSegment` |
| `check_time` in the main loop of the interpreter, which ends the program | `LoopCheck` |
| the callbacks of `ResourceTracker`, from callers that may go on after an error | `OnAllocate`, `OnGrow`, `OnFree`, `CheckRecursionDepth`, `CheckLargeResult`, `CheckTime` |
| `settle`; `finish_step` with `join_streams` | `DenyOsCall`, `Settled`; `EndStep` |
| `load_auth`; `authenticate` | `LoadAuth`; `Authenticate`, `Unauthorized` |
| `create` with what it carries; `compile` | `Start`; `Compile` |
| `resume` up to `acquire_for_resume`; `check_resume`, `apply_resume` | `Receive`; `Resume` |
| `render`, `describe_pause` | `Respond` |
| `RateRule::new`, `Caller` | `NewRule`, `RuleOf`, `KeyOf` |
| `RateLimiter::check` in `rate_limit` | `Check` |
| `prune_idle` | `PruneStart` (reads the clock), `Prune` (one bucket, under its locks) |

Choices a reader should know of:

- Handlers run on worker threads. One that is between two accesses of the same
  poll occupies a worker, hence `FreeWorker` in the actions that leave a handler
  (or the reaper) there. A poll that is a single action does not need a worker
  in the model: more behaviours, never fewer.
- `DashMap::len` sums over shards; it is read here in one step. A scan
  (`ReaperVisit`) goes entry by entry, and may or may not meet an entry that is
  inserted meanwhile.
- `Instant::now()` and the insertion of `create` are one action, and so are
  taking the progress and submitting its closure: nothing shared lies between.
- Routes of one shape share requests: a request of `StatusReqs` and `DeleteReqs`
  is either, as it chooses when it arrives.
- 408 stands for every answer that is not given because the future was dropped.
- Requests name ids that a create request was answered with (UUIDs cannot be guessed).
- A failing JSON serializer (documented in `src/convert.rs` as not happening)
  and poisoned mutexes (no code panics under an entry lock) are left out.
- The tracker's atomics are plain variables: an execution runs on one thread at a
  time, and nobody reads its counters meanwhile. `end_segment` and `finish_step`
  follow each other on that thread and are one action, so the time between them is
  0. `fetch_add` wraps at `CounterRange` (2^32; the release profile does not trap).
  The interpreter frees only what it allocated, so `saturating_sub` never saturates.
- A bucket counts tokens in parts, `Minute` of them to a token, and gains
  `per_minute` parts a tick: all arithmetic is exact, and the rounding of `f64` is
  left out. `check` holds the map's shard and the bucket throughout and is one action.
- `serde_json::Map` sorts its keys (`Cargo.lock` has it without the feature that
  keeps their order), so the order of a plain object's members is lost on the way
  to a program, and `$dict` is what keeps it. Values are compared as Python's `==`
  does, for which that order does not count.
- A number is its literal, one of a few on either side of each bound (bytes, `i64`,
  `u64`); whole numbers of `2^64` and above are left out, because which of them
  the JSON parser hands over as floats is up to it. Texts are a few strings, those with
  a meaning (tags, `nan`, base64) among them.
- The body of `$ellipsis` is ignored by the code, and is not something a client means.
- Headers are taken apart already: `X-Forwarded-For` is the sequence of its hops,
  `Authorization` a scheme and a token, an entry of `MONTY_API_TOKENS` its parts.
- Variables called *history* or *external* belong to no code: they record what
  happened, for the properties, or stand for the interpreter.
- Definitions commented as *faulty* are not part of the specification. Each is a
  plausible bug; put in the place of the definition after it, it breaks the
  properties meant to catch it.

## Properties and runs

The runs of the sessions use `MCSessionApi`, the others `MCRequests`, `MCTracker`
and `MCRateLimiter`. Deadlock is checked in all but `tracker`: the reaper can
always take a step, and so can a client or a caller of the rate limiter, but a
tracker is done when its program has ended.

| Run | Instance | Properties |
|---|---|---|
| `session_lifecycle` | 1 session, 2 resumes, 2 requests that are a status read or a delete each, 2 callers, 1 permit, 2 workers, default TTL of 1, clock to 1 (0.3 million states) | `TypeOK`, `IInv`; `StrandedOnlyByLoss`: a program is lost only with a resume that was dropped or panicked; `Isolation`: a caller that does not own a session learns only that it is not found; `SingleFlight`: one execution of a session at a time; `StepsAreSequential`: recorded steps are 1, 2, 3, ..., none repeated or recorded over a later one; `ReadYourStep`: a 200 shows the resume's own step or a later one; `DeletedOnce`: one 204 per session; `CreateLostOnlyExpired`: a create that inserted its session is answered 500 only if the session has expired; `FollowsProtocol`: no move but those of the abstract protocol; `StepInv`, the inductive form of most of these |
| `store_races` | 3 creates for 1 place, a plain run, a delete, 1 permit, 2 workers, TTL 0, no ticks (0.7 million states) | `CapacityOvershootBound`: the store outgrows `max_sessions` by at most workers - 1; `CapacityInv`, its inductive form; `PermitConservation` |
| `session_protocol` | a create, 2 resumes, a delete, default TTL of 1, clock to 2, under `FairSpec` (59 thousand states) | `ImplementsProtocol`: the abstract protocol, with its fairness (a busy session does not stay busy); `EveryRequestAnswered`; `ExpiredEventuallyReaped`, lost sessions included |
| `tracker` | 1 program under either of 2 requests, clock to 3, a reading on every 3rd check, the counter wraps at 6, under `FairTrackerSpec` (0.3 million states) | `TrackerInv`; `WithinCeilings`: no more memory and allocations over all segments than the server's maximum and than the client asked for; `OverrunCaught`: a program out of time passes fewer checks than the interval; `OverrunRedetected`: after a refused check every later one refuses; `NoFalseTimeout`: idle time times nobody out; `DurationIsRunTime`; `FailureClassified`: a failure is blamed on a limit if and only if one was refused, and then on one of those; `OverrunStopped`: a program out of time is stopped, also if some callers swallow the error |
| `rate_limiter` | 2 tokens of rates 1 and 2 that share a bucket, a third of its own, clock to 4, a minute of 3 ticks, a second of 2, under `FairRateSpec` (0.2 million states) | `RateInv`; `AdmissionBound`: what a key is granted in any span of time; `OwnRateWhenAlone`: only a caller that was granted its rate in the last minute is refused; `RetryAfterExact`: the wait is enough, and a second less would not be; `PruneEquivalent`: a bucket is forgotten only if all its callers would find it full; `IdleEventuallyPruned` |
| `requests` | 5 clients under no tokens or a list that names two tokens alike and one twice; every scalar, structures of two levels, two ways to write each; every combination of set, unset and null fields; 2 fragments a step (0.5 million states) | `FormatRoundTrips`: a value is read as the one that was written, and only `None` is written as `null`; `AnswerArrives`: what the client means is what its program gets, and only an answer that does not fit or is null is refused; `InputsBound`: each input gets its own value, from code or a snapshot; `NothingIgnored`: no field of an accepted body is dropped; `OwnerReaches`: only the identity that created a session reaches it; `NoInternalError`: the branches called unreachable are; `OutputComplete`: a step reports each fragment once, in order |

Bounds. A request makes one pass through its handler, so the numbers of requests
bound the depth of a behaviour; none of them is bounded otherwise. Two resumes
are what a race needs: one that has left the executor meets one that takes off.
Three creates for one place on two workers are one more than the workers,
so the bound is met exactly and not because requests run out. With a default TTL
of 1, a clock to 1 lets a session expire before or after anything that happens to
it, or be renewed instead, and a clock to 2 (`session_protocol`,
`violation_evict_renewed`) lets it expire again after that. TTL 0 (`store_races`)
lets it expire before its creator has fetched it; with TTL 1 it may or may not have
by then, which is what `CreateLostOnlyExpired` tells apart. Two pause kinds with the one
input that fits one of them give matches and mismatches; Engine's table of which
input fits which pause does not depend on more. Symmetry is used in
safety runs only, and permutes requests of exactly the same routes. The tracker's interval of 3 has checks before, at
and after a reading, and its counter wraps on the second one (16 divides 2^32 as 3
divides 6; the proof takes any multiple); a clock to 3 has room for two segments
with idle time between them, in which a program would overrun if it were charged for
that, and for a segment that overruns either limit and is stopped. In
`MCTracker` the default of the memory is above its maximum, as a configuration may have
it, and that of the allocations and of the duration below; one client leaves all limits
out, the other asks for less memory than the default and for more than the maximum of
everything else. Buckets are
pruned after exactly a minute, the least that the assumption `IdlePrune >= Minute`
allows (the code waits for ten), so any bucket that is forgotten too early is
found; in 4 ticks a bucket is emptied, refused, refilled, forgotten and made anew.

In `requests` two levels of structure are enough for every pair of a tag around
another, as the conversion of a part does not know what is around it; among
the parts are the ones that look like tags. The list of tokens has an entry that a
later one replaces, two tokens of one name and one without a name; the list that
does not parse is refused by `load_auth`, so no behaviour starts from it. Odd
bodies are all combinations of the six fields, and each way for a value to fail.

Fairness. `FairSpec` assumes that time passes, that the interval timer wakes the
reaper and the scheduler then runs it, that a handler with a step to take is
polled again, and that the timeout layer drops a handler that keeps waiting.
Nothing is assumed of executions: a program may run for ever, so the liveness
properties hold because of the timeout layer, not because programs end.
`FairRateSpec` assumes that time passes and that the reaper's task runs.
`FairTrackerSpec` assumes that the interpreter's main loop goes on to its next
instruction, which begins with `check_time` ("The monty VM calls `check_time` on
every instruction", `src/tracker.rs:24`), and that it returns once that has refused;
nothing is assumed of the callers that swallow the error.

Where the code and its own words differ (each run shows one counterexample):

| Run | What the run shows |
|---|---|
| `violation_capacity` | two creates pass the check of `max_sessions` before either inserts |
| `violation_stranded` | a resume that times out, loses its client or panics takes the program with it, and the session answers 409 until it expires |
| `violation_report` | a second resume between `store_step` and `render` makes the first one fail with 500 although its step was recorded |
| `violation_evict_renewed` | a session renewed between the reaper's scan and its sweep is evicted with its TTL ahead of it |
| `violation_limits` | a client that asks for more than the server's default gets it, up to the maximum: "never higher" than the default (`src/limits.rs:3`) is not what `resolve` does, "never exceeds the configured maximum" (`src/limits.rs:47`) is |
| `violation_null_answer` | an answer of `null` (`{"return": null}`, `{"value": null}`, a future's `"return": null`) is read as a field that is not set, and refused 400 |

More that follow from the same code and have no run: a status read while a resume is
in flight is answered 500 by the same test in `render_state` (`src/api/sessions.rs:410`)
that `violation_report` meets, although the GET route "Returns the current session state
without resuming it" (`README.md:198`); an expired session is served
(and can be renewed) until the reaper's next round; a session whose resume is in
flight is evicted like an idle one; of two tokens with one name, the one with the
lower rate caps the bucket they share (`src/rate_limit.rs:58`), so the other can be
refused before it was granted its own rate; and a program that catches the
exception of a limit and fails later for another reason is reported as
`limit_exceeded`, because the first breach is kept (`FailureClassified` says what
does hold), if the interpreter lets it catch that exception.

## Proofs

`SessionApiProofs` proves, for every set of requests, any number of permits,
workers and callers, every TTL configuration:

- `Invariance`: `Spec => []IInv`
- `TypeCorrectness`: `Spec => []TypeOK`
- `PermitsConserved`: `Spec => []PermitConservation`
- `OneExecutionPerSession`: `Spec => []SingleFlight`
- `CapacityInvariance` and `CapacityBounded`: `Spec => []CapacityInv` and
  `Spec => []CapacityOvershootBound`
- `DeletionsUnique`: `Spec => []DeletedOnce`
- `CapacityOnOneWorker`: `Workers = 1 => (Spec => []CapacityRespected)`, so what
  `violation_capacity` shows is due to a second worker and to nothing else

`SessionStepsProofs` and `SessionRefinementProofs` go on with

- `StepInvariance`: `Spec => []StepInv`
- `StepsSequential`: `Spec => StepsAreSequential`
- `StepsAreRead`: `Spec => []ReadYourStep`
- `SessionsIsolated`: `Spec => []Isolation`
- `StrandingExplained`: `Spec => []StrandedOnlyByLoss`
- `CreatesLostToExpiry`: `Spec => []CreateLostOnlyExpired`
- `ServiceFollowsProtocol`: `Spec => FollowsProtocol`

all of it from the assumptions the modules state about their constants: requests are
finitely many, the sets of requests of different routes are disjoint (but for those
of status and delete), bounds are natural numbers and there is at least one worker.

The argument. `TypeOK` is not inductive: giving a permit back keeps `permits`
within `max_concurrency` only if one is out, which is `PermitConservation`, and
that the step a handler records is a step depends on how it got there, which is
`HandlerInv` (a place of the handler determines its route, its session and the
state of its execution). `SingleFlight` says that a session with a resume in
flight has no progress in its entry; to keep it, the insertion of a new entry
must not meet a resume of that id, which `HandlerInv` gives: a resume names only
sessions whose create was answered. `IInv` is the conjunction. `CapacityInv`
counts the creates between check and insertion in: each of them occupies a
worker, and the last one to check saw a store that was not full. `DeletedOnce` needs
that a deleted session stays off the map: it was created by a request that is
answered and inserts nothing any more (`Gone`).

Nothing in `IInv` says which step a resume comes back with, so what an entry shows is
not yet known to grow by one. `StepInv` follows the number of a step from
`acquire_for_resume` through the executor to `store_step`: the program of a resume in
flight is that of the latest step (`FlightInv`); what comes back is that program,
after a mismatch, or the next step; what a handler is about to render is no later
than what the entry shows. `OwnerInv` says that a handler past its lookup belongs to
the owner, and `LossInv` that a busy entry without a resume in flight has had one that
was dropped or panicked. That a busy entry belongs to one resume only is `SingleFlight`.
`CreationInv` is about the time before that, between the insertion of an entry and the
answer of its creator: no request names it yet, so the entry is as it was inserted, and
what the reaper has collected or removed by then had expired.

The refinement maps a session to its phase, the number of its latest step, and
whether it is listed. An insertion is `Open`; taking the progress is `Begin`;
`store_step` is `Advance`; handing the progress back after a mismatch is `Reject`; a
dropped future or a panic that ends the wait for the execution is `Lose`; a
removal is `Close`; every other step leaves the mapped state as it is. The proof shows
that a step concerns one session (`NoMove`, `OneMoves`), and that it makes the move of
the protocol that its action stands for.

The proof of `SessionApiProofs` goes component by component: lemmas on what each operator of
`Executor` and `SessionStore` does to the types and the permits; a locality
lemma (a step changes one request only) that reduces `HandlerInv` to the request
that moves; then one step per action.

`TrackerProofs` proves `TrackerInvHolds`, `CeilingsHold`, `OverrunsCaught`,
`OverrunsRedetected`, `TimeoutsAreReal`, `DurationsAreRunTime`, `FailuresClassified`
and `TrackerTypes`, each the property of `tracker` that it is named after, for all limits, requests, sizes and
every interval that divides the range of the counter. `OverrunCaught` is not
inductive: what is, is that the checks that let an overrun pass number at most
`counter % Interval`, which needs how a remainder moves on when a counter is
incremented or wraps (`NextRemainder`), and that a refusal leaves the counter one
short of a multiple. `NoFalseTimeout` follows from `Accounting`: the accumulated
time and the running segment make up the time spent in segments.

`RateLimiterProofs` proves `RateInvariance` (`RateSpec => []RateInv`), `RateTypes`,
`AdmissionsBounded` and `PruningIsEquivalent` for any callers, keys, rates and
clock resolution, if a bucket is kept for a minute or longer. `AdmissionBound`
alone is not inductive: a bucket must be known to hold no more than what its past
has left. `KeyInv` says so for every span that ends with the last use of the
bucket, and for a key without a bucket it says that the span's refill covers all
it was granted, because a minute refills a bucket. A caller with a lower rate
or burst only takes parts away, so `Widest`, the highest rate of a key, bounds
all of them.

`RateRefusalProofs` proves `RetriesExact` (`RateSpec => []RetryAfterExact`) and
`RateIsGranted` (`RateSpec => []OwnRateWhenAlone`). For the first, what a refused
caller was told stays exact until its bucket is charged (`PromiseInv`): a bucket that
is pruned meanwhile was idle for longer than any wait. The rounding up to seconds is
neither short nor a second too long (`CeilingDivision`, `WaitIsExact`). For the second, the inductive invariant `OwnInv`
says what a bucket with a single caller cannot have lost without granting it; a
bucket that is gone counts as full, because it was left alone for a minute.

`RequestsProofs` proves, for any clients, lists of tokens, bodies and programs:

- `BranchesUnreachable` (`NoInternalError`): a body with exactly one field set has a
  branch in `into_input`, what `check_resume` lets pass has an arm in
  `apply_resume`, and a settled step has no OS call for `describe_pause`.
- `OutputsComplete` (`OutputComplete`): while a step runs, its fragments are all it
  printed, in order (`PrintInv`), and the two streams share them out (`StreamsShare`).
- `OwnersReach` (`OwnerReaches`): a request in flight comes from an authenticated
  client (`FlightInv`), and `load_auth` keeps the last entry of a token
  (`LastEntryCounts`), so the caller's id is the identity the list gives it.
- `TokensAuthenticate` (in `RequestsLemmas`): a client is let in if and only if the list has
  its token, and gets the name and the rate of the last entry with it. `KeyOf` and
  `Requested` of the rate limiter are exactly that, for whatever `load_auth` accepts.
- `BodiesHeardInFull` (`NothingIgnored`): futures and inputs are converted one by one
  (`HeardInFull`, `BoundInFull`), and what is in flight is what that yields.
- `AnswersArrive` and `InputsReach`: `RequestsSpec /\ []FormatRoundTrips` implies
  `[]AnswerArrives` and `[]InputsBound`. How single values are written and read is
  left to the hypothesis; everything around it is proved: the fields of a body, the
  futures and their order, the binding of inputs by name and by position, the checks
  on the way, and that no request meets the leftovers of an earlier one (`MeantInv`).

The hypothesis of the last two is an invariant of the run `requests`, where TLC checks
it with the conversion of `Values`. It cannot be proved: `JsonToMonty` and `Form`
are recursive. Statements about the loops of `join_streams` and
`load_auth` are written with recursive functions and proved by a least
counterexample over the position in the list (`LeastNumber`, from `WFMin` of the
library on the natural numbers), which needs no induction schema.

Requests assumes of its constants, and TLC checks for those of `MCRequests`:
`EntriesAssumption` and `BodiesAssumption` (lists are finite sequences; an object has
as many keys as members), `AnswersAssumption` (what a client means is one of the six
forms of a `ResumeInput`), and `ObjectAssumption` (a parsed object has each member under
its key, in whichever order: that of `serde_json::Map` is one).

Model-checked only: `FormatRoundTrips`, for the reason given; and what depends on
fairness, which is out of the prover's reach: `EveryRequestAnswered`,
`ExpiredEventuallyReaped`, `IdleEventuallyPruned`, `OverrunStopped` and, of
`ImplementsProtocol`, that a busy session does not stay busy. Every other property of
a passing run is stated by a theorem.

## Plan

The order was: sessions (the store, the executor, the handlers), then their
protocol and its refinement, the rate limiter and the tracker, each with its
proofs; then the way of a request: callers, bodies, values and steps, and the proofs
about it. What is left is
Tracker and SessionApi composed, that is the limits of a program over resumes that
overlap with other requests, timeouts and losses.

## Not modelled

- `monty_to_json`, `monty_slice_to_json`: they call the serializer of the
  interpreter's crate, which is not part of this repository. `ApiException` and
  `ApiFrame`, the response types and the error bodies copy fields and format them.
- The text of headers and of environment variables (splitting, trimming, integer
  parsing), and the layers of the router that hold no state (CORS, body size,
  tracing).
- Service metadata (`src/api/meta.rs`): read-only.
- Start and stop (`src/main.rs`): logging, binding and signals; draining on
  shutdown is the HTTP library's.
- The interpreter: external. It is free in what it prints, yields, allocates and
  checks.
