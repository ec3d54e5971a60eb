------------------------------ MODULE Executor ------------------------------
(***************************************************************************)
(* spawn_execution (src/api/mod.rs): blocking work gated by the global     *)
(* concurrency semaphore.  A handler submits a closure and awaits; the     *)
(* closure starts when a permit is free and holds the permit until it      *)
(* returns or panics, whether or not the handler still listens.  Dropping  *)
(* the handler's future drops a closure that has not started, and detaches *)
(* one that has.                                                           *)
(*                                                                         *)
(* A definition commented as faulty stands for a plausible bug; it is not  *)
(* part of the specification (see SessionStore).                           *)
(***************************************************************************)
EXTENDS Engine, Integers, FiniteSets

CONSTANTS Requests,         \* the requests that may submit work, once each
          MaxConcurrency    \* config.max_concurrency

ASSUME ExecutorAssumption ==
    /\ IsFiniteSet(Requests)
    /\ MaxConcurrency \in Nat

VARIABLES permits,    \* permits free in AppState::concurrency
          exec        \* the closure of each request

execVars == <<permits, exec>>

\* idle     nothing submitted, or dropped before it started
\* queued   waiting for a permit; the closure owns `progress`
\* running  on the blocking pool, holding a permit; the closure owns `progress`
\* finished the permit is back and `result` waits for the handler
\* detached finished after the handler was dropped; the result went nowhere
Phase == {"idle", "queued", "running", "finished", "detached"}

Execution ==
    [phase: Phase, progress: RunProgress \cup {NoProgress}, result: Result]

Blank(phase) == [phase |-> phase, progress |-> NoProgress, result |-> NoResult]

Running == {r \in Requests : exec[r].phase = "running"}

ExecutorTypeOK ==
    /\ permits \in 0..MaxConcurrency
    /\ exec \in [Requests -> Execution]

ExecutorInit ==
    /\ permits = MaxConcurrency
    /\ exec = [r \in Requests |-> Blank("idle")]

-----------------------------------------------------------------------------

\* spawn_execution is called: the closure, with the progress it captured,
\* queues for a permit.
Submit(r, progress) ==
    /\ exec' = [exec EXCEPT ![r] = [Blank("queued") EXCEPT !.progress = progress]]
    /\ UNCHANGED permits

\* acquire_owned returns and spawn_blocking starts the closure.
Dispatch(r) ==
    /\ exec[r].phase = "queued"
    /\ permits > 0
    /\ permits' = permits - 1
    /\ exec' = [exec EXCEPT ![r].phase = "running"]

\* The closure returns `result` (or unwinds, which JoinHandle reports as the
\* result "panicked"); its permit is dropped with it.
Finish(r, result, listening) ==
    /\ exec[r].phase = "running"
    /\ permits' = permits + 1
    /\ exec' = [exec EXCEPT ![r] =
                  IF listening THEN [Blank("finished") EXCEPT !.result = result]
                               ELSE Blank("detached")]

\* The handler's future is dropped at the await.
\* (Faulty: the permit belongs to the handler, not to the closure.)
DropHandlerAndPermit(r) ==
    /\ exec' = [exec EXCEPT ![r] = CASE @.phase = "running" -> @
                                     [] @.phase = "queued"  -> Blank("idle")
                                     [] OTHER               -> Blank("detached")]
    /\ permits' = IF exec[r].phase = "running" THEN permits + 1 ELSE permits

DropHandler(r) ==
    /\ exec' = [exec EXCEPT ![r] = CASE @.phase = "running" -> @
                                     [] @.phase = "queued"  -> Blank("idle")
                                     [] OTHER               -> Blank("detached")]
    /\ UNCHANGED permits

\* The handler takes the result; what it does with a returned progress is its
\* own affair, so the result keeps only its record.
TakeResult(r) ==
    /\ exec' = [exec EXCEPT ![r].result.progress = NoProgress]
    /\ UNCHANGED permits
=============================================================================
