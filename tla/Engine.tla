------------------------------- MODULE Engine -------------------------------
(***************************************************************************)
(* What one call of the execution engine hands back to the HTTP layer      *)
(* (src/engine.rs).  The interpreter itself is the external crate          *)
(* `monty`: a program is free to pause, finish or raise at every step, so  *)
(* the engine is a set of possible results.  A paused program is an opaque *)
(* token of which only the kind of its pause and the number of the step    *)
(* that produced it are kept.                                              *)
(***************************************************************************)
EXTENDS Naturals

CONSTANTS Kinds,    \* the pause kinds the programs of a model may reach
          Inputs    \* the resume inputs the clients of a model may send

\* The variants of RunProgress that a client can answer.
PauseKind == {"function_call", "name_lookup", "resolve_futures"}

\* The variants of ResumeInput.
ResumeInput ==
    {"return", "raise", "pending", "name", "name_undefined", "futures"}

ASSUME EngineAssumption ==
    /\ Kinds \subseteq PauseKind
    /\ Inputs \subseteq ResumeInput

-----------------------------------------------------------------------------

\* A live Box<RunProgress>, and the absence of one.
RunProgress == [kind: Kinds, seq: Nat]

NoProgress == [kind |-> "none", seq |-> 0]

\* SessionStep, and the other results a blocking closure can return.  `seq`
\* counts the steps of the session, the first one (start_session) being 1.
StepStatus == {"paused", "completed", "failed"}

ResultStatus ==
    StepStatus \cup {"none", "mismatch", "compile_error", "ran", "panicked"}

Result == [status: ResultStatus, seq: Nat, progress: RunProgress \cup {NoProgress}]

\* A result that carries no step of a session.
Bare(status) == [status |-> status, seq |-> 0, progress |-> NoProgress]

NoResult == Bare("none")

IsStep(result) == result.status \in StepStatus

\* finish_step: step n pauses again, completes, or fails (an exception or a
\* resource limit).  `settle` answers OS calls itself, so a step never pauses
\* on one.
FinishStep(n) ==
    {[status |-> "paused", seq |-> n, progress |-> [kind |-> k, seq |-> n]] : k \in Kinds}
    \cup {[status |-> s, seq |-> n, progress |-> NoProgress] : s \in {"completed", "failed"}}

\* The closure of `create`: compile, then start_session.
StartSession == FinishStep(1) \cup {Bare("compile_error")}

\* check_resume: does `input` answer the pause the progress stands for?
CheckResume(progress, input) ==
    input \in CASE progress.kind = "function_call"   -> {"return", "raise", "pending"}
                [] progress.kind = "name_lookup"     -> {"name", "name_undefined"}
                [] progress.kind = "resolve_futures" -> {"futures"}
                [] OTHER                             -> {}

\* resume_session: a fitting answer consumes the progress, an unfitting one
\* hands it back untouched.
ResumeSession(progress, input) ==
    IF CheckResume(progress, input)
    THEN FinishStep(progress.seq + 1)
    ELSE {[status |-> "mismatch", seq |-> 0, progress |-> progress]}

\* The closures of `run` and `compile`, whose result nothing else depends on.
RunToCompletion == {Bare("ran")}
=============================================================================
