-------------------------------- MODULE Steps --------------------------------
(***************************************************************************)
(* One step of a session inside the engine (src/engine.rs): the program    *)
(* runs, prints, and hands back a progress; `settle` denies OS calls and   *)
(* lets it go on, and finish_step turns the rest into a SessionStep.  The  *)
(* interpreter is external: it prints and yields as it likes.              *)
(*                                                                         *)
(* Definitions commented as faulty are not part of the specification.      *)
(***************************************************************************)
EXTENDS Engine, Sequences

CONSTANTS MaxPrints    \* bound on the fragments a program prints in a step

ASSUME StepsAssumption == MaxPrints \in Nat

VARIABLES program,    \* what the interpreter last handed back, or "running"
          fragments,  \* print fragments of the step, each a stream and a number
          printed,    \* history: how many fragments the program printed in it
          step        \* the SessionStep of the latest step

stepVars == <<program, fragments, printed, step>>

Stream == {"stdout", "stderr"}

\* RunProgress as the interpreter hands it back, or the exception it raised.
Yielded == PauseKind \cup {"os_call", "complete", "exception"}

\* join_streams goes over the fragments in order.
Joined(stream) ==
    LET joined[n \in 0 .. Len(fragments)] ==
            IF n = 0 THEN <<>>
            ELSE IF fragments[n].stream = stream THEN Append(joined[n - 1], fragments[n].text)
            ELSE joined[n - 1]
    IN  joined[Len(fragments)]

NoStep == [status |-> "none", pause |-> "none", stdout |-> <<>>, stderr |-> <<>>]

StepsInit ==
    /\ program = "none"
    /\ fragments = <<>>
    /\ printed = 0
    /\ step = NoStep

-----------------------------------------------------------------------------

\* start_session, and resume_session after apply_resume.
BeginStep ==
    /\ program' = "running"
    /\ fragments' = <<>>
    /\ printed' = 0
    /\ step' = NoStep

Write(stream) ==
    /\ program = "running"
    /\ printed < MaxPrints
    /\ fragments' = Append(fragments, [stream |-> stream, text |-> printed + 1])
    /\ printed' = printed + 1
    /\ UNCHANGED <<program, step>>

Yield(progress) ==
    /\ program = "running"
    /\ program' = progress
    /\ UNCHANGED <<fragments, printed, step>>

\* The loop of settle resumes an OS call with PermissionError; what the program
\* printed before stays in `fragments`.
\* (Faulty: the resumed call collects into fragments of its own.)
DenyOsCallAnew ==
    /\ program = "os_call"
    /\ program' = "running"
    /\ fragments' = <<>>
    /\ UNCHANGED <<printed, step>>

DenyOsCall ==
    /\ program = "os_call"
    /\ program' = "running"
    /\ UNCHANGED <<fragments, printed, step>>

\* settle returns.
Settled == program \in Yielded \ {"os_call"}

\* finish_step.
EndStep ==
    /\ Settled
    /\ step' = [status |-> CASE program = "complete"  -> "completed"
                             [] program = "exception" -> "failed"
                             [] OTHER                 -> "paused",
                pause  |-> program,
                stdout |-> Joined("stdout"),
                stderr |-> Joined("stderr")]
    /\ program' = "none"
    /\ fragments' = <<>>
    /\ UNCHANGED printed

StepsNext ==
    \/ \E stream \in Stream : Write(stream)
    \/ \E progress \in Yielded : Yield(progress)
    \/ DenyOsCall
    \/ EndStep

-----------------------------------------------------------------------------

\* "Captured print() output from one execution segment" (engine.rs): a step
\* reports each fragment its program printed once and in order, also those from
\* before a denied OS call and before an exception.
OutputComplete ==
    step # NoStep =>
        /\ Len(step.stdout) + Len(step.stderr) = printed
        /\ \A n \in 1..printed :
             \E stream \in Stream : \E i \in DOMAIN step[stream] : step[stream][i] = n
        /\ \A stream \in Stream : \A i, j \in DOMAIN step[stream] :
             i < j => step[stream][i] < step[stream][j]
=============================================================================
