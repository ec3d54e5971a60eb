-------------------------- MODULE SessionProtocol --------------------------
(***************************************************************************)
(* What a session promises its owner, without handlers, locks, permits or  *)
(* clocks: a program that is opened, resumed one step at a time, and ends. *)
(* A session may be closed in any phase; whoever got hold of it before may *)
(* still finish its step.                                                  *)
(***************************************************************************)
EXTENDS Naturals

CONSTANT Sessions

VARIABLES phase,    \* absent, idle (resumable), busy, done or lost
          steps,    \* number of steps the program has made
          listed    \* whether the session can be found

protocolVars == <<phase, steps, listed>>

SessionPhase == {"absent", "idle", "busy", "done", "lost"}

ProtocolInit ==
    /\ phase = [s \in Sessions |-> "absent"]
    /\ steps = [s \in Sessions |-> 0]
    /\ listed = [s \in Sessions |-> FALSE]

\* A step ends by pausing again or by ending the program.
Step(s) ==
    /\ \E next \in {"idle", "done"} : phase' = [phase EXCEPT ![s] = next]
    /\ steps' = [steps EXCEPT ![s] = @ + 1]

Open(s) ==
    /\ phase[s] = "absent"
    /\ Step(s)
    /\ listed' = [listed EXCEPT ![s] = TRUE]

Begin(s) ==
    /\ phase[s] = "idle"
    /\ phase' = [phase EXCEPT ![s] = "busy"]
    /\ UNCHANGED <<steps, listed>>

Advance(s) ==
    /\ phase[s] = "busy"
    /\ Step(s)
    /\ UNCHANGED listed

\* The answer did not fit the pause.
Reject(s) ==
    /\ phase[s] = "busy"
    /\ phase' = [phase EXCEPT ![s] = "idle"]
    /\ UNCHANGED <<steps, listed>>

\* The resume was dropped or its execution panicked, and the program with it.
Lose(s) ==
    /\ phase[s] = "busy"
    /\ phase' = [phase EXCEPT ![s] = "lost"]
    /\ UNCHANGED <<steps, listed>>

Close(s) ==
    /\ listed[s]
    /\ listed' = [listed EXCEPT ![s] = FALSE]
    /\ UNCHANGED <<phase, steps>>

Resolve(s) == Advance(s) \/ Reject(s) \/ Lose(s)

ProtocolNext ==
    \E s \in Sessions : Open(s) \/ Begin(s) \/ Resolve(s) \/ Close(s)

\* The moves a session may make.
ProtocolSafety == ProtocolInit /\ [][ProtocolNext]_protocolVars

\* A busy session does not stay busy.
ProtocolSpec ==
    /\ ProtocolSafety
    /\ \A s \in Sessions : WF_protocolVars(Resolve(s))
=============================================================================
