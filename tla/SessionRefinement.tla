------------------------- MODULE SessionRefinement --------------------------
(***************************************************************************)
(* SessionApi implements SessionProtocol.                                  *)
(***************************************************************************)
EXTENDS SessionApi

\* A session is busy while a resume of it awaits its execution.
Awaited(id) == \E r \in ResumeReqs : Session(r) = id /\ pc[r] = "awaiting"

\* The phase of a session, read off its entry and the handlers.
PhaseOf(id) ==
    CASE entry[id] = Unborn -> "absent"
      [] entry[id] # Unborn /\ Finished(id) -> "done"
      [] Idle(id) -> "idle"
      [] entry[id] # Unborn /\ Busy(id) -> IF Awaited(id) THEN "busy" ELSE "lost"

Protocol ==
    INSTANCE SessionProtocol WITH
        Sessions <- CreateReqs,
        phase    <- [id \in CreateReqs |-> PhaseOf(id)],
        steps    <- [id \in CreateReqs |-> entry[id].snapshot.seq],
        listed   <- [id \in CreateReqs |-> id \in store]

\* Seen by its owner, a session only ever makes the moves of the protocol: it
\* is opened once, advances one step per answer, comes back unharmed from a
\* rejected answer, and never gets out of being done or lost (the create and
\* resume handlers as a whole).
FollowsProtocol == Protocol!ProtocolSafety

\* Besides, it does not stay busy: whoever resumed it records, restores or
\* loses its program in the end (the resume handler and the timeout layer).
ImplementsProtocol == Protocol!ProtocolSpec
=============================================================================
