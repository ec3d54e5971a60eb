------------------------------- MODULE Limits -------------------------------
(***************************************************************************)
(* Execution limits (src/limits.rs): what a client asks for, and what is   *)
(* enforced.  Durations, bytes and counts are natural numbers.             *)
(***************************************************************************)
EXTENDS Integers

CONSTANTS Defaults, Ceilings      \* LimitBounds: default_*, max_*

\* The fields of LimitsRequest.
Resources == {"duration", "memory", "allocations", "depth"}

\* A field that the client left out.
Omitted == -1

LimitsRequest == [Resources -> Nat \cup {Omitted}]

ResolvedLimits == [Resources -> Nat]

ASSUME BoundsAssumption ==
    /\ Defaults \in ResolvedLimits
    /\ Ceilings \in ResolvedLimits

Lesser(m, n) == IF m < n THEN m ELSE n

\* Each value falls back to the default and is then clamped to the maximum.
\* (Faulty: the default is taken as it is.)
ResolveUnclamped(request) ==
    [r \in Resources |-> IF request[r] = Omitted THEN Defaults[r]
                                                 ELSE Lesser(request[r], Ceilings[r])]

Resolve(request) ==
    [r \in Resources |-> Lesser(IF request[r] = Omitted THEN Defaults[r] ELSE request[r],
                                Ceilings[r])]
=============================================================================
