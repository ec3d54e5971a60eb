----------------------------- MODULE MCTracker -----------------------------
(***************************************************************************)
(* Limits and requests for checking Tracker with TLC.                      *)
(***************************************************************************)
EXTENDS Tracker

\* The default of one limit is above its maximum, of others below it.
ServerDefaults == [duration |-> 1, memory |-> 4, allocations |-> 1, depth |-> 1]

ServerCeilings == [duration |-> 2, memory |-> 3, allocations |-> 2, depth |-> 1]

\* One client leaves all limits out, one asks for less memory than the default
\* and for more of everything else than the maximum.
ClientRequests ==
    {[r \in Resources |-> Omitted],
     [duration |-> 9, memory |-> 2, allocations |-> 9, depth |-> 9]}
=============================================================================
