---------------------------- MODULE SessionStore ----------------------------
(***************************************************************************)
(* The process-local session registry (src/session.rs): a concurrent       *)
(* map from ids to shared, individually locked entries.  A handler that    *)
(* fetched an entry keeps its Arc, so an entry outlives its removal from   *)
(* the map; `store` is the map's key set and `entry` the entries           *)
(* themselves.  Each operator is one critical section: a map operation or  *)
(* the work done under one entry lock.                                     *)
(*                                                                         *)
(* Definitions commented as faulty stand for plausible bugs.  They are not *)
(* part of the specification: put in the place of the definition that      *)
(* follows them, they show that the properties can fail.                   *)
(***************************************************************************)
EXTENDS Engine, Integers, FiniteSets

CONSTANTS CreateReqs,     \* create requests; a session's id is its create request,
                          \* so that, as with UUID v4, no id is issued twice
          Principals,     \* authenticated callers
          Nobody,         \* owner of an entry that does not exist yet
          MaxSessions,    \* config.sessions.max_sessions
          DefaultTtl,     \* config.sessions.default_ttl
          MaxTtl,         \* config.sessions.max_ttl
          MaxClock        \* bound on Instant::now()

ASSUME StoreAssumption ==
    /\ IsFiniteSet(CreateReqs)
    /\ Nobody \notin Principals
    /\ MaxSessions \in Nat
    /\ DefaultTtl \in Nat
    /\ MaxTtl \in Nat
    /\ MaxClock \in Nat

VARIABLES clock,    \* Instant::now()
          store,    \* ids listed in SessionStore::sessions
          entry     \* the SessionEntry of every id

storeVars == <<clock, store, entry>>

\* StepSnapshot: which step was recorded last, and how it ended.
Snapshot == [status: StepStatus \cup {"none"}, seq: Nat]

SessionEntry ==
    [principal: Principals \cup {Nobody},
     ttl: Nat,
     expires_at: Nat,
     progress: RunProgress \cup {NoProgress},
     terminal: BOOLEAN,
     snapshot: Snapshot]

Unborn ==
    [principal |-> Nobody, ttl |-> 0, expires_at |-> 0, progress |-> NoProgress,
     terminal |-> FALSE, snapshot |-> [status |-> "none", seq |-> 0]]

StoreTypeOK ==
    /\ clock \in 0..MaxClock
    /\ store \in SUBSET CreateReqs
    /\ entry \in [CreateReqs -> SessionEntry]

StoreInit ==
    /\ clock = 0
    /\ store = {}
    /\ entry = [id \in CreateReqs |-> Unborn]

-----------------------------------------------------------------------------

\* resolve_ttl: the requested value, or the default, capped by the maximum.
\* NoTtl stands for a request without ttl_seconds.
NoTtl == -1

ResolveTtl(requested) ==
    LET ttl == IF requested = NoTtl THEN DefaultTtl ELSE requested
    IN  IF ttl < MaxTtl THEN ttl ELSE MaxTtl

\* create, first part: the capacity check.
\* (Faulty: off by one.)
AboveCapacity == Cardinality(store) > MaxSessions

AtCapacity == Cardinality(store) >= MaxSessions

\* create, second part: split_step and the insertion.
Insert(id, principal, ttl, step) ==
    /\ store' = store \cup {id}
    /\ entry' = [entry EXCEPT ![id] =
                   [principal |-> principal,
                    ttl |-> ttl,
                    expires_at |-> clock + ttl,
                    progress |-> step.progress,
                    terminal |-> step.status # "paused",
                    snapshot |-> [status |-> step.status, seq |-> step.seq]]]
    /\ UNCHANGED clock

\* get: listed, and owned by the principal.  The ownership test of `remove`
\* is the same.
\* (Faulty: the owner is not compared.)
VisibleToAll(id, principal) == id \in store

Visible(id, principal) == id \in store /\ entry[id].principal = principal

\* DashMap::remove.
Unlist(id) ==
    /\ store' = store \ {id}
    /\ UNCHANGED <<clock, entry>>

\* acquire_for_resume, its three outcomes.
Finished(id) == entry[id].terminal

Busy(id) == ~entry[id].terminal /\ entry[id].progress = NoProgress

Idle(id) == ~entry[id].terminal /\ entry[id].progress # NoProgress

\* (Faulty: the progress is cloned, not taken.)
CloneProgress(id) == UNCHANGED storeVars

TakeProgress(id) ==
    /\ entry' = [entry EXCEPT ![id].progress = NoProgress]
    /\ UNCHANGED <<clock, store>>

\* restore.  (Faulty: the progress is let go.)
RestoreNothing(id, progress) == UNCHANGED storeVars

Restore(id, progress) ==
    /\ entry' = [entry EXCEPT ![id].progress = progress]
    /\ UNCHANGED <<clock, store>>

\* store_step: the new step replaces the old one and the TTL is extended.
\* (Faulty: the old snapshot stays.)
StoreStepOnly(id, step) ==
    /\ entry' = [entry EXCEPT ![id].progress = step.progress,
                              ![id].terminal = step.status # "paused",
                              ![id].expires_at = clock + entry[id].ttl]
    /\ UNCHANGED <<clock, store>>

StoreStep(id, step) ==
    /\ entry' = [entry EXCEPT ![id].progress = step.progress,
                              ![id].terminal = step.status # "paused",
                              ![id].snapshot = [status |-> step.status, seq |-> step.seq],
                              ![id].expires_at = clock + entry[id].ttl]
    /\ UNCHANGED <<clock, store>>

\* The test of reap_expired, made with a reading `now` of the clock.
ExpiredAt(id, now) == now >= entry[id].expires_at

\* Time passes.
Tick ==
    /\ clock < MaxClock
    /\ clock' = clock + 1
    /\ UNCHANGED <<store, entry>>
=============================================================================
