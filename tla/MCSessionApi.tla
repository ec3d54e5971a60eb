---------------------------- MODULE MCSessionApi ----------------------------
(***************************************************************************)
(* Model values and symmetry for checking SessionApi with TLC.             *)
(***************************************************************************)
EXTENDS SessionRefinement, TLC

\* Requests of exactly the same routes are interchangeable.
RequestSymmetry ==
    UNION {Permutations(reqs) : reqs \in
              {CreateReqs, RunReqs, ResumeReqs, StatusReqs \ DeleteReqs,
               DeleteReqs \ StatusReqs, StatusReqs \cap DeleteReqs}}

\* No client sends a ttl_seconds.
DefaultOnly == {NoTtl}
=============================================================================
