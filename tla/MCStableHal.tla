---------------------------- MODULE MCStableHal ----------------------------
(***************************************************************************)
(* Instances of StableHal for TLC.  Binders, registrations, threads,       *)
(* addresses and jobs are interchangeable; sessions are too, for safety.   *)
(***************************************************************************)
EXTENDS StableHal, TLC

Interchangeable ==
    Permutations(Platforms) \cup Permutations(Registrations) \cup Permutations(Sessions)
        \cup Permutations(Callers) \cup Permutations(Ahbs) \cup Permutations(Jobs)
=============================================================================
