---------------------------- MODULE MCRelayJni -----------------------------
(***************************************************************************)
(* Instances of RelayJni for TLC.  Registrations are interchangeable, and  *)
(* so are client threads.                                                  *)
(***************************************************************************)
EXTENDS RelayJni, TLC

Interchangeable ==
    Permutations(Valid) \cup Permutations(Cameras \ Valid) \cup Permutations(Clients)
=============================================================================
