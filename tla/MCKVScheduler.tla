---------------------------- MODULE MCKVScheduler ----------------------------
(* A scheduler with three nodes, the first of them shared, for TLC.        *)
EXTENDS KVScheduler

AllPolicies == {"round_robin", "least_loaded", "locality_aware"}
=============================================================================
