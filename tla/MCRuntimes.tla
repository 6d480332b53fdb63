----------------------------- MODULE MCRuntimes ------------------------------
(* The managed runtime of one family, with probes that never time out.       *)
EXTENDS ManagedRuntimes

Spec == RuntimesInit /\ [][RuntimesNext]_runtimeVars
=============================================================================
