-------------------------- MODULE MCEngineRuntime --------------------------
(* Instances of EngineRuntime for TLC. *)
EXTENDS EngineRuntime, TLC

\* The addresses are interchangeable; every property of the run is a safety property.
MCSymmetry == Permutations(Ips)
=============================================================================
