----------------------------- MODULE MCRegistry -----------------------------
(* Instances of Registry for TLC.                                          *)
EXTENDS Registry, TLC

CONSTANTS s1, g1

OneGprs == [s \in Sessions |-> {g1}]
=============================================================================
