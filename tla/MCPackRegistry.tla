----------------------------- MODULE MCPackRegistry ---------------------------
(* Instances of PackRegistry for TLC.                                      *)
EXTENDS PackRegistry, TLC

CONSTANTS s1, s2, g1, g2

\* Two sessions of one gprs; the second may log in under another address, too.
TwoNames == [s \in Sessions |-> IF s = s1 THEN {g1} ELSE {g1, g2}]
=============================================================================
