----------------------------- MODULE MCCapture -----------------------------
(* Instances of Capture for TLC.                                           *)
EXTENDS Capture, TLC

CONSTANTS s1, s2, y1

\* Two gprs of one system (called by the name of their session) that share a list.
OwnAddress == [s \in Sessions |-> s]
OneSystem == [s \in Sessions |-> y1]
OneList == [a \in Addresses |-> 1]
=============================================================================
