---------------------------- MODULE MCMonitoring ----------------------------
(* Instances of Monitoring for TLC.                                        *)
EXTENDS Monitoring

CONSTANTS c1, a1, g1
=============================================================================
