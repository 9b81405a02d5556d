--------------------------- MODULE MCPackFileSync ---------------------------
(* Instances of PackFileSync for TLC.                                      *)
EXTENDS PackFileSync

CONSTANTS s1, s2

\* std::map iterates in the order of the keys: s1 before s2.
MCKeysInOrder == [K \in SUBSET Systems |->
                     SelectSeq(<<s1, s2>>, LAMBDA s : s \in K)]
=============================================================================
