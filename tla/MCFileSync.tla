----------------------------- MODULE MCFileSync -----------------------------
(* Instances of FileSync for TLC.                                          *)
EXTENDS FileSync

CONSTANTS s1, s2

\* std::map iterates in the order of the keys: s1 before s2.
MCKeysInOrder == [K \in SUBSET Systems |->
                     SelectSeq(<<s1, s2>>, LAMBDA s : s \in K)]
=============================================================================
