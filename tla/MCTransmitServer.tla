-------------------------- MODULE MCTransmitServer --------------------------
(* Instances of TransmitServer and PackTransmitServer for TLC.             *)
EXTENDS PackTransmitServer, TLC

CONSTANTS c1, c2, a1, a2, g1

\* Each step is one of the program of pack/ or of the one beside it: among these
\* behaviours are all those of either program.
EitherSpec == Init /\ [][PackNext \/ Next]_vars

Symmetry == {f @@ g : f \in Permutations(Sessions), g \in Permutations(Addresses)}

\* States are told apart by what a later step or a property may still read: not
\* by what was queued for DataServer (lastCmd), by the frames sent to a client
\* that is not connected or does not monitor the gprs any more, nor by the missed
\* beats of a session that is gone, nor the rivals of one.
View == <<reads, srcAddress, exit, writes, maps, mutexes, io, reader, skipped,
          [c \in Sessions |-> IF Ended(c) /\ c \notin Live THEN 0 ELSE beat[c]],
          {p \in rivals : ~ Ended(p[1])},
          {p \in told : p[1] \in Live \union {ioC} /\ entry[p[2]].f91},
          {p \in has90 : p[1] \in entry[p[2]].clients}>>
=============================================================================
