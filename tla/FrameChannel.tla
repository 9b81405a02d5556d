---------------------------- MODULE FrameChannel ----------------------------
(***************************************************************************)
(* What DataServer promises of the frames of a connection: they are saved  *)
(* in the order they were received, none twice.  Frames may be missing     *)
(* where a write failed, at the end of a connection that was cut short,    *)
(* and where the process died; then no earlier frame is saved any more.    *)
(* The frames TransmitServer writes to one link to DataServer are promised *)
(* the same: ServerLink implements this channel, too.                      *)
(***************************************************************************)
EXTENDS Naturals, Sequences

CONSTANTS
    Sessions, Files,  \* connections, and the files their frames are saved in
    FileOf,           \* the file of each connection
    MaxFrames         \* bound: frames received in all

VARIABLES
    from,     \* the connection of each frame, in the order they were received
    pending,  \* for each connection, its frames that are not saved yet
    saved,    \* the frames in each file
    ended     \* connections from which nothing more is received

vars == <<from, pending, saved, ended>>

Init ==
    /\ from = << >>
    /\ pending = [s \in Sessions |-> {}]
    /\ saved = [y \in Files |-> << >>]
    /\ ended = {}

\* Frames are numbered as they are received.
Receive(s) ==
    /\ s \notin ended /\ Len(from) < MaxFrames
    /\ from' = Append(from, s)
    /\ pending' = [pending EXCEPT ![s] = @ \union {Len(from')}]
    /\ UNCHANGED <<saved, ended>>

\* P are frames of Q that were received before the others.
First(P, Q) == P \subseteq Q /\ \A f \in P, g \in Q \ P : f < g

\* The frames of each connection are in the order they were received.
InOrder(q) ==
    \A i, j \in DOMAIN q : i < j /\ from[q[i]] = from[q[j]] => q[i] < q[j]

\* The sequences that hold each frame of P, and no other.
Blocks(P) ==
    {b \in UNION {[1 .. n -> P] : n \in 1 .. MaxFrames} :
        \A f \in P : \E i \in DOMAIN b : b[i] = f}

\* A write takes the first frames of some connections, and saves them in their file
\* or fails.
Write ==
    \E now \in SUBSET UNION {pending[s] : s \in Sessions} :
        /\ \A s \in Sessions : First(now \intersect pending[s], pending[s])
        /\ pending' = [s \in Sessions |-> pending[s] \ now]
        /\ \/ saved' = saved
           \/ \E y \in Files, block \in Blocks(now) :
                 /\ InOrder(block) /\ \A f \in now : FileOf[from[f]] = y
                 /\ saved' = [saved EXCEPT ![y] = @ \o block]
        /\ UNCHANGED <<from, ended>>

\* A connection ends; its last frames may be lost, now or later.
End(s) ==
    /\ ended' = ended \union {s}
    /\ \E rest \in SUBSET pending[s] :
          /\ First(rest, pending[s])
          /\ pending' = [pending EXCEPT ![s] = rest]
    /\ UNCHANGED <<from, saved>>

Crash ==
    /\ ended' \in SUBSET Sessions /\ ended \subseteq ended'
    /\ pending' = [s \in Sessions |-> {}]
    /\ UNCHANGED <<from, saved>>

Next == (\E s \in Sessions : Receive(s) \/ End(s)) \/ Write \/ Crash

Spec == Init /\ [][Next]_vars
=============================================================================
