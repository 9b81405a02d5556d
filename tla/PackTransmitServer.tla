------------------------- MODULE PackTransmitServer -------------------------
(***************************************************************************)
(* The TransmitServer under pack/.  It differs in one place: a gprs whose  *)
(* last client is found to have left, while one of its frames is sent to   *)
(* the clients that monitor it, is dropped.  The 92 frame it then queues   *)
(* carries the gprs as source and no destination; DataServer looks at the  *)
(* destination and stops no gprs, so that lastCmd stays what it was.  The  *)
(* next frame of the gprs is answered by Reject.                           *)
(***************************************************************************)
EXTENDS TransmitServer

\* ClientSession.cpp
PackSession(c) ==
    \/ Accept(c) \/ ReadFrame(c) \/ ReadError(c) \/ Written(c) \/ WriteError(c)
PackHandle == Handle90 \/ HandleF3 \/ HandleOther

\* ClientServer.cpp: the clients ...
PackAdd == AddClient \/ TellClient
PackRemove == RemoveClient
PackStart(g) == StartMonitoring(g) \/ JoinMonitoring(g)
PackStop(g) == StopForced(g) \/ StopOnly(g) \/ StopOther(g)
PackHeartBeat == HeartBeat \/ HeartBeatNull

\* ... and the frames from DataServer.
PackReject(g) == Reject(g)
PackReceive(g) ==
    \/ Receive90(g) \/ Receive91(g) \/ Receive88(g)
    \/ ReceiveEE07(g) \/ ReceiveEE08(g)
PackBroadcastAll == BroadcastAll \/ BroadcastNull

PackReceiveDataHasty(g) ==  \* mutant: dropped once any of the clients has left
    /\ rdPc = "idle" /\ Enters(gprsM, "reader")
    /\ entry[g].in
    /\ \E o \in Outcomes(g) :
          /\ StartWrite(o.served)
          /\ IF o.erased # {} THEN Erase(g) ELSE UNCHANGED <<entry, has90>>
          /\ skipped' = (skipped \/ o.erased # {})
    /\ UNCHANGED <<conn, saved, mutexes, io, reader, lastCmd, told>>

PackReceiveData(g) ==
    /\ rdPc = "idle" /\ Enters(gprsM, "reader")
    /\ entry[g].in
    /\ \E o \in Outcomes(g) :
          LET left == entry[g].clients \ o.erased IN
          /\ StartWrite(o.served)
          /\ IF left = {} THEN Erase(g)
             ELSE entry' = [entry EXCEPT ![g].clients = left] /\ UNCHANGED has90
          /\ skipped' = (skipped \/ o.erased # {})
    /\ UNCHANGED <<conn, saved, mutexes, io, reader, lastCmd, told>>

PackNext ==
    \/ \E c \in Sessions : PackSession(c)
    \/ PackHandle \/ PackAdd \/ PackRemove \/ PackHeartBeat
    \/ \E g \in Gprs : \/ PackStart(g) \/ PackStop(g) \/ PackReject(g)
                       \/ PackReceive(g) \/ PackReceiveData(g)
    \/ QueueStop \/ QueueReject \/ PackBroadcastAll

PackSpec == Init /\ [][PackNext]_vars

-----------------------------------------------------------------------------
\* A frame of a gprs costs no client its monitoring that has not exited: the
\* entry is dropped only when nobody listens, though the loop that finds this out
\* erases at its iterator and may pass over any of the clients.
MonitorsStay ==
    [][\A g \in Gprs : PackReceiveData(g) =>
           {c \in entry[g].clients : ~ exit[c]} \subseteq entry'[g].clients]_vars
=============================================================================
