---------------------------- MODULE MessageClient ----------------------------
(***************************************************************************)
(* DataServer's SMS client: one thread hands requests to the SMS server.   *)
(*                                                                         *)
(* SendMessage puts a request in the set m_writeQueue, which the thread    *)
(* moves to a list of its own and writes over TCP.  The set is cleared     *)
(* whenever a connection is made; the list survives a failed write and is  *)
(* tried again.  The SMS server is external: it accepts a connection or    *)
(* breaks it at any time.                                                  *)
(***************************************************************************)
EXTENDS Integers, Sequences, FiniteSets, SequencesExt

CONSTANT SmsRequests  \* the frames that ask for an SMS

VARIABLES
    writeQueue,  \* m_writeQueue
    list,        \* the requests the thread has in hand
    at,          \* where the thread is: "connect", "collect" or "send"
    sent,        \* history: the requests written to the SMS server, if only in part
    asked        \* history: the requests handed to SendMessage

smsVars == <<writeQueue, list, at, sent, asked>>

SmsInit ==
    /\ writeQueue = {} /\ list = << >>
    /\ at = "connect"
    /\ sent = {} /\ asked = {}

\* SendMessage, called by the thread of the client link, with a frame object made
\* for it: a request is handed over once.
SendMessage(r) ==
    /\ r \notin asked /\ asked' = asked \union {r}
    /\ writeQueue' = writeQueue \union {r}
    /\ UNCHANGED <<list, at, sent>>

\* ConnectToMessageServer returns only when it has a connection.
Connect ==
    /\ at = "connect"
    /\ writeQueue' = {}
    /\ at' = "collect"
    /\ UNCHANGED <<list, sent, asked>>

\* Mutant: the set is not cleared after it was copied.
CollectKeeps ==
    /\ at = "collect"
    /\ \E order \in SetToSeqs(writeQueue) :
          /\ list' = list \o order
          /\ at' = IF list' = << >> THEN "collect" ELSE "send"
    /\ UNCHANGED <<writeQueue, sent, asked>>

\* The set is ordered by address in memory: any order.
Collect ==
    /\ at = "collect"
    /\ \E order \in SetToSeqs(writeQueue) :
          /\ list' = list \o order
          /\ at' = IF list' = << >> THEN "collect" ELSE "send"
    /\ writeQueue' = {}
    /\ UNCHANGED <<sent, asked>>

\* write_some may pass a part of the frame; it is dropped all the same.
Send ==
    /\ at = "send"
    /\ sent' = sent \union {Head(list)}
    /\ list' = Tail(list)
    /\ at' = IF list' = << >> THEN "collect" ELSE "send"
    /\ UNCHANGED <<writeQueue, asked>>

\* The write throws: connect again, with the list still in hand.
SendFails ==
    /\ at = "send"
    /\ at' = "connect"
    /\ UNCHANGED <<writeQueue, list, sent, asked>>

WriteMessageT == Connect \/ Collect \/ Send \/ SendFails

SmsNext == (\E r \in SmsRequests : SendMessage(r)) \/ WriteMessageT

SmsSpec == SmsInit /\ [][SmsNext]_smsVars

SmsTypeOK ==
    /\ writeQueue \subseteq SmsRequests
    /\ list \in Seq(SmsRequests) /\ sent \subseteq SmsRequests /\ asked \subseteq SmsRequests
    /\ at \in {"connect", "collect", "send"}

\* A request is in one place only: waiting, in hand or sent.
OnePlace ==
    /\ IsInjective(list)
    /\ writeQueue \intersect (ToSet(list) \union sent) = {}
    /\ ToSet(list) \intersect sent = {}
=============================================================================
