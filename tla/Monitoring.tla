----------------------------- MODULE Monitoring -----------------------------
(***************************************************************************)
(* TransmitServer and DataServer of pack/ together: what becomes of a      *)
(* request to monitor a gprs.                                              *)
(*                                                                         *)
(* TransmitServer is PackTransmitServer, whose reader now receives what    *)
(* DataServer has sent and whose 92 and 93 frames reach DataServer.        *)
(* Of DataServer the module has what the two can tell each other: which    *)
(* gprs are registered, which are relayed, who waits for an SMS.  A        *)
(* handler of the io thread is one step, Registry shows its parts; the     *)
(* link thread looks a gprs up and then does what the frame asks for step  *)
(* by step, while gprs come and go.  The link is a queue in each direction *)
(* that loses its rest when it breaks, as ServerLink shows; both servers   *)
(* outlive it only when one of them finds a frame with a wrong lead code.  *)
(* EE07 and 88 frames are left out, they change nothing here.  A gprs      *)
(* connects again after its connection has ended, and reports in one of    *)
(* the patterns DataServer answers.                                        *)
(***************************************************************************)
EXTENDS PackTransmitServer, SequencesExt

CONSTANTS
    MaxUnderWay,  \* bound: frames under way when a client or a gprs begins something
    MaxWaits,     \* bound: entries of m_messageQueue when a client asks for a gprs
    MaxBreaks     \* bound: how often the link breaks

ASSUME MonitoringAssumption ==
    /\ IsFiniteSet(Gprs)
    /\ MaxUnderWay \in Nat /\ MaxWaits \in Nat /\ MaxBreaks \in Nat

VARIABLES
    \* The link
    commands,  \* 92 and 93 frames for DataServer, queued or sent
    notices,   \* frames for TransmitServer, queued or sent
    linkUp,    \* m_isClientValid
    \* DataServer
    online,    \* gprs in m_gprsSession
    relay,     \* gprs whose session has m_isTransmit
    waiting,   \* how many entries of m_messageQueue each gprs has
    rest,      \* what is left of the frame the link thread handles: frames to queue,
               \* "stop" and "relay" for SetTransmit, "nothing" if it is called for a
               \* session that has ended, "wait" for PutToMessageQueue
    \* History
    breaks,    \* how often the link has broken
    unserved,  \* <<c, g>>: c has asked for g and has got no frame of it since
    unsaid     \* gprs of which the EE08 frame is lost, or is not the last word

link       == <<linkUp, breaks>>
dataServer == <<online, relay, waiting, rest>>
all == <<vars, commands, notices, link, dataServer, unserved, unsaid>>

MonitoringInit ==
    /\ Init
    /\ commands = << >> /\ notices = << >> /\ linkUp = TRUE
    /\ online = {} /\ relay = {} /\ waiting = [g \in Gprs |-> 0]
    /\ rest = << >> /\ breaks = 0 /\ unserved = {} /\ unsaid = {}

Frame(cmd, g) == [cmd |-> cmd, gprs |-> g]

\* The bounds on what clients and gprs start; a gprs may log in while the link
\* thread handles a frame.
Quiet == Len(commands) + Len(notices) < MaxUnderWay
Calm == Quiet /\ rest = << >>
MayWait == FoldFunction(+, 0, waiting) < MaxWaits

-----------------------------------------------------------------------------
(* TransmitServer: the clients.                                            *)

\* WriteToServerQueue: the queue is kept while there is no link.
Command(cmd, g) == commands' = Append(commands, Frame(cmd, g))

Ask(g) ==
    /\ Calm /\ MayWait
    /\ StartMonitoring(g)
    /\ Command("93", g)
    /\ unserved' = unserved \union {<<ioC, g>>}

Stop(g) ==
    /\ \/ StopOnly(g)
       \/ ioG = g /\ QueueStop
    /\ Command("92", g)
    /\ UNCHANGED unserved

Answer(g) ==
    /\ JoinMonitoring(g)
    /\ unserved' = unserved \ {<<ioC, g>>}
    /\ UNCHANGED commands

Other ==
    /\ \/ \E c \in Sessions : PackSession(c) /\ (Calm \/ ~ ReadFrame(c))
       \/ PackHandle \/ PackAdd \/ PackRemove \/ PackHeartBeat
       \/ \E g \in Gprs : StopOther(g) \/ (Calm /\ StopForced(g))
    /\ UNCHANGED <<commands, unserved>>

Clients ==
    /\ Other \/ \E g \in Gprs : Ask(g) \/ Stop(g) \/ Answer(g)
    /\ UNCHANGED <<notices, link, dataServer, unsaid>>

-----------------------------------------------------------------------------
(* TransmitServer: the reader gets the next frame.                         *)

\* Mutant: the entry stays without clients, as in the program beside pack/.
ReceiveOtherKeeps(g) == ReceiveData(g)

ReceiveOther(g) == PackReceiveData(g)

Handles(f) ==
    \/ f.cmd # "91" /\ Reject(f.gprs)
    \/ f.cmd = "90" /\ Receive90(f.gprs)
    \/ f.cmd = "91" /\ Receive91(f.gprs)
    \/ f.cmd = "EE08" /\ ReceiveEE08(f.gprs)
    \/ f.cmd = "other" /\ ReceiveOther(f.gprs)

\* A broadcast to the clients of the gprs serves them all, unless one has left.
Receive ==
    /\ notices # << >>
    /\ LET f == Head(notices) IN
       /\ Handles(f)
       /\ unserved' = IF f.cmd \in {"90", "other"} /\ ~ skipped'
                      THEN unserved \ (entry[f.gprs].clients \X {f.gprs})
                      ELSE unserved
    /\ notices' = Tail(notices)
    /\ UNCHANGED <<commands, link, dataServer, unsaid>>

ReceiveRest ==
    /\ \/ QueueReject /\ Command("92", rdG)
       \/ PackBroadcastAll /\ UNCHANGED commands
    /\ UNCHANGED <<notices, link, dataServer, unserved, unsaid>>

-----------------------------------------------------------------------------
(* DataServer: the gprs.                                                   *)

\* WriteToClientQueue drops a frame while there is no link.
Say(frames) == notices' = IF linkUp THEN notices \o frames ELSE notices

\* AddGprsConnection with the first 91 frame, which is forwarded, and relayed, too,
\* if someone waits for the gprs: then his entry leaves the list.  PushToQueue ends
\* the relay when there is no link.
Login(g) ==
    /\ Quiet /\ g \notin online
    /\ online' = online \union {g}
    /\ IF waiting[g] > 0
       THEN /\ waiting' = [waiting EXCEPT ![g] = @ - 1]
            /\ relay' = IF linkUp THEN relay \union {g} ELSE relay
            /\ Say(<<Frame("90", g), Frame("91", g), Frame("91", g)>>)
       ELSE /\ Say(<<Frame("91", g)>>)
            /\ UNCHANGED <<waiting, relay>>
    /\ unsaid' = unsaid \ {g}
    /\ UNCHANGED rest

\* The session is out of the registry.  If the link thread has it in hand, what it
\* sets in it means nothing any more.
Leave(g) ==
    /\ g \in online
    /\ online' = online \ {g} /\ relay' = relay \ {g}
    /\ rest' = [i \in DOMAIN rest |->
                   IF rest[i] \in {Frame("stop", g), Frame("relay", g)}
                   THEN Frame("nothing", g) ELSE rest[i]]
    /\ UNCHANGED waiting

LogoutStillRelayed(g) ==  \* mutant: the session that ends is relayed on
    /\ g \in online
    /\ online' = online \ {g}
    /\ Say(<<Frame("EE08", g)>>)
    /\ unsaid' = IF linkUp THEN unsaid ELSE unsaid \union {g}
    /\ UNCHANGED <<relay, waiting, rest>>

LogoutIfRelayed(g) ==  \* mutant: EE08 only for a gprs that is monitored
    /\ Leave(g)
    /\ IF g \in relay THEN Say(<<Frame("EE08", g)>>) ELSE UNCHANGED notices
    /\ unsaid' = IF linkUp THEN unsaid ELSE unsaid \union {g}

\* RemoveGprsConnection.
Logout(g) ==
    /\ Leave(g)
    /\ Say(<<Frame("EE08", g)>>)
    /\ unsaid' = IF linkUp THEN unsaid ELSE unsaid \union {g}

\* PushToQueue: the frames of a relayed gprs, and any 91 frame once more.
Push(g, cmd) ==
    LET If(b) == IF b THEN <<Frame(cmd, g)>> ELSE << >> IN
    /\ Calm /\ g \in online
    /\ Say(If(g \in relay) \o If(cmd = "91"))
    /\ relay' = IF linkUp THEN relay ELSE relay \ {g}
    /\ UNCHANGED <<online, waiting, rest, unsaid>>

TimeOutSilent(g) ==  \* mutant: the entry is dropped without an answer
    /\ waiting[g] > 0
    /\ waiting' = [waiting EXCEPT ![g] = @ - 1]
    /\ UNCHANGED <<notices, online, relay, rest, unsaid>>

\* HandleMessageTimeOut answers EE09.
TimeOut(g) ==
    /\ waiting[g] > 0
    /\ waiting' = [waiting EXCEPT ![g] = @ - 1]
    /\ Say(<<Frame("other", g)>>)
    /\ UNCHANGED <<online, relay, rest, unsaid>>

Gprses ==
    /\ \E g \in Gprs :
          \/ Login(g) \/ Logout(g)
          \/ \E cmd \in {"91", "other"} : Push(g, cmd)
    /\ UNCHANGED <<vars, commands, link, unserved>>

Timer ==
    /\ \E g \in Gprs : TimeOut(g)
    /\ UNCHANGED <<vars, commands, link, unserved>>

-----------------------------------------------------------------------------
(* DataServer: the link thread.                                            *)

Each(cmds, g) == [i \in DOMAIN cmds |-> Frame(cmds[i], g)]

\* For one that is not connected nothing happens.
Handle92(g) == rest' = IF g \in online THEN Each(<<"stop">>, g) ELSE << >>

\* A gprs that reports in real time is monitored from now on; of any other one
\* the client learns the pattern, and it is monitored only if he forces it.  One
\* that is not connected gets an SMS.
Handle93(g) ==
    \/ /\ g \in online
       /\ \E cmds \in {<<"other", "relay", "90", "91">>, <<"other">>, <<"other", "relay">>} :
             rest' = Each(cmds, g)
    \/ g \notin online /\ rest' = Each(<<"wait">>, g)

Handle ==
    /\ linkUp /\ commands # << >> /\ rest = << >>
    /\ LET f == Head(commands) IN
          \/ f.cmd = "92" /\ Handle92(f.gprs)
          \/ f.cmd = "93" /\ Handle93(f.gprs)
    /\ commands' = Tail(commands)
    /\ UNCHANGED <<vars, notices, link, online, relay, waiting, unserved, unsaid>>

\* The next thing that is left, whatever has become of the gprs.
HandleRest ==
    /\ rest # << >> /\ rest' = Tail(rest)
    /\ LET f == Head(rest) IN
       /\ relay' = CASE f.cmd = "relay" -> relay \union {f.gprs}
                     [] f.cmd = "stop"  -> relay \ {f.gprs}
                     [] OTHER           -> relay
       /\ waiting' = IF f.cmd = "wait" THEN [waiting EXCEPT ![f.gprs] = @ + 1]
                     ELSE waiting
       /\ IF f.cmd \in {"90", "91", "other"} THEN Say(<<f>>) ELSE UNCHANGED notices
       /\ unsaid' = IF f.cmd = "91" /\ f.gprs \notin online
                    THEN unsaid \union {f.gprs} ELSE unsaid
    /\ UNCHANGED <<vars, commands, link, online, unserved>>

-----------------------------------------------------------------------------
(* The link.                                                               *)

\* What was under way is lost from some point on: the first of the commands, the
\* last of the notices.  The link thread notices between two frames.
Break ==
    /\ linkUp /\ rest = << >> /\ breaks < MaxBreaks
    /\ linkUp' = FALSE /\ breaks' = breaks + 1
    /\ \E n \in 0 .. Len(commands) :
          commands' = SubSeq(commands, n + 1, Len(commands))
    /\ \E n \in 0 .. Len(notices) :
          /\ notices' = SubSeq(notices, 1, n)
          /\ unsaid' = unsaid \union
                {notices[i].gprs : i \in {j \in n + 1 .. Len(notices) :
                                             notices[j].cmd = "EE08"}}
    /\ UNCHANGED <<vars, dataServer, unserved>>

\* WriteToClientT begins with the 91 frames of the registry.
Relink ==
    /\ ~ linkUp
    /\ linkUp' = TRUE
    /\ \E order \in [1 .. Cardinality(online) -> online] :
          /\ online \subseteq Range(order)
          /\ notices' = notices \o [i \in DOMAIN order |-> Frame("91", order[i])]
    /\ UNCHANGED <<vars, commands, breaks, dataServer, unserved, unsaid>>

-----------------------------------------------------------------------------
MonitoringNext ==
    Clients \/ Receive \/ ReceiveRest \/ Gprses \/ Timer \/ Handle \/ HandleRest
        \/ Break \/ Relink

MonitoringSpec == MonitoringInit /\ [][MonitoringNext]_all

\* Threads that have work do it: the reader, the link thread of DataServer and its
\* timer, and TransmitServer's thread that connects again.
Fairness ==
    /\ WF_all(Receive) /\ WF_all(ReceiveRest)
    /\ WF_all(Handle) /\ WF_all(HandleRest) /\ WF_all(Timer) /\ WF_all(Relink)

FairMonitoringSpec == MonitoringSpec /\ Fairness

-----------------------------------------------------------------------------
Frames(cmds) == [cmd : cmds, gprs : Gprs]

\* Every variable keeps its type; only what is in the registry is relayed.
MonitoringTypeOK ==
    /\ commands \in Seq(Frames({"92", "93"}))
    /\ notices \in Seq(Frames({"90", "91", "EE08", "other"}))
    /\ linkUp \in BOOLEAN /\ breaks \in 0 .. MaxBreaks
    /\ online \subseteq Gprs /\ relay \subseteq online
    /\ waiting \in [Gprs -> Nat]
    /\ rest \in Seq(Frames({"90", "91", "other", "stop", "relay", "nothing", "wait"}))
    /\ \A i \in DOMAIN rest : rest[i].cmd = "relay" => rest[i].gprs \in online
    /\ unserved \subseteq Sessions \X Gprs /\ unsaid \subseteq Gprs

\* What TransmitServer believes of a gprs when it has read all that was sent of
\* it: one that it knows by a 91 frame is connected, unless its EE08 frame went
\* down with a link or a 93 frame was being answered with the 91 frame while it left.
OnlineAsTold ==
    \A g \in Gprs \ unsaid :
        entry[g].f91 /\ (\A i \in DOMAIN notices : notices[i].gprs # g)
            => g \in online

\* Who asks for a gprs hears of it: the 93 frame is answered by its pattern, by its
\* login, or by EE09 when the wait is over, and the answer finds the client, unless
\* it has left, has stopped the gprs or was told of its end, or the link broke.
EveryRequestAnswered ==
    \A c \in Sessions, g \in Gprs :
        <<c, g>> \in unserved
            ~> \/ <<c, g>> \notin unserved
               \/ exit[c] \/ reads[c] = "done" \/ c \notin entry[g].clients
               \/ skipped \/ breaks > 0

-----------------------------------------------------------------------------
(* What comments say.                                                      *)

Watched(g) == \E c \in entry[g].clients : ~ exit[c]

\* "If no client listens, close the gprs": one that goes on sending, and sends 91
\* frames no more, is not relayed for ever to nobody, over broken links, too.
VainRelayEnds ==
    \A g \in Gprs :
        \/ []<>(g \notin relay \/ Watched(g))
        \/ <>[][~ (g \in relay /\ Push(g, "other"))]_all
        \/ []<><<Login(g) \/ Push(g, "91")>>_all

UnderWay(g) == \/ \E i \in DOMAIN commands : commands[i].gprs = g
               \/ \E i \in DOMAIN rest : rest[i].gprs = g
               \/ \E i \in DOMAIN notices : notices[i].gprs = g

\* "Already monitored": a client that joins is answered so only if DataServer does
\* relay the gprs, or a frame that may change this is under way, or the last word
\* to DataServer was to stop.
AnsweredTruly ==
    [][\A g \in Gprs : JoinMonitoring(g) =>
           g \in relay \/ UnderWay(g) \/ lastCmd[g] = "92"]_all
=============================================================================
