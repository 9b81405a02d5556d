----------------------------- MODULE ServerLink -----------------------------
(***************************************************************************)
(* The unix-domain link between the two servers.  DataServer listens and   *)
(* reads the commands of one connection at a time                          *)
(* (tsdb_server::HandleClientConnection); each connection it accepts has a *)
(* writer thread (WriteToClientT) that takes frames from one shared queue. *)
(* TransmitServer has one thread that connects and writes the commands     *)
(* (ClientServer::HandleConnectToServer) and a reader for each connection  *)
(* (HandleReceiveFromServer).                                              *)
(*                                                                         *)
(* Frames are numbers: commands go to DataServer, notices to               *)
(* TransmitServer.  What the sessions put in the queues is external here   *)
(* (Registry and TransmitServer model it).  Either process may be killed   *)
(* and started again; the sockets of a process close when it dies, and     *)
(* what a connection holds can be read until it is drained.  Neither       *)
(* process ignores SIGPIPE: a write to a connection whose other end is     *)
(* closed is the end of the process, which stays down until it is started. *)
(*                                                                         *)
(* Left out: a wrong lead code, as every frame is written whole by one of  *)
(* the two servers; a reader of TransmitServer that is between two frames  *)
(* when its descriptor is given to the next connection, or that closes it  *)
(* because a frame breaks off in its data.  The two lines of DataServer's  *)
(* "goto accept" are one step: Registry splits them.                       *)
(***************************************************************************)
EXTENDS Integers, Sequences, FiniteSets, SequencesExt

CONSTANTS
    MaxLinks,     \* bound: connections made
    MaxCommands,  \* bound: frames TransmitServer queues
    MaxNotices,   \* bound: frames DataServer queues
    MaxRestarts   \* bound: how often the two processes are started again

ASSUME BoundsAssumption ==
    {MaxLinks, MaxCommands, MaxNotices, MaxRestarts} \subseteq Nat

Links == 1 .. MaxLinks   \* connections, in the order they are made
None == 0                \* no connection, no descriptor
Fds == 1 .. MaxLinks     \* descriptors DataServer gives to connections

VARIABLES
    up,         \* commands a connection holds
    down,       \* notices a connection holds
    made,       \* connections made so far
    restarts,
    \* DataServer
    dPc,        \* HandleClientConnection: "reset", "accept" or "read"; "dead"
    dSock,      \* clientSock
    fd,         \* the connection of each descriptor; None: it is closed
    backlog,    \* connections not accepted yet
    clientValid,\* m_isClientValid
    toClient,   \* m_writeToClientQueue
    writer,     \* the WriteToClientT started for each connection: fd and hand
    commands,   \* commands read so far
    notices,    \* number of notices queued so far
    \* TransmitServer (m_isConnValid is tSock # None)
    tUp,        \* it runs
    tSock,      \* sockfd of HandleConnectToServer; None: it connects
    toServer,   \* m_writeToServerQueue
    hand,       \* its local list
    readers,    \* connections with a HandleReceiveFromServer thread
    from,       \* life of the process in which each command was queued
    life,       \* the life it is in
    told        \* notices read so far

linkVars == <<up, down, made, restarts>>
dVars == <<dPc, dSock, fd, backlog, clientValid, toClient, writer, commands,
           notices>>
tVars == <<tUp, tSock, toServer, hand, readers, from, life, told>>
vars == <<linkVars, dVars, tVars>>

NoWriter == [fd |-> None, hand |-> << >>]

Init ==
    /\ up = [c \in Links |-> << >>] /\ down = [c \in Links |-> << >>]
    /\ made = 0 /\ restarts = 0
    /\ dPc = "reset" /\ dSock = None /\ fd = [n \in Fds |-> None]
    /\ backlog = << >> /\ clientValid = FALSE /\ toClient = << >>
    /\ writer = [c \in Links |-> NoWriter] /\ commands = << >> /\ notices = 0
    /\ tUp = TRUE /\ tSock = None /\ toServer = << >> /\ hand = << >>
    /\ readers = {} /\ from = << >> /\ life = 0 /\ told = << >>

\* DataServer's end of c is open: a descriptor or the backlog refers to it.
DOpen(c) == c \in ToSet(backlog) \/ \E n \in Fds : fd[n] = c

\* TransmitServer's end of c is open.
TOpen(c) == tSock = c

-----------------------------------------------------------------------------
(* DataServer                                                              *)

\* goto accept: the link is not valid and its queue is emptied.
Reset ==
    /\ dPc = "reset"
    /\ clientValid' = FALSE /\ toClient' = << >> /\ dPc' = "accept"
    /\ UNCHANGED <<linkVars, tVars, dSock, fd, backlog, writer, commands, notices>>

\* accept returns any free descriptor; the new connection gets its writer.
Accept(n) ==
    /\ dPc = "accept" /\ backlog # << >> /\ fd[n] = None
    /\ dSock' = n /\ fd' = [fd EXCEPT ![n] = Head(backlog)]
    /\ writer' = [writer EXCEPT ![Head(backlog)] = [fd |-> n, hand |-> << >>]]
    /\ backlog' = Tail(backlog)
    /\ toClient' = << >> /\ clientValid' = TRUE /\ dPc' = "read"
    /\ UNCHANGED <<linkVars, tVars, commands, notices>>

\* A frame is read and handled.
ReadCommand ==
    /\ dPc = "read"
    /\ LET c == fd[dSock] IN
          /\ up[c] # << >>
          /\ commands' = Append(commands, Head(up[c]))
          /\ up' = [up EXCEPT ![c] = Tail(@)]
    /\ UNCHANGED <<down, made, restarts, tVars, dPc, dSock, fd, backlog,
                   clientValid, toClient, writer, notices>>

LinkEnded == dPc = "read" /\ up[fd[dSock]] = << >> /\ ~TOpen(fd[dSock])

\* EndOfFile with the descriptor closed, as ReadError does.
EndOfFileCloses ==
    /\ LinkEnded
    /\ fd' = [fd EXCEPT ![dSock] = None] /\ dPc' = "reset"
    /\ UNCHANGED <<linkVars, tVars, dSock, backlog, clientValid, toClient, writer,
                   commands, notices>>

\* EndOfFile with a read of 0 bytes taken for an interrupted one.
EndOfFileIgnored == LinkEnded /\ UNCHANGED vars

\* The peer is gone: read returns 0, and the descriptor is left open.
EndOfFile ==
    /\ LinkEnded
    /\ dPc' = "reset"
    /\ UNCHANGED <<linkVars, tVars, dSock, fd, backlog, clientValid, toClient,
                   writer, commands, notices>>

\* ReadError without the goto: the closed connection is read on.
ReadErrorStays ==
    /\ LinkEnded /\ down[fd[dSock]] # << >>
    /\ fd' = [fd EXCEPT ![dSock] = None]
    /\ UNCHANGED <<linkVars, tVars, dPc, dSock, backlog, clientValid, toClient,
                   writer, commands, notices>>

\* The peer is gone and had not read all: read fails (ECONNRESET), and the
\* descriptor is closed while the writer of the connection still has its number.
ReadError ==
    /\ LinkEnded /\ down[fd[dSock]] # << >>
    /\ fd' = [fd EXCEPT ![dSock] = None] /\ dPc' = "reset"
    /\ UNCHANGED <<linkVars, tVars, dSock, backlog, clientValid, toClient, writer,
                   commands, notices>>

\* The writer of c ends when it sees that the link is not valid; else it takes
\* the whole queue.
WriterTakes(c) ==
    /\ writer[c].fd # None /\ writer[c].hand = << >>
    /\ \/ ~clientValid /\ writer' = [writer EXCEPT ![c] = NoWriter]
          /\ UNCHANGED toClient
       \/ clientValid /\ toClient # << >>
          /\ writer' = [writer EXCEPT ![c].hand = toClient] /\ toClient' = << >>
    /\ UNCHANGED <<linkVars, tVars, dPc, dSock, fd, backlog, clientValid, commands,
                   notices>>

\* It writes its frames without a further look at the flag, to whatever its
\* descriptor means by now; on a closed descriptor it repeats the write for ever.
WriterWrites(c) ==
    LET d == fd[writer[c].fd] IN
    /\ writer[c].hand # << >> /\ d # None /\ TOpen(d)
    /\ down' = [down EXCEPT ![d] = Append(@, Head(writer[c].hand))]
    /\ writer' = [writer EXCEPT ![c].hand = Tail(@)]
    /\ UNCHANGED <<up, made, restarts, tVars, dPc, dSock, fd, backlog, clientValid,
                   toClient, commands, notices>>

\* The process ends; what its sockets held is lost.
DataServerEnds(pc) ==
    /\ up' = [c \in Links |-> << >>]
    /\ dPc' = pc /\ dSock' = None /\ fd' = [n \in Fds |-> None]
    /\ backlog' = << >> /\ clientValid' = FALSE /\ toClient' = << >>
    /\ writer' = [c \in Links |-> NoWriter]
    /\ UNCHANGED <<down, made, tVars, commands, notices>>

\* If the other end is closed, the write raises SIGPIPE.
WriterDies(c) ==
    LET d == fd[writer[c].fd] IN
    /\ writer[c].hand # << >> /\ d # None /\ ~TOpen(d)
    /\ DataServerEnds("dead")
    /\ UNCHANGED restarts

\* A session queues a notice, if the link is valid (external: Registry).
Notify ==
    /\ clientValid /\ notices < MaxNotices
    /\ notices' = notices + 1 /\ toClient' = Append(toClient, notices')
    /\ UNCHANGED <<linkVars, tVars, dPc, dSock, fd, backlog, clientValid, writer,
                   commands>>

\* DataServer is started, after it was killed if need be.
DRestart ==
    /\ restarts < MaxRestarts /\ restarts' = restarts + 1
    /\ DataServerEnds("reset")

-----------------------------------------------------------------------------
(* TransmitServer                                                          *)

\* connect succeeds as soon as the connection is in the backlog; the reader of
\* the connection is started.
Connect ==
    /\ tUp /\ dPc # "dead" /\ tSock = None /\ made < MaxLinks
    /\ made' = made + 1 /\ tSock' = made' /\ readers' = readers \union {made'}
    /\ backlog' = Append(backlog, made')
    /\ UNCHANGED <<up, down, restarts, dPc, dSock, fd, clientValid, toClient,
                   writer, commands, notices, tUp, toServer, hand, from, life, told>>

\* The write thread takes the whole queue.
Take ==
    /\ tSock # None /\ hand = << >> /\ toServer # << >>
    /\ hand' = toServer /\ toServer' = << >>
    /\ UNCHANGED <<linkVars, dVars, tUp, tSock, readers, from, life, told>>

Write ==
    /\ tSock # None /\ hand # << >> /\ DOpen(tSock)
    /\ up' = [up EXCEPT ![tSock] = Append(@, Head(hand))] /\ hand' = Tail(hand)
    /\ UNCHANGED <<down, made, restarts, dVars, tUp, tSock, toServer, readers,
                   from, life, told>>

\* The process ends with its queue and its sockets.
TransmitServerEnds(startsAgain) ==
    /\ tUp' = startsAgain /\ life' = IF tUp THEN life + 1 ELSE life
    /\ tSock' = None /\ toServer' = << >> /\ hand' = << >> /\ readers' = {}
    /\ UNCHANGED <<up, down, made, dVars, from, told>>

\* WriteFails if SIGPIPE were ignored and the list went back into the queue, behind
\* newer commands.
WriteFailsRequeues ==
    /\ tSock # None /\ hand # << >> /\ ~DOpen(tSock)
    /\ tSock' = None /\ toServer' = toServer \o hand /\ hand' = << >>
    /\ UNCHANGED <<linkVars, dVars, tUp, readers, from, life, told>>

\* WriteFails if SIGPIPE were ignored and the list written again on the same
\* socket, as WriteToClientT does on most errors.
WriteFailsAgain ==
    /\ tSock # None /\ hand # << >> /\ ~DOpen(tSock)
    /\ UNCHANGED vars

\* DataServer's end is closed: a write raises SIGPIPE; one that was under way when
\* it was closed with commands unread (ECONNRESET), or that is on a descriptor the
\* reader has closed, fails, then the socket is closed, too, and the rest of the
\* local list is lost.
WriteFails ==
    /\ tSock # None /\ hand # << >> /\ ~DOpen(tSock)
    /\ \/ TransmitServerEnds(FALSE) /\ UNCHANGED restarts
       \/ /\ tSock' = None /\ hand' = << >>
          /\ UNCHANGED <<linkVars, dVars, tUp, toServer, readers, from, life, told>>

ReadNotice(c) ==
    /\ c \in readers /\ TOpen(c) /\ down[c] # << >>
    /\ told' = Append(told, Head(down[c]))
    /\ down' = [down EXCEPT ![c] = Tail(@)]
    /\ UNCHANGED <<up, made, restarts, dVars, tUp, tSock, toServer, hand, readers,
                   from, life>>

\* The reader sees the end of its connection, or that its socket is closed, and
\* ends; the write thread hears nothing of it, even if the connection broke off
\* in the data of a frame and the reader closed the descriptor: its next write is
\* one that fails.
ReaderEnds(c) ==
    /\ c \in readers
    /\ ~TOpen(c) \/ (down[c] = << >> /\ ~DOpen(c))
    /\ readers' = readers \ {c}
    /\ UNCHANGED <<linkVars, dVars, tUp, tSock, toServer, hand, from, life, told>>

\* A command is queued (external: TransmitServer).
Command ==
    /\ tUp /\ Len(from) < MaxCommands
    /\ from' = Append(from, life) /\ toServer' = Append(toServer, Len(from'))
    /\ UNCHANGED <<linkVars, dVars, tUp, tSock, hand, readers, life, told>>

\* TransmitServer is started, after it was killed if need be.
TRestart ==
    /\ restarts < MaxRestarts /\ restarts' = restarts + 1
    /\ TransmitServerEnds(TRUE)

-----------------------------------------------------------------------------
HandleClientConnection ==
    \/ Reset \/ (\E n \in Fds : Accept(n)) \/ ReadCommand \/ EndOfFile \/ ReadError

WriteToClientT(c) == WriterTakes(c) \/ WriterWrites(c) \/ WriterDies(c)

HandleConnectToServer == Connect \/ Take \/ Write \/ WriteFails

HandleReceiveFromServer(c) == ReadNotice(c) \/ ReaderEnds(c)

Next ==
    \/ HandleClientConnection \/ HandleConnectToServer
    \/ \E c \in Links : WriteToClientT(c) \/ HandleReceiveFromServer(c)
    \/ Notify \/ Command \/ DRestart \/ TRestart

Spec == Init /\ [][Next]_vars

\* Every thread runs on; nothing makes frames come or processes restart.
Fairness ==
    /\ WF_vars(HandleClientConnection) /\ WF_vars(HandleConnectToServer)
    /\ \A c \in Links :
          WF_vars(WriteToClientT(c)) /\ WF_vars(HandleReceiveFromServer(c))

FairSpec == Spec /\ Fairness

-----------------------------------------------------------------------------
Commands == 1 .. MaxCommands
Notices == 1 .. MaxNotices

TypeOK ==
    /\ up \in [Links -> Seq(Commands)] /\ down \in [Links -> Seq(Notices)]
    /\ made \in 0 .. MaxLinks /\ restarts \in 0 .. MaxRestarts
    /\ dPc \in {"reset", "accept", "read", "dead"} /\ dSock \in Fds \union {None}
    /\ fd \in [Fds -> Links \union {None}]
    /\ dPc = "read" => dSock \in Fds /\ fd[dSock] \in Links
    /\ backlog \in Seq(Links) /\ clientValid \in BOOLEAN
    /\ toClient \in Seq(Notices) /\ notices \in 0 .. MaxNotices
    /\ writer \in [Links -> [fd : Fds \union {None}, hand : Seq(Notices)]]
    /\ commands \in Seq(Commands)
    /\ tUp \in BOOLEAN /\ tSock \in Links \union {None}
    /\ toServer \in Seq(Commands) /\ hand \in Seq(Commands) /\ readers \subseteq Links
    /\ from \in Seq(Nat) /\ life \in 0 .. MaxRestarts + 1 /\ told \in Seq(Notices)

\* The commands that are under way, and those that were queued in life l.
UnderWay ==
    (UNION {ToSet(up[c]) : c \in Links}) \union ToSet(hand) \union ToSet(toServer)
OfLife(l) == {n \in UnderWay : from[n] = l}

Lives == 0 .. MaxRestarts + 1
PendingOfLives == [l \in Lives |-> OfLife(l)]
ReadOfLives == [y \in {"commands"} |-> commands]

\* For each life of TransmitServer the link is one channel: its commands reach
\* DataServer in the order they were queued and none reaches it twice, over lost
\* connections and restarts of both processes.
Channel == INSTANCE FrameChannel WITH
    Sessions  <- Lives,
    Files     <- {"commands"},
    FileOf    <- [l \in Lives |-> "commands"],
    MaxFrames <- MaxCommands,
    pending   <- PendingOfLives,
    saved     <- ReadOfLives,
    ended     <- 0 .. life - 1

IsChannel == Channel!Spec

\* TransmitServer is told the notices in the order in which they were queued, and
\* none twice, as long as no connection ended with notices that nobody read: then
\* the read of DataServer fails, the descriptor is closed and given out again, and
\* the old writer puts what it still holds on the new link.
ToldInOrder ==
    (\A c \in Links \ {tSock} : down[c] = << >>)
        => \A i, j \in DOMAIN told : i < j => told[i] < told[j]

\* No process is killed any more, DataServer runs, and the link is up or can be made.
Lasting ==
    /\ restarts = MaxRestarts /\ dPc # "dead"
    /\ (tUp /\ tSock = None /\ made < MaxLinks) \/ (tSock # None /\ DOpen(tSock))

\* A command queued then reaches DataServer: what was lost before, or is left of
\* older links in the backlog, does not keep it back; only the writer of an older
\* link can still end DataServer.
EveryCommandArrives ==
    \A n \in Commands :
        (Lasting /\ n \in ToSet(hand \o toServer))
            ~> (n \in ToSet(commands) \/ dPc = "dead")

\* Nothing stays with the write thread, whatever becomes of the link: a command
\* it has taken is written or lost.
EveryCommandLeaves ==
    \A n \in Commands : (n \in ToSet(hand)) ~> (n \notin ToSet(hand))
=============================================================================
