--------------------------- MODULE TransmitServer ---------------------------
(***************************************************************************)
(* TransmitServer: monitoring clients and the gprs they monitor.           *)
(*                                                                         *)
(* The io thread runs every handler of the client sessions; the reader     *)
(* thread handles what DataServer sends; the heartbeat thread drops silent *)
(* clients.  They share m_clientSession (the connected clients) under      *)
(* m_clientSessionMutex and m_gprsMap (for each gprs, the clients that     *)
(* monitor it and its last 90 and 91 frames) under m_gprsMapMutex.  Both   *)
(* mutexes are recursive.  A step is what a thread does between taking a   *)
(* mutex and giving it back, or between two that are not nested.           *)
(*                                                                         *)
(* A session is one accepted connection; every frame it sends carries the  *)
(* same source address, which another session may carry, too: a client     *)
(* that connects again before its old session has ended.  DataServer is    *)
(* the environment: the reader may receive any frame.                      *)
(***************************************************************************)
EXTENDS Integers, Sequences, FiniteSets

CONSTANTS
    Sessions,    \* ClientSession objects: client connections
    Addresses,   \* source addresses of the clients
    Gprs,        \* addresses of gprs modules
    Limit,       \* CLINET_NUMBER
    BeatLimit,   \* heartbeats that may be missed (3)
    NoAddress,   \* the empty address
    NoSession,   \* no key in m_clientSession
    Null         \* a key of m_clientSession whose session is NULL

ASSUME AddressAssumption == NoAddress \notin Addresses
ASSUME LimitsAssumption == Limit \in Nat /\ BeatLimit \in Nat
ASSUME NoSessionAssumption ==
    NoSession \notin Sessions /\ Null \notin Sessions /\ NoSession # Null

VARIABLES
    \* Sessions
    reads,    \* the read chain: "none" before accept, "open", "last" when only
              \* an error can come, "done"
    srcAddress, \* m_srcAddress, empty until the first frame
    exit,     \* m_isExit; the socket is closed
    beat,     \* m_heartbeat
    rivals,   \* history; <<c, d>>: c and d carried one address at the same time
    writes,   \* the write chain: "idle", "busy" (async_write pending), "done"
    \* The two maps and the owner of their mutexes ("free" if none)
    saved,    \* m_clientSession
    entry,    \* m_gprsMap: whether the gprs is a key, and its GprsClientList
    clientM,  \* m_clientSessionMutex
    gprsM,    \* m_gprsMapMutex
    \* The io thread: what is left of the handler it is in, and for whom
    todo, ioC, ioG,
    \* The reader: where it is in HandleReceivedData, with a frame of rdG
    rdPc, rdG,
    \* History
    lastCmd,  \* the last of 92 and 93 queued for DataServer, for each gprs
    told,     \* <<c, g>>: c has been sent the last 91 frame of g
    has90,    \* <<c, g>>: c has been sent the 90 frame kept for g
    skipped   \* a broadcast found a client that had left

conn    == <<reads, srcAddress, exit, beat, rivals>>
maps    == <<saved, entry>>
mutexes == <<clientM, gprsM>>
io      == <<todo, ioC, ioG>>
reader  == <<rdPc, rdG>>
history == <<lastCmd, told, has90, skipped>>
vars == <<conn, writes, maps, mutexes, io, reader, history>>

NoEntry == [in |-> FALSE, clients |-> {}, f90 |-> FALSE, f91 |-> FALSE]

Init ==
    /\ reads = [c \in Sessions |-> "none"]
    /\ srcAddress = [c \in Sessions |-> NoAddress]
    /\ exit = [c \in Sessions |-> FALSE]
    /\ beat = [c \in Sessions |-> 0] /\ rivals = {}
    /\ writes = [c \in Sessions |-> "idle"]
    /\ saved = [a \in Addresses |-> NoSession]
    /\ entry = [g \in Gprs |-> NoEntry]
    /\ clientM = "free" /\ gprsM = "free"
    /\ todo = << >> /\ ioC = NoSession /\ ioG \in Gprs
    /\ rdPc = "idle" /\ rdG \in Gprs
    /\ lastCmd = [g \in Gprs |-> "none"]
    /\ told = {} /\ has90 = {} /\ skipped = FALSE

\* A recursive mutex lets thread t in.
Enters(mutex, t) == mutex \in {"free", t}

\* The session has sent a frame.
Named(c) == srcAddress[c] # NoAddress

\* No handler of the session will run any more.
Ended(c) == reads[c] = "done" /\ writes[c] # "busy"

\* StartWrite to every session of S: each has one async_write pending at most.
StartWrite(S) ==
    writes' = [c \in Sessions |-> IF c \in S /\ writes[c] = "idle"
                                  THEN "busy" ELSE writes[c]]

Live == {saved[a] : a \in Addresses} \ {NoSession, Null}
With91 == {g \in Gprs : entry[g].f91}

-----------------------------------------------------------------------------
(* The io thread.                                                          *)

Idle == todo = << >>
At(step) == todo # << >> /\ Head(todo) = step

\* What is left of the handler.
Then(rest) == todo' = rest /\ ioC' = IF rest = << >> THEN NoSession ELSE ioC

\* handle_accept.
Accept(c) ==
    /\ Idle /\ reads[c] = "none"
    /\ reads' = [reads EXCEPT ![c] = "open"]
    /\ UNCHANGED <<srcAddress, exit, beat, rivals, writes, maps, mutexes, io,
                   reader, history>>

\* handle_read_body has a frame: a session without an address takes it from the
\* frame and is added to the connected clients before the command is handled.
\* A frame that had been read when the socket was closed is handled, too.
ReadFrame(c) ==
    /\ Idle /\ reads[c] = "open"
    /\ reads' = [reads EXCEPT ![c] = IF exit[c] THEN "last" ELSE "open"]
    /\ \/ /\ Named(c) /\ todo' = <<"command">>
          /\ UNCHANGED <<srcAddress, rivals>>
       \/ /\ ~ Named(c) /\ todo' = <<"add", "command">>
          /\ \E a \in Addresses :
                LET others == {d \in Sessions : srcAddress[d] = a /\ ~ Ended(d)}
                IN  /\ srcAddress' = [srcAddress EXCEPT ![c] = a]
                    /\ rivals' = rivals \union ({c} \X others) \union (others \X {c})
    /\ ioC' = c
    /\ UNCHANGED <<exit, beat, writes, maps, mutexes, ioG, reader,
                   history>>

AddClientKeepsMutex ==  \* mutant: the mutex is not given back before the 91 frames
    /\ At("add") /\ Enters(clientM, "io")
    /\ saved[srcAddress[ioC]] = NoSession
    /\ saved' = [saved EXCEPT ![srcAddress[ioC]] = ioC]
    /\ Then([todo EXCEPT ![1] = "tell"])
    /\ clientM' = "io"
    /\ UNCHANGED <<conn, writes, entry, gprsM, ioG, reader, history>>

\* AddClientConnection saves the session unless its address is there already;
\* at the limit it saves nothing and returns with the mutex locked.
AddClient ==
    LET size == Cardinality({a \in Addresses : saved[a] # NoSession})
        address == srcAddress[ioC]
    IN
    /\ At("add") /\ Enters(clientM, "io")
    /\ \/ /\ size < Limit /\ saved[address] # NoSession
          /\ Then(Tail(todo))
          /\ UNCHANGED <<saved, clientM>>
       \/ /\ size < Limit /\ saved[address] = NoSession
          /\ saved' = [saved EXCEPT ![address] = ioC]
          /\ Then([todo EXCEPT ![1] = "tell"])
          /\ UNCHANGED clientM
       \/ /\ size >= Limit
          /\ clientM' = "io"
          /\ Then(Tail(todo))
          /\ UNCHANGED saved
    /\ UNCHANGED <<conn, writes, entry, gprsM, ioG, reader, history>>

\* ... and then sends the new client every 91 frame.
TellClient ==
    /\ At("tell") /\ Enters(gprsM, "io")
    /\ IF With91 = {} THEN UNCHANGED writes ELSE StartWrite({ioC})
    /\ told' = told \union ({ioC} \X With91)
    /\ Then(Tail(todo))
    /\ UNCHANGED <<conn, maps, mutexes, ioG, reader, lastCmd, has90,
                   skipped>>

\* Handle90Package: a response, and the client is added (again).
Handle90 ==
    /\ At("command")
    /\ StartWrite({ioC})
    /\ Then(<<"add">>)
    /\ UNCHANGED <<conn, maps, mutexes, ioG, reader, history>>

\* HandleF3Package.
HandleF3 ==
    /\ At("command")
    /\ beat' = [beat EXCEPT ![ioC] = 0]
    /\ StartWrite({ioC})
    /\ Then(<< >>)
    /\ UNCHANGED <<reads, srcAddress, exit, rivals, maps, mutexes, ioG, reader,
                   history>>

\* A frame of any other command changes nothing here (96 is put in the queue).
HandleOther ==
    /\ At("command")
    /\ Then(<< >>)
    /\ UNCHANGED <<conn, writes, maps, mutexes, ioG, reader, history>>

Join(g) == entry' = [entry EXCEPT ![g].in = TRUE,
                                   ![g].clients = @ \union {ioC}]

\* StartRealMonitoring: the first client, or one whose gprs has not answered
\* yet, has the 93 frame queued for DataServer ...
StartMonitoring(g) ==
    /\ At("command") /\ Enters(gprsM, "io")
    /\ ~ entry[g].f90
    /\ Join(g)
    /\ lastCmd' = [lastCmd EXCEPT ![g] = "93"]
    /\ Then(<< >>)
    /\ UNCHANGED <<conn, writes, saved, mutexes, ioG, reader, told, has90, skipped>>

JoinMonitoringSilent(g) ==  \* mutant: the 90 frame kept is not sent
    /\ At("command") /\ Enters(gprsM, "io")
    /\ entry[g].f90
    /\ Join(g)
    /\ StartWrite({ioC})
    /\ told' = told \union ({ioC} \X (With91 \intersect {g}))
    /\ Then(<< >>)
    /\ UNCHANGED <<conn, saved, mutexes, ioG, reader, lastCmd, has90,
                   skipped>>

\* ... the others are answered from the frames kept.
JoinMonitoring(g) ==
    /\ At("command") /\ Enters(gprsM, "io")
    /\ entry[g].f90
    /\ Join(g)
    /\ StartWrite({ioC})
    /\ has90' = has90 \union {<<ioC, g>>}
    /\ told' = told \union ({ioC} \X (With91 \intersect {g}))
    /\ Then(<< >>)
    /\ UNCHANGED <<conn, saved, mutexes, ioG, reader, lastCmd, skipped>>

Erase(g) == /\ entry' = [entry EXCEPT ![g] = NoEntry]
            /\ has90' = {p \in has90 : p[2] # g}

\* StopRealMonitoring with StopMode 1 drops the gprs for every client, and
\* queues the 92 frame once the mutex is free.
StopForced(g) ==
    /\ At("command") /\ Enters(gprsM, "io")
    /\ entry[g].in
    /\ Erase(g)
    /\ ioG' = g
    /\ Then(<<"stop">>)
    /\ UNCHANGED <<conn, writes, saved, mutexes, reader, lastCmd, told,
                   skipped>>

QueueStop ==
    /\ At("stop")
    /\ lastCmd' = [lastCmd EXCEPT ![ioG] = "92"]
    /\ Then(<< >>)
    /\ UNCHANGED <<conn, writes, maps, mutexes, ioG, reader, told, has90, skipped>>

\* Without it, the only client of the gprs ends the monitoring; ...
StopOnly(g) ==
    /\ At("command") /\ Enters(gprsM, "io")
    /\ entry[g].clients = {ioC}
    /\ StartWrite({ioC})
    /\ Erase(g)
    /\ lastCmd' = [lastCmd EXCEPT ![g] = "92"]
    /\ Then(<< >>)
    /\ UNCHANGED <<conn, saved, mutexes, ioG, reader, told, skipped>>

\* ... one of several is answered and stays, one that does not monitor it is not
\* answered, and an entry without clients is dropped.
StopOther(g) ==
    /\ At("command") /\ Enters(gprsM, "io")
    /\ entry[g].clients # {ioC}
    /\ IF ioC \in entry[g].clients \/ ~ entry[g].in
       THEN StartWrite({ioC}) ELSE UNCHANGED writes
    /\ IF entry[g].clients = {} THEN Erase(g) ELSE UNCHANGED <<entry, has90>>
    /\ Then(<< >>)
    /\ UNCHANGED <<conn, saved, mutexes, ioG, reader, lastCmd, told,
                   skipped>>

CloseOnce(c) ==  \* mutant: a session the heartbeat made exit is not removed
    /\ exit' = [exit EXCEPT ![c] = @ \/ Named(c)]
    /\ todo' = IF Named(c) /\ ~ exit[c] THEN <<"remove">> ELSE << >>
    /\ ioC' = IF Named(c) /\ ~ exit[c] THEN c ELSE NoSession
    /\ UNCHANGED <<srcAddress, beat, rivals, maps, mutexes, ioG, reader, history>>

\* CloseSession of a session with an address: it exits now, and leaves the
\* connected clients by its address.
Close(c) ==
    /\ exit' = [exit EXCEPT ![c] = @ \/ Named(c)]
    /\ todo' = IF Named(c) THEN <<"remove">> ELSE << >>
    /\ ioC' = IF Named(c) THEN c ELSE NoSession
    /\ UNCHANGED <<srcAddress, beat, rivals, maps, mutexes, ioG, reader, history>>

\* The read chain ends: wrong lead code, the peer left or the socket is closed.
ReadError(c) ==
    /\ Idle /\ reads[c] \in {"open", "last"}
    /\ reads' = [reads EXCEPT ![c] = "done"]
    /\ Close(c)
    /\ UNCHANGED writes

\* handle_write: the queue is written out, or the write fails; then the queue
\* is never empty again and no other write starts.
Written(c) ==
    /\ Idle /\ writes[c] = "busy" /\ ~ exit[c]
    /\ writes' = [writes EXCEPT ![c] = "idle"]
    /\ UNCHANGED <<conn, maps, mutexes, io, reader, history>>

WriteError(c) ==
    /\ Idle /\ writes[c] = "busy"
    /\ writes' = [writes EXCEPT ![c] = "done"]
    /\ Close(c)
    /\ UNCHANGED reads

\* RemoveClientConnection erases by address, whoever is saved there.
RemoveClient ==
    /\ At("remove") /\ Enters(clientM, "io")
    /\ saved' = [saved EXCEPT ![srcAddress[ioC]] = NoSession]
    /\ Then(<< >>)
    /\ UNCHANGED <<conn, writes, entry, mutexes, ioG, reader, history>>

-----------------------------------------------------------------------------
(* The reader thread: HandleReceivedData.                                  *)

\* A frame that is no 91 frame, of a gprs without an entry: once the mutex is free
\* again, a 92 frame is queued to make DataServer stop.
Reject(g) ==
    /\ rdPc = "idle" /\ Enters(gprsM, "reader")
    /\ ~ entry[g].in
    /\ rdPc' = "reject" /\ rdG' = g
    /\ UNCHANGED <<conn, writes, maps, mutexes, io, lastCmd,
                   told, has90, skipped>>

QueueReject ==
    /\ rdPc = "reject"
    /\ lastCmd' = [lastCmd EXCEPT ![rdG] = "92"]
    /\ rdPc' = "idle"
    /\ UNCHANGED <<conn, writes, maps, mutexes, io, rdG, told,
                   has90, skipped>>

\* What broadcast to the clients that monitor g may do: the clients it serves,
\* and those it erases from the list because they have exited.  It erases at
\* the iterator and then increments it, so after that it may go on from
\* anywhere: any of the others may be served, or not.
Outcomes(g) ==
    LET gone == {c \in entry[g].clients : exit[c]}
        here == entry[g].clients \ gone
    IN  IF gone = {} THEN {[served |-> here, erased |-> {}]}
        ELSE [served : SUBSET here, erased : (SUBSET gone) \ {{}}]

\* A 90 frame is kept and sent to the clients that monitor the gprs ...
Receive90(g) ==
    /\ rdPc = "idle" /\ Enters(gprsM, "reader")
    /\ entry[g].in
    /\ \E o \in Outcomes(g) :
          /\ StartWrite(o.served)
          /\ entry' = [entry EXCEPT ![g].clients = @ \ o.erased,
                                    ![g].f90 = TRUE]
          /\ has90' = {p \in has90 : p[2] # g} \union (o.served \X {g})
          /\ skipped' = (skipped \/ o.erased # {})
    /\ UNCHANGED <<conn, saved, mutexes, io, reader, lastCmd, told>>

\* ... data and most exceptions are only sent to them.
ReceiveData(g) ==
    /\ rdPc = "idle" /\ Enters(gprsM, "reader")
    /\ entry[g].in
    /\ \E o \in Outcomes(g) :
          /\ StartWrite(o.served)
          /\ entry' = [entry EXCEPT ![g].clients = @ \ o.erased]
          /\ skipped' = (skipped \/ o.erased # {})
    /\ UNCHANGED <<conn, saved, mutexes, io, reader, lastCmd, told, has90>>

Receive91Once(g) ==  \* mutant: only the first 91 frame of a gprs is sent on
    /\ rdPc = "idle" /\ Enters(gprsM, "reader")
    /\ entry' = [entry EXCEPT ![g].in = TRUE, ![g].f91 = TRUE]
    /\ gprsM' = IF entry[g].f91 THEN "free" ELSE "reader"
    /\ rdPc' = IF entry[g].f91 THEN "idle" ELSE "all91"
    /\ rdG' = g
    /\ told' = {p \in told : p[2] # g}
    /\ UNCHANGED <<conn, writes, saved, clientM, io, lastCmd, has90, skipped>>

\* A 91 frame is kept, in a new entry if there is none; then, the mutex still
\* locked, it goes to every connected client.
Receive91(g) ==
    /\ rdPc = "idle" /\ Enters(gprsM, "reader")
    /\ entry' = [entry EXCEPT ![g].in = TRUE, ![g].f91 = TRUE]
    /\ gprsM' = "reader" /\ rdPc' = "all91" /\ rdG' = g
    /\ told' = {p \in told : p[2] # g}
    /\ UNCHANGED <<conn, writes, saved, clientM, io, lastCmd, has90, skipped>>

\* EE07 goes to every connected client.
ReceiveEE07(g) ==
    /\ rdPc = "idle" /\ Enters(gprsM, "reader")
    /\ entry[g].in
    /\ gprsM' = "reader" /\ rdPc' = "all" /\ rdG' = g
    /\ UNCHANGED <<conn, writes, maps, clientM, io, history>>

\* The gprs has left: EE08 goes to every client, 88 to none.
ReceiveEE08(g) ==
    /\ rdPc = "idle" /\ Enters(gprsM, "reader")
    /\ entry[g].in
    /\ Erase(g)
    /\ gprsM' = "reader" /\ rdPc' = "all" /\ rdG' = g
    /\ UNCHANGED <<conn, writes, saved, clientM, io, lastCmd, told, skipped>>

Receive88(g) ==
    /\ rdPc = "idle" /\ Enters(gprsM, "reader")
    /\ entry[g].in
    /\ Erase(g)
    /\ UNCHANGED <<conn, writes, saved, mutexes, io, reader, lastCmd,
                   told, skipped>>

\* A thread calls a method of a NULL session: the process is gone.
Die == /\ todo' = <<"dead">> /\ rdPc' = "dead" /\ clientM' = "dead"
       /\ reads' = [c \in Sessions |-> "done"]
       /\ writes' = [c \in Sessions |-> "done"]
       /\ saved' = [a \in Addresses |-> NoSession]
       /\ entry' = [g \in Gprs |-> NoEntry]
       /\ UNCHANGED <<srcAddress, exit, beat, rivals, gprsM, ioC, ioG, rdG, history>>

\* broadcast to the connected clients; a NULL one is the end of the process.
BroadcastAll ==
    /\ rdPc \in {"all", "all91"} /\ Enters(clientM, "reader")
    /\ \A a \in Addresses : saved[a] # Null
    /\ StartWrite(Live)
    /\ told' = IF rdPc = "all91" THEN told \union (Live \X {rdG}) ELSE told
    /\ gprsM' = "free" /\ rdPc' = "idle"
    /\ UNCHANGED <<conn, maps, clientM, io, rdG, lastCmd, has90, skipped>>

BroadcastNull ==
    /\ rdPc \in {"all", "all91"} /\ Enters(clientM, "reader")
    /\ \E a \in Addresses : saved[a] = Null
    /\ Die

-----------------------------------------------------------------------------
(* The heartbeat thread.                                                   *)

\* Exit closes the socket: the read that a running handler will start must fail.
Exit(S) ==
    /\ exit' = [c \in Sessions |-> exit[c] \/ c \in S]
    /\ reads' = [c \in Sessions |-> IF c \in S /\ c = ioC /\ ~ At("remove")
                                    THEN "last" ELSE reads[c]]

HeartBeatLate ==  \* mutant: two more beats are forgiven
    /\ clientM = "free"
    /\ \A a \in Addresses : saved[a] # Null
    /\ LET silent == {c \in Live : beat[c] >= BeatLimit + 2} IN
       /\ beat' = [c \in Sessions |-> IF c \in Live THEN beat[c] + 1 ELSE beat[c]]
       /\ Exit(silent)
       /\ saved' = [a \in Addresses |->
             IF saved[a] \in silent THEN NoSession ELSE saved[a]]
    /\ UNCHANGED <<srcAddress, rivals, writes, entry, mutexes, io, reader, history>>

\* Each minute: one more beat missed by every client; those that missed too
\* many exit and their entries become NULL; then the NULL entries are erased,
\* at the iterator again: after the first, some may be passed over.
HeartBeat ==
    /\ clientM = "free"
    /\ \A a \in Addresses : saved[a] # Null
    /\ LET silent == {c \in Live : beat[c] >= BeatLimit} IN
       /\ beat' = [c \in Sessions |-> IF c \in Live THEN beat[c] + 1 ELSE beat[c]]
       /\ Exit(silent)
       /\ \E left \in SUBSET silent :
             /\ left = silent => silent = {}
             /\ saved' = [a \in Addresses |->
                   IF saved[a] \in left THEN Null
                   ELSE IF saved[a] \in silent THEN NoSession ELSE saved[a]]
    /\ UNCHANGED <<srcAddress, rivals, writes, entry, mutexes, io, reader, history>>

HeartBeatNull ==
    /\ clientM = "free"
    /\ \E a \in Addresses : saved[a] = Null
    /\ Die

-----------------------------------------------------------------------------
Io == \/ \E c \in Sessions : \/ Accept(c) \/ ReadFrame(c) \/ ReadError(c)
                             \/ Written(c) \/ WriteError(c)
      \/ AddClient \/ TellClient \/ RemoveClient
      \/ Handle90 \/ HandleF3 \/ HandleOther
      \/ \E g \in Gprs : \/ StartMonitoring(g) \/ JoinMonitoring(g)
                         \/ StopForced(g) \/ StopOnly(g) \/ StopOther(g)
      \/ QueueStop

Reader == \/ \E g \in Gprs : \/ Reject(g)
                             \/ Receive90(g) \/ Receive91(g) \/ ReceiveData(g)
                             \/ ReceiveEE07(g) \/ ReceiveEE08(g) \/ Receive88(g)
          \/ QueueReject \/ BroadcastAll \/ BroadcastNull

Next == Io \/ Reader \/ HeartBeat \/ HeartBeatNull

Spec == Init /\ [][Next]_vars

-----------------------------------------------------------------------------
SessionTypeOK ==
    /\ reads \in [Sessions -> {"none", "open", "last", "done"}]
    /\ writes \in [Sessions -> {"idle", "busy", "done"}]
    /\ srcAddress \in [Sessions -> Addresses \union {NoAddress}]
    /\ exit \in [Sessions -> BOOLEAN]
    /\ beat \in [Sessions -> 0 .. BeatLimit + 2]
    /\ rivals \subseteq Sessions \X Sessions

MapTypeOK ==
    /\ saved \in [Addresses -> Sessions \union {NoSession, Null}]
    /\ entry \in [Gprs -> [in : BOOLEAN, clients : SUBSET Sessions,
                           f90 : BOOLEAN, f91 : BOOLEAN]]
    /\ clientM \in {"free", "io", "dead"} /\ gprsM \in {"free", "reader"}

ThreadTypeOK ==
    /\ todo \in Seq({"add", "tell", "command", "stop", "remove", "dead"})
    /\ ioC \in Sessions \union {NoSession} /\ ioG \in Gprs
    /\ rdPc \in {"idle", "reject", "all", "all91", "dead"}
    /\ rdG \in Gprs

HistoryTypeOK ==
    /\ lastCmd \in [Gprs -> {"none", "92", "93"}]
    /\ told \subseteq Sessions \X Gprs /\ has90 \subseteq Sessions \X Gprs
    /\ skipped \in BOOLEAN

\* Every variable keeps its type: no client outlives the beats it may miss, but
\* for those of one that is dropped and logs in with a frame already read.
TypeOK == SessionTypeOK /\ MapTypeOK /\ ThreadTypeOK /\ HistoryTypeOK

\* No thread waits for ever: the reader, which broadcasts with m_gprsMapMutex
\* locked, never needs the other mutex while the io thread keeps it, in a
\* handler that needs m_gprsMapMutex or after the end of one.
NoThreadStuck ==
    rdPc \in {"all", "all91"} /\ clientM = "io" => ~ Idle /\ ~ At("tell")

\* m_clientSession holds the connected clients.  A session that has sent a frame
\* and has not been closed is found there under its address, unless a session that
\* had the same address at the same time is there or has been closed since; one
\* whose connection has ended is not there once its handler has returned.
ConnectedSaved ==
    \A c \in Sessions : Named(c) /\ ioC # c =>
        /\ reads[c] = "open" /\ ~ exit[c] =>
              \/ saved[srcAddress[c]] = c
              \/ \E d \in Sessions :
                    <<c, d>> \in rivals /\ (saved[srcAddress[c]] = d \/ exit[d])
        /\ reads[c] = "done" => saved[srcAddress[c]] # c

\* Every connected client has been sent the last 91 frame of each gprs that has
\* an entry: a client that connects while a 91 frame comes in misses none,
\* whichever thread is first.
ClientsUpToDate ==
    \A c \in Live, g \in Gprs :
        entry[g].f91 /\ ~ (ioC = c /\ At("tell"))
                     /\ ~ (rdPc = "all91" /\ rdG = g) => <<c, g>> \in told

\* Every client that monitors a gprs has been sent the 90 frame kept for it,
\* when it joined or when the frame came, until a broadcast meets a client that
\* has left.
MonitorsUpToDate ==
    ~ skipped =>
        \A g \in Gprs : \A c \in entry[g].clients :
            entry[g].f90 => <<c, g>> \in has90
=============================================================================
