------------------------------ MODULE Registry ------------------------------
(***************************************************************************)
(* DataServer: the registry of gprs connections and those who use it.      *)
(*                                                                         *)
(* The io thread runs the handlers of the gprs sessions, which register    *)
(* and erase themselves in m_gprsSession by address, and of the SMS timer. *)
(* The link thread accepts TransmitServer and handles its 92, 93 and other *)
(* frames; a writer thread sends every new link the 91 frames of all the   *)
(* registered gprs.  A gprs that is asked for and not registered gets an   *)
(* SMS and waits two minutes in m_messageQueue.                            *)
(*                                                                         *)
(* A step is what a thread does while it holds a mutex, or between two.    *)
(* Of the frames queued for TransmitServer the model keeps what it is told *)
(* last of each gprs: connected (91) or gone (EE08).  How the queue is     *)
(* written to the link is ServerLink's subject, what is saved Capture's.   *)
(***************************************************************************)
EXTENDS Integers, Sequences, FiniteSets, SequencesExt

CONSTANTS
    Sessions,        \* tsdb_session objects: gprs connections
    Gprs,            \* source addresses of gprs
    AddressesOf,     \* the addresses the login frames of a session may carry
    Asked,           \* the gprs TransmitServer sends frames about
    NoAddress,       \* m_srcAddress before the first login frame
    None,            \* no key in m_gprsSession
    Null,            \* a key of m_gprsSession whose session is NULL
    ConnectionSize,  \* CONNECTION_SIZE
    MaxPuts          \* bound: entries put in m_messageQueue

ASSUME RegistryAssumption ==
    /\ AddressesOf \in [Sessions -> SUBSET Gprs] /\ Asked \subseteq Gprs
    /\ NoAddress \notin Gprs
    /\ None \notin Sessions /\ Null \notin Sessions /\ None # Null
    /\ ConnectionSize \in Nat /\ MaxPuts \in Nat

VARIABLES
    \* tsdb_session
    reads,          \* the read chain: "none" before accept, "open", "done"
    writes,         \* the write chain: "idle" (nothing written yet), "busy" (the
                    \* last write may be pending), "done" (a write failed)
    isLogin,        \* m_isLogin
    isTransmit,     \* m_isTransmit
    srcAddress,     \* m_srcAddress
    frame91,        \* source address in m_91Frame, NoAddress if there is none
    \* tsdb_server
    gprsSession,    \* m_gprsSession
    isClientValid,  \* m_isClientValid
    messageQueue,   \* m_messageQueue: address and number of arrival
    puts,           \* how many arrived
    due,            \* number of the entry whose two minutes m_messageTimer waits
    timer,          \* wait operations of the timer: [pending, ready to run]
    dead,           \* a NULL session was dereferenced
    \* The link thread and the writer thread of the link
    linkPc, linkG, linkS, snapshot,
    \* The io thread: what is left of the handler it is in, for which session;
    \* arrivals in m_messageQueue when the session was registered
    todo, ioS, since,
    \* History
    said,       \* what the current link was last told of each gprs: "late91" is a
                \* 91 frame that follows the EE08 frame of its session
    ordered,    \* what the last SetTransmit of a session said
    overruled,  \* sessions of which PushToQueue has found the link invalid since,
                \* or was between its two steps
    moved,      \* sessions whose login and 91 frames differ in their address
    late        \* a frame was queued that had been tested against an older link

conn    == <<reads, writes, isLogin, isTransmit, srcAddress, frame91>>
waiting == <<messageQueue, puts, due, timer>>
link    == <<isClientValid, linkPc, linkG, linkS, snapshot>>
io      == <<todo, ioS, since>>
flags   == <<ordered, overruled>>
odd     == <<moved, late>>
vars == <<conn, gprsSession, waiting, dead, link, io, said, flags, odd>>

Keys == Gprs \union {NoAddress}

\* The program starts; the link thread is at pc.
StartAt(pc) ==
    /\ reads = [s \in Sessions |-> "none"]
    /\ writes = [s \in Sessions |-> "idle"]
    /\ isLogin = [s \in Sessions |-> FALSE]
    /\ isTransmit = [s \in Sessions |-> FALSE]
    /\ srcAddress = [s \in Sessions |-> NoAddress]
    /\ frame91 = [s \in Sessions |-> NoAddress]
    /\ gprsSession = [a \in Keys |-> None]
    /\ isClientValid = FALSE
    /\ messageQueue = << >> /\ puts = 0 /\ due = 0
    /\ timer = [pending |-> FALSE, ready |-> FALSE]
    /\ dead = FALSE
    /\ linkPc = pc /\ linkG = NoAddress /\ linkS = None
    /\ snapshot = TRUE
    /\ todo = << >> /\ ioS = None /\ since = 0
    /\ said = [g \in Gprs |-> "nothing"]
    /\ ordered = [s \in Sessions |-> FALSE]
    /\ overruled = {} /\ moved = {} /\ late = FALSE

Init == StartAt("clear")

-----------------------------------------------------------------------------
(* The io thread: tsdb_session.                                            *)

Idle == todo = << >>
At(step) == todo # << >> /\ Head(todo) = step

\* What is left of the handler.
Then(rest) == todo' = rest /\ ioS' = IF rest = << >> THEN None ELSE ioS

\* StartWrite.
Answer(s) == writes' = [writes EXCEPT ![s] = IF @ = "idle" THEN "busy" ELSE @]

\* SetTransmit is called without a lock, by the link thread and by the io thread.
SetTransmit(s, b) ==
    /\ isTransmit' = [isTransmit EXCEPT ![s] = b]
    /\ ordered' = [ordered EXCEPT ![s] = b]
    /\ overruled' = IF ioS = s /\ (At("storeTrue") \/ At("storeFalse"))
                    THEN overruled \union {s} ELSE overruled \ {s}

\* handle_accept.
Accept(s) ==
    /\ Idle /\ reads[s] = "none"
    /\ reads' = [reads EXCEPT ![s] = "open"]
    /\ UNCHANGED <<writes, isLogin, isTransmit, srcAddress, frame91,
                   gprsSession, waiting, dead, link, io, said, flags,
                   odd>>

\* A login frame (90 or 89), the first one or a later one.
Read90(s, a) ==
    /\ Idle /\ reads[s] = "open"
    /\ srcAddress' = [srcAddress EXCEPT ![s] = a]
    /\ moved' = IF frame91[s] \in {NoAddress, a} THEN moved
                ELSE moved \union {s}
    /\ Answer(s)
    /\ todo' = <<"relay">> /\ ioS' = s
    /\ UNCHANGED <<reads, isLogin, isTransmit, frame91, gprsSession,
                   waiting, dead, link, since, said, flags, late>>

\* Mutant: the frame is forwarded before the session is registered.
Read91Early(s, a) ==
    /\ Idle /\ reads[s] = "open"
    /\ frame91' = [frame91 EXCEPT ![s] = a]
    /\ moved' = IF srcAddress[s] = a THEN moved ELSE moved \union {s}
    /\ Answer(s)
    /\ todo' = IF isLogin[s] THEN <<"relay", "forward">>
               ELSE <<"relay", "forward", "register", "wake">>
    /\ ioS' = s
    /\ UNCHANGED <<reads, isLogin, isTransmit, srcAddress, gprsSession, waiting,
                   dead, link, since, said, flags, late>>

\* A 91 frame is kept; the first one registers the session, whether or not a
\* login frame came before it and under the address of that, whatever its own.
Read91(s, a) ==
    /\ Idle /\ reads[s] = "open"
    /\ frame91' = [frame91 EXCEPT ![s] = a]
    /\ moved' = IF srcAddress[s] = a THEN moved ELSE moved \union {s}
    /\ Answer(s)
    /\ todo' = IF isLogin[s] THEN <<"relay", "forward">>
               ELSE <<"register", "wake", "relay", "forward">>
    /\ ioS' = s
    /\ UNCHANGED <<reads, isLogin, isTransmit, srcAddress, gprsSession, waiting,
                   dead, link, since, said, flags, late>>

\* Any other frame; heartbeats and settings are answered.
ReadOther(s) ==
    /\ Idle /\ reads[s] = "open"
    /\ Answer(s) \/ UNCHANGED writes
    /\ todo' = <<"relay">> /\ ioS' = s
    /\ UNCHANGED <<reads, isLogin, isTransmit, srcAddress, frame91,
                   gprsSession, waiting, dead, link, since, said, flags,
                   odd>>

\* AddGprsConnection; at the limit the session reads no more.
Register ==
    LET size == Cardinality({a \in Keys : gprsSession[a] # None}) IN
    /\ At("register")
    /\ since' = puts
    /\ \/ /\ size > ConnectionSize
          /\ reads' = [reads EXCEPT ![ioS] = "done"]
          /\ Then(<< >>)
          /\ UNCHANGED gprsSession
       \/ /\ size <= ConnectionSize
          /\ gprsSession' = [gprsSession EXCEPT ![srcAddress[ioS]] = ioS]
          /\ Then(Tail(todo))
          /\ UNCHANGED reads
    /\ UNCHANGED <<writes, isLogin, isTransmit, srcAddress, frame91,
                   waiting, dead, link, said, flags, odd>>

\* Mutant: the timer is cancelled whenever an entry leaves the list.
WakeCancels ==
    /\ At("wake")
    /\ \E n \in since .. puts :
          LET found == {i \in DOMAIN messageQueue :
                           /\ messageQueue[i].gprs = srcAddress[ioS]
                           /\ messageQueue[i].no <= n}
          IN \/ found = {} /\ UNCHANGED <<isTransmit, flags, messageQueue, timer>>
             \/ \E i \in found :
                   /\ \A j \in found : i <= j
                   /\ SetTransmit(ioS, TRUE)
                   /\ messageQueue' = RemoveAt(messageQueue, i)
                   /\ timer' = [timer EXCEPT !.pending = FALSE]
    /\ isLogin' = [isLogin EXCEPT ![ioS] = TRUE]
    /\ since' = 0
    /\ Then(Tail(todo))
    /\ UNCHANGED <<reads, writes, srcAddress, frame91, gprsSession,
                   puts, due, dead, link, said, odd>>

\* ... and then looks for the gprs among those that wait for it.  The time is
\* taken before the mutex, so an entry put meanwhile may count as too young.
\* The first entry of the gprs that is found leaves the list, and the timer is
\* cancelled if it was the only one; a handler that is ready runs all the same.
Wake ==
    /\ At("wake")
    /\ \E n \in since .. puts :
          LET found == {i \in DOMAIN messageQueue :
                           /\ messageQueue[i].gprs = srcAddress[ioS]
                           /\ messageQueue[i].no <= n}
          IN \/ found = {} /\ UNCHANGED <<isTransmit, flags, messageQueue, timer>>
             \/ \E i \in found :
                   /\ \A j \in found : i <= j
                   /\ SetTransmit(ioS, TRUE)
                   /\ messageQueue' = RemoveAt(messageQueue, i)
                   /\ timer' = [timer EXCEPT !.pending =
                                   @ /\ messageQueue' # << >>]
    /\ isLogin' = [isLogin EXCEPT ![ioS] = TRUE]
    /\ since' = 0
    /\ Then(Tail(todo))
    /\ UNCHANGED <<reads, writes, srcAddress, frame91, gprsSession,
                   puts, due, dead, link, said, odd>>

\* Mutant: the result is stored whether or not the gprs is monitored.
RelayAll ==
    /\ At("relay")
    /\ Then([todo EXCEPT ![1] =
                 IF isClientValid THEN "storeTrue" ELSE "storeFalse"])
    /\ UNCHANGED <<conn, gprsSession, waiting, dead, link, since, said,
                   flags, odd>>

\* PushToQueue: a frame of a gprs that is monitored is queued for TransmitServer
\* if the link is valid ...
Relay ==
    /\ At("relay")
    /\ Then(IF ~ isTransmit[ioS] THEN Tail(todo)
            ELSE [todo EXCEPT ![1] =
                     IF isClientValid THEN "storeTrue" ELSE "storeFalse"])
    /\ UNCHANGED <<conn, gprsSession, waiting, dead, link, since, said,
                   flags, odd>>

\* ... and the result becomes m_isTransmit, whatever it has been set to since.
Store(b) ==
    /\ At(IF b THEN "storeTrue" ELSE "storeFalse")
    /\ isTransmit' = [isTransmit EXCEPT ![ioS] = b]
    /\ overruled' = IF b THEN overruled ELSE overruled \union {ioS}
    /\ Then(Tail(todo))
    /\ UNCHANGED <<reads, writes, isLogin, srcAddress, frame91,
                   gprsSession, waiting, dead, link, since, said, ordered,
                   odd>>

\* WriteToClientQueue tests m_isClientValid without a lock ...
Test(step, then) ==
    /\ At(step)
    /\ Then(IF isClientValid THEN [todo EXCEPT ![1] = then] ELSE Tail(todo))
    /\ UNCHANGED <<conn, gprsSession, waiting, dead, link, since, said,
                   flags, odd>>

Forward == Test("forward", "queue91")
SayEnd  == Test("sayEnd", "queueEE08")

\* ... and queues the frame: a 91 frame under its own source address, EE08
\* under the address of the session.
QueueFrame ==
    /\ \/ At("queue91")   /\ said' = [g \in Gprs |->
                                 IF g = frame91[ioS] THEN "91" ELSE said[g]]
       \/ At("queueEE08") /\ said' = [g \in Gprs |->
                                 IF g = srcAddress[ioS] THEN "EE08" ELSE said[g]]
    /\ late' = (late \/ ~ isClientValid)
    /\ Then(Tail(todo))
    /\ UNCHANGED <<conn, gprsSession, waiting, dead, link, since, flags,
                   moved>>

\* Mutant: EE08 is said before the session is erased.
CloseSaysFirst(s) ==
    /\ todo' = IF isLogin[s] THEN <<"sayEnd", "erase">> ELSE << >>
    /\ ioS' = IF isLogin[s] THEN s ELSE None
    /\ UNCHANGED <<isLogin, isTransmit, srcAddress, frame91, gprsSession, waiting,
                   dead, link, since, said, flags, odd>>

\* CloseSession of a session that logged in: RemoveGprsConnection erases by
\* address and says EE08.
Close(s) ==
    /\ todo' = IF isLogin[s] THEN <<"erase", "sayEnd">> ELSE << >>
    /\ ioS' = IF isLogin[s] THEN s ELSE None
    /\ UNCHANGED <<isLogin, isTransmit, srcAddress, frame91,
                   gprsSession, waiting, dead, link, since, said, flags,
                   odd>>

\* A read error, the end of the stream or a frame of the wrong form.
ReadError(s) ==
    /\ Idle /\ reads[s] = "open"
    /\ reads' = [reads EXCEPT ![s] = "done"]
    /\ Close(s)
    /\ UNCHANGED writes

\* HandleWrite; when a write fails the session is closed, again if it has been,
\* and goes on reading if it has not.
WriteError(s) ==
    /\ Idle /\ writes[s] = "busy"
    /\ writes' = [writes EXCEPT ![s] = "done"]
    /\ Close(s)
    /\ UNCHANGED reads

EraseNothing ==  \* mutant: the session is erased only if it still reads
    /\ At("erase")
    /\ gprsSession' = IF reads[ioS] = "done" THEN gprsSession
                      ELSE [gprsSession EXCEPT ![srcAddress[ioS]] = None]
    /\ Then(Tail(todo))
    /\ UNCHANGED <<conn, waiting, dead, link, since, said, flags, odd>>

Erase ==
    /\ At("erase")
    /\ gprsSession' = [gprsSession EXCEPT ![srcAddress[ioS]] = None]
    /\ Then(Tail(todo))
    /\ UNCHANGED <<conn, waiting, dead, link, since, said, flags, odd>>

-----------------------------------------------------------------------------
(* The SMS timer.                                                          *)

\* Two minutes pass.  No handler waits that long to be run.
Expire ==
    /\ timer = [pending |-> TRUE, ready |-> FALSE]
    /\ timer' = [pending |-> FALSE, ready |-> TRUE]
    /\ UNCHANGED <<conn, gprsSession, messageQueue, puts, due, dead, link, io,
                   said, flags, odd>>

TimeOutOnce ==  \* mutant: the timer is not set again
    /\ Idle /\ timer.ready
    /\ \E k \in 0 .. Len(messageQueue) :
          /\ \A i \in 1 .. k : messageQueue[i].no <= due
          /\ k < Len(messageQueue) => messageQueue[k + 1].no > due
          /\ messageQueue' = SubSeq(messageQueue, k + 1, Len(messageQueue))
    /\ timer' = [timer EXCEPT !.ready = FALSE]
    /\ UNCHANGED <<conn, gprsSession, puts, due, dead, link, io, said,
                   flags, odd>>

\* HandleMessageTimeOut answers EE09 for the k entries at the front that are as
\* old as the timer, and sets the timer for the first of the others, which
\* cancels any other wait.
HandleMessageTimeOut ==
    /\ Idle /\ timer.ready
    /\ \E k \in 0 .. Len(messageQueue) :
          /\ \A i \in 1 .. k : messageQueue[i].no <= due
          /\ messageQueue' = SubSeq(messageQueue, k + 1, Len(messageQueue))
          /\ \/ /\ k = Len(messageQueue)
                /\ timer' = [timer EXCEPT !.ready = FALSE]
                /\ UNCHANGED due
             \/ /\ k < Len(messageQueue) /\ messageQueue[k + 1].no > due
                /\ due' = messageQueue[k + 1].no
                /\ timer' = [pending |-> TRUE, ready |-> FALSE]
    /\ UNCHANGED <<conn, gprsSession, puts, dead, link, io, said, flags,
                   odd>>

-----------------------------------------------------------------------------
(* The link thread: HandleClientConnection and HandleReceivedClientData.   *)

Reading == linkPc = "read"
Goto(pc, g, s) == linkPc' = pc /\ linkG' = g /\ linkS' = s

\* The link breaks: m_isClientValid is reset, then the queue is cleared; ...
LinkLost ==
    /\ Reading
    /\ isClientValid' = FALSE
    /\ Goto("clear", NoAddress, None)
    /\ UNCHANGED <<conn, gprsSession, waiting, dead, snapshot, io, said,
                   flags, odd>>

\* ... it is cleared once more when TransmitServer has connected; ...
Clear ==
    /\ \/ linkPc = "clear" /\ Goto("accept", NoAddress, None)
       \/ linkPc = "accept" /\ Goto("valid", NoAddress, None)
    /\ said' = [g \in Gprs |-> "nothing"]
    /\ UNCHANGED <<conn, gprsSession, waiting, dead, isClientValid, snapshot, io,
                   flags, odd>>

\* ... then the link is valid and its writer thread starts ...
LinkValid ==
    /\ linkPc = "valid"
    /\ isClientValid' = TRUE
    /\ snapshot' = FALSE
    /\ Goto("read", NoAddress, None)
    /\ UNCHANGED <<conn, gprsSession, waiting, dead, io, said, flags, odd>>

\* ... and queues the 91 frame of every gprs in the registry.
Registered == {gprsSession[a] : a \in Keys} \ {None}

Snapshot ==
    /\ ~ snapshot
    /\ snapshot' = TRUE
    /\ \/ /\ Null \in Registered
          /\ dead' = TRUE
          /\ UNCHANGED said
       \/ /\ Null \notin Registered
          /\ said' = [g \in Gprs |->
                IF isClientValid /\ g \in {frame91[s] : s \in Registered}
                THEN "91" ELSE said[g]]
          /\ UNCHANGED dead
    /\ UNCHANGED <<conn, gprsSession, waiting, isClientValid, linkPc, linkG,
                   linkS, io, flags, odd>>

\* A 92 frame: for a gprs that is not registered nothing happens; otherwise the
\* session is told when the mutex is free again.
Get92(g) ==
    /\ Reading
    /\ IF gprsSession[g] = None
       THEN UNCHANGED <<linkPc, linkG, linkS>>
       ELSE Goto("stop", g, gprsSession[g])
    /\ UNCHANGED <<conn, gprsSession, waiting, dead, isClientValid, snapshot, io,
                   said, flags, odd>>

Stop ==
    /\ linkPc = "stop"
    /\ \/ linkS = Null /\ dead' = TRUE /\ UNCHANGED <<isTransmit, flags, writes>>
       \/ /\ linkS # Null
          /\ SetTransmit(linkS, FALSE)
          /\ Answer(linkS)
          /\ UNCHANGED dead
    /\ Goto("read", NoAddress, None)
    /\ UNCHANGED <<reads, isLogin, srcAddress, frame91, gprsSession,
                   waiting, isClientValid, snapshot, io, said, odd>>

\* A 93 frame for a gprs that is registered, and for one that is not.
Get93(g) ==
    /\ Reading
    /\ gprsSession[g] = None => puts < MaxPuts
    /\ Goto(IF gprsSession[g] = None THEN "wait" ELSE "ask", g, gprsSession[g])
    /\ UNCHANGED <<conn, gprsSession, waiting, dead, isClientValid, snapshot, io,
                   said, flags, odd>>

\* A gprs that reports in real time (the pattern in its 91 frame, any here) is
\* monitored from now on; any other one is not, unless TransmitServer forces it,
\* and then the gprs gets the 93 frame, too.
Ask ==
    /\ linkPc = "ask"
    /\ \/ /\ linkS = Null /\ dead' = TRUE
          /\ Goto("read", NoAddress, None)
          /\ UNCHANGED <<isTransmit, flags, writes>>
       \/ /\ linkS # Null /\ UNCHANGED dead
          /\ \/ SetTransmit(linkS, TRUE) /\ UNCHANGED writes
                /\ Goto("get91", linkG, linkS)
             \/ UNCHANGED <<isTransmit, flags, writes>>
                /\ Goto("read", NoAddress, None)
             \/ SetTransmit(linkS, TRUE) /\ Answer(linkS)
                /\ Goto("read", NoAddress, None)
    /\ UNCHANGED <<reads, isLogin, srcAddress, frame91, gprsSession,
                   waiting, isClientValid, snapshot, io, said, odd>>

\* TransmitServer gets the 90 and 91 frame of the one that reports in real time.
\* The mutex of the registry is free since the look-up: the session may have ended
\* and have said so.
Get91 ==
    /\ linkPc = "get91"
    /\ Goto("tell91", frame91[linkS], linkS)
    /\ UNCHANGED <<conn, gprsSession, waiting, dead, isClientValid, snapshot, io,
                   said, flags, odd>>

Tell91 ==
    /\ linkPc = "tell91"
    /\ said' = [g \in Gprs |->
          IF g # linkG THEN said[g]
          ELSE IF reads[linkS] = "done" /\ ioS # linkS THEN "late91" ELSE "91"]
    /\ Goto("read", NoAddress, None)
    /\ UNCHANGED <<conn, gprsSession, waiting, dead, isClientValid, snapshot, io,
                   flags, odd>>

\* Mutant: the timer waits for one entry too many.
PutLate ==
    LET no == puts + 1 IN
    /\ linkPc = "wait"
    /\ puts' = no
    /\ messageQueue' = Append(messageQueue, [gprs |-> linkG, no |-> no])
    /\ IF messageQueue = << >>
       THEN due' = no + 1 /\ timer' = [timer EXCEPT !.pending = TRUE]
       ELSE UNCHANGED <<due, timer>>
    /\ Goto("read", NoAddress, None)
    /\ UNCHANGED <<conn, gprsSession, dead, isClientValid, snapshot, io,
                   said, flags, odd>>

\* The request for an SMS goes to MessageClient, then the gprs waits.  The timer
\* is set for the first entry, which cancels any wait for an older one.
PutToMessageQueue ==
    LET no == puts + 1 IN
    /\ linkPc = "wait"
    /\ puts' = no
    /\ messageQueue' = Append(messageQueue, [gprs |-> linkG, no |-> no])
    /\ IF messageQueue = << >>
       THEN due' = no /\ timer' = [timer EXCEPT !.pending = TRUE]
       ELSE UNCHANGED <<due, timer>>
    /\ Goto("read", NoAddress, None)
    /\ UNCHANGED <<conn, gprsSession, dead, isClientValid, snapshot, io,
                   said, flags, odd>>

\* Any other frame is for the gprs; operator[] makes a NULL entry for one that
\* is not registered.
GetOther(g) ==
    /\ Reading
    /\ \/ /\ gprsSession[g] \in {None, Null}
          /\ gprsSession' = [gprsSession EXCEPT ![g] = Null]
          /\ UNCHANGED writes
       \/ /\ gprsSession[g] \in Sessions
          /\ Answer(gprsSession[g])
          /\ UNCHANGED gprsSession
    /\ UNCHANGED <<reads, isLogin, isTransmit, srcAddress, frame91,
                   waiting, dead, link, io, said, flags, odd>>

-----------------------------------------------------------------------------
\* The rest of a handler of the io thread.
Handler == \/ Register \/ Wake \/ Relay \/ (\E b \in BOOLEAN : Store(b))
           \/ Forward \/ SayEnd \/ QueueFrame \/ Erase

Session(s) ==
    \/ Accept(s) \/ ReadOther(s) \/ ReadError(s) \/ WriteError(s)
    \/ \E a \in AddressesOf[s] :
          Read90(s, a) \/ Read91(s, a)

\* The rest of a frame the link thread handles.
LinkStep == Stop \/ Ask \/ Get91 \/ Tell91 \/ PutToMessageQueue

Link == \/ LinkLost \/ Clear \/ LinkValid \/ Snapshot \/ LinkStep
        \/ \E g \in Asked : Get92(g) \/ Get93(g) \/ GetOther(g)

Next == /\ ~ dead
        /\ \/ Handler \/ (\E s \in Sessions : Session(s))
           \/ Expire \/ HandleMessageTimeOut
           \/ Link

Spec == Init /\ [][Next]_vars

\* Threads that have work do it; io_service runs its ready handlers in turn.
Fairness == /\ WF_vars(~ dead /\ Handler) /\ WF_vars(~ dead /\ LinkStep)
            /\ WF_vars(~ dead /\ Expire)
            /\ SF_vars(~ dead /\ HandleMessageTimeOut)

FairSpec == Spec /\ Fairness

-----------------------------------------------------------------------------
Steps == {"register", "wake", "relay", "storeTrue", "storeFalse", "forward",
          "queue91", "erase", "sayEnd", "queueEE08"}

SessionTypeOK ==
    /\ reads \in [Sessions -> {"none", "open", "done"}]
    /\ writes \in [Sessions -> {"idle", "busy", "done"}]
    /\ isLogin \in [Sessions -> BOOLEAN] /\ isTransmit \in [Sessions -> BOOLEAN]
    /\ srcAddress \in [Sessions -> Keys] /\ frame91 \in [Sessions -> Keys]
    /\ todo \in Seq(Steps) /\ ioS \in Sessions \union {None}
    /\ (ioS = None) <=> (todo = << >>)
    /\ since \in 0 .. MaxPuts

ServerTypeOK ==
    /\ gprsSession \in [Keys -> Sessions \union {None, Null}]
    /\ isClientValid \in BOOLEAN /\ snapshot \in BOOLEAN /\ dead \in BOOLEAN
    /\ messageQueue \in Seq([gprs : Gprs, no : 1 .. MaxPuts])
    /\ puts \in 0 .. MaxPuts /\ due \in 0 .. MaxPuts
    /\ timer \in [pending : BOOLEAN, ready : BOOLEAN]
    /\ linkPc \in {"none", "clear", "accept", "valid", "read", "stop", "ask",
                   "get91", "tell91", "wait"}
    /\ linkG \in Keys /\ linkS \in Sessions \union {None, Null}
    /\ said \in [Gprs -> {"nothing", "91", "late91", "EE08"}]
    /\ ordered \in [Sessions -> BOOLEAN]
    /\ overruled \subseteq Sessions /\ moved \subseteq Sessions
    /\ late \in BOOLEAN

\* Every variable keeps its type; the io thread is in a handler of some session
\* exactly as long as steps of it are left.
TypeOK == SessionTypeOK /\ ServerTypeOK

\* Who waits for a gprs is served: the timer of PutToMessageQueue, of the login
\* that cancels it and of HandleMessageTimeOut is never off while the list has
\* entries, and the list stays in the order of arrival.
WaitingHasTimer ==
    /\ messageQueue # << >> => timer.pending \/ timer.ready
    /\ \A i, j \in DOMAIN messageQueue :
          i < j => messageQueue[i].no < messageQueue[j].no

\* Every entry of the list leaves it: its gprs logs in, or EE09 answers for it.
EveryWaitEnds ==
    \A n \in 1 .. MaxPuts :
        (\E i \in DOMAIN messageQueue : messageQueue[i].no = n)
            ~> (dead \/ \A i \in DOMAIN messageQueue : messageQueue[i].no # n)

\* What the link in use says: the io thread is in no handler, and the writer
\* thread has sent the registry.
Settled == ~ dead /\ isClientValid /\ snapshot /\ Idle

\* TransmitServer has been told of every gprs in the registry, whenever the gprs
\* connected, before, during or after the set-up of the link; only a session that
\* changed its address may be in it without.
ConnectedTold ==
    Settled => \A a \in Gprs :
        gprsSession[a] \in Sessions \ moved => said[a] \in {"91", "late91"}

\* ... and believes in no gprs that is gone: it was told EE08 of every other one,
\* unless the session changed its address, m_isClientValid was read so long before
\* the frame was queued that the next link was being set up, or a 93 frame was
\* being answered while the session ended ("late91").
OnlineIsConnected ==
    Settled /\ ~ late => \A g \in Gprs :
        said[g] = "91" => \E s \in Sessions :
            s \in moved \/ (frame91[s] = g /\ reads[s] = "open")

\* The registry never keeps a session that has ended, though sessions erase each
\* other: only one that changed its address stays behind.
NoGhost ==
    Idle => \A a \in Keys :
        LET s == gprsSession[a] IN
            s \in Sessions => reads[s] = "open" \/ s \in moved

\* m_isTransmit is what SetTransmit said last, unless the link was found invalid
\* since, or the call came between the two halves of PushToQueue.
RelayAsOrdered ==
    \A s \in Sessions :
        isTransmit[s] = ordered[s] \/ s \in overruled

-----------------------------------------------------------------------------
(* What the code says of itself.                                           *)

\* A gprs that has not logged in is woken by SMS: a 93 frame for it never goes the
\* way of one for a session, which ends DataServer.
AsksBySms == linkPc = "ask" => linkS # Null
=============================================================================
