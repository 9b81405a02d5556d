------------------------------ MODULE Capture ------------------------------
(***************************************************************************)
(* DataServer: how the frames of the gprs connections come to the files.   *)
(*                                                                         *)
(* Every frame a tsdb_session reads goes to its own m_readQueue, which the *)
(* io thread alone uses; when that is long enough, and when the connection *)
(* ends, the whole queue is spliced into a global list.  Each system has   *)
(* LIST_NUM such lists, a gprs address is hashed to one, and one writer    *)
(* thread per system empties them in turn into the system's file.          *)
(*                                                                         *)
(* A frame is its number in the order of reception.  What the writer does  *)
(* with the files is FileSync's subject.                                   *)
(***************************************************************************)
EXTENDS Integers, Sequences, FiniteSets, SequencesExt

CONSTANTS
    Sessions,        \* tsdb_session objects: gprs connections
    Addresses,       \* source addresses of the gprs
    Systems,         \* system identities
    AddressOf,       \* the address the frames of a session carry
    SystemOf,        \* the system identity in its login frame
    LIST_NUM,        \* number of global lists of a system
    ListOf,          \* hash(address) % LIST_NUM
    MaxQueueSize,    \* tsdb_session::MaxQueueSize
    ConnectionSize,  \* CONNECTION_SIZE
    MaxFrames,       \* bound: frames received
    MaxFaults        \* bound: failed writes and kills of the process

Lists == 0 .. LIST_NUM - 1

ASSUME CaptureAssumption ==
    /\ AddressOf \in [Sessions -> Addresses]
    /\ SystemOf \in [Sessions -> Systems]
    /\ LIST_NUM \in Nat \ {0} /\ ListOf \in [Addresses -> Lists]
    /\ MaxQueueSize \in Nat /\ ConnectionSize \in Nat
    /\ MaxFrames \in Nat /\ MaxFaults \in Nat

VARIABLES
    \* tsdb_session
    reads,       \* the read chain: "none" before accept, "open", "done"
    writes,      \* the write chain: "idle", "busy" (async_write pending), "done"
    isLogin,     \* m_isLogin
    readQueue,   \* m_readQueue
    \* tsdb_server
    gprsSession, \* keys of m_gprsSession
    gList,       \* m_gprsQueueMap[system].vec; a list that is NULL is empty
    started,     \* systems that have a writer thread
    index,       \* m_gprsQueueMap[system].index
    taken,       \* the frames a writer thread has in hand
    file,        \* the frames written for each system
    \* History
    from,        \* the session of each frame
    cut,         \* sessions that ended on a wrong lead code
    faults

sessionVars == <<reads, writes, isLogin, readQueue>>
writerVars  == <<index, taken, file>>
vars == <<sessionVars, gprsSession, gList, started, writerVars, from, cut,
          faults>>

NoLists == [i \in Lists |-> << >>]

Init ==
    /\ reads = [s \in Sessions |-> "none"]
    /\ writes = [s \in Sessions |-> "idle"]
    /\ isLogin = [s \in Sessions |-> FALSE]
    /\ readQueue = [s \in Sessions |-> << >>]
    /\ gprsSession = {}
    /\ gList = [y \in Systems |-> NoLists]
    /\ started = {}
    /\ index = [y \in Systems |-> 0]
    /\ taken = [y \in Systems |-> << >>]
    /\ file = [y \in Systems |-> << >>]
    /\ from = << >> /\ cut = {} /\ faults = 0

Fault == faults < MaxFaults /\ faults' = faults + 1

-----------------------------------------------------------------------------
(* The io thread: tsdb_session.                                            *)

\* Mutant: spliced to begin() instead of end().
PutFirst(s, queue) ==
    /\ readQueue' = [readQueue EXCEPT ![s] = << >>]
    /\ gList' = [gList EXCEPT ![SystemOf[s]][ListOf[AddressOf[s]]] = queue \o @]

\* putToServer splices the queue of s to the end of its global list.
Put(s, queue) ==
    /\ readQueue' = [readQueue EXCEPT ![s] = << >>]
    /\ gList' = [gList EXCEPT ![SystemOf[s]][ListOf[AddressOf[s]]] = @ \o queue]

\* PushToQueue; before the login there is no global list and the queue grows.
Push(s, attached) ==
    LET queue == Append(readQueue[s], Len(from) + 1) IN
    /\ Len(from) < MaxFrames
    /\ from' = Append(from, s)
    /\ IF attached /\ Len(queue) > MaxQueueSize
       THEN Put(s, queue)
       ELSE readQueue' = [readQueue EXCEPT ![s] = queue] /\ UNCHANGED gList

\* StartWrite.
Answer(s) == writes' = [writes EXCEPT ![s] = IF @ = "idle" THEN "busy" ELSE @]

Accept(s) ==
    /\ reads[s] = "none"
    /\ reads' = [reads EXCEPT ![s] = "open"]
    /\ UNCHANGED <<writes, isLogin, readQueue, gprsSession, gList, started,
                   writerVars, from, cut, faults>>

\* handle_read_body, for any frame but the 91 frame that logs in; login frames
\* and heartbeats are answered, data is not.
ReadFrame(s) ==
    /\ reads[s] = "open"
    /\ Push(s, isLogin[s])
    /\ Answer(s) \/ UNCHANGED writes
    /\ UNCHANGED <<reads, isLogin, gprsSession, started, writerVars, cut, faults>>

\* The first 91 frame: AddGprsConnection gives the session a global list, and
\* starts the writer thread of a new system.
Login(s) ==
    /\ reads[s] = "open" /\ ~ isLogin[s]
    /\ Cardinality(gprsSession) <= ConnectionSize
    /\ gprsSession' = gprsSession \union {AddressOf[s]}
    /\ started' = started \union {SystemOf[s]}
    /\ isLogin' = [isLogin EXCEPT ![s] = TRUE]
    /\ Answer(s)
    /\ Push(s, TRUE)
    /\ UNCHANGED <<reads, writerVars, cut, faults>>

\* At the limit the queue is cleared and the session reads no more.
LoginRefused(s) ==
    /\ reads[s] = "open" /\ ~ isLogin[s]
    /\ Cardinality(gprsSession) > ConnectionSize
    /\ readQueue' = [readQueue EXCEPT ![s] = << >>]
    /\ reads' = [reads EXCEPT ![s] = "done"]
    /\ Answer(s)
    /\ UNCHANGED <<isLogin, gprsSession, gList, started, writerVars, from, cut,
                   faults>>

\* RemoveGprsConnection erases by address, if the session ever logged in.
RemoveGprs(s) ==
    gprsSession' = IF isLogin[s] THEN gprsSession \ {AddressOf[s]}
                   ELSE gprsSession

\* Mutant: the rest of the queue goes to the server only when it is long.
CloseSessionKeepsRest(s) ==
    /\ IF isLogin[s] /\ Len(readQueue[s]) > MaxQueueSize
       THEN Put(s, readQueue[s])
       ELSE UNCHANGED <<readQueue, gList>>
    /\ RemoveGprs(s)
    /\ UNCHANGED <<isLogin, started, writerVars, from, cut, faults>>

\* CloseSession(error): what is left in the queue goes to the global list.  It
\* neither closes the socket nor resets m_isLogin.
CloseSession(s) ==
    /\ IF isLogin[s] THEN Put(s, readQueue[s])
       ELSE UNCHANGED <<readQueue, gList>>
    /\ RemoveGprs(s)
    /\ UNCHANGED <<isLogin, started, writerVars, from, cut, faults>>

\* A read error, the end of the stream, or a frame that is too long.
ReadError(s) ==
    /\ reads[s] = "open"
    /\ reads' = [reads EXCEPT ![s] = "done"]
    /\ CloseSession(s)
    /\ UNCHANGED writes

\* A wrong lead code: CloseSession(), which leaves the queue as it is.
BadLeadCode(s) ==
    /\ reads[s] = "open"
    /\ reads' = [reads EXCEPT ![s] = "done"]
    /\ cut' = cut \union {s}
    /\ RemoveGprs(s)
    /\ UNCHANGED <<writes, isLogin, readQueue, gList, started, writerVars, from,
                   faults>>

\* HandleWrite: all is written, or a write fails and closes the session, whether
\* it is still reading or has been closed; then no other write is started.
Written(s) ==
    /\ writes[s] = "busy"
    /\ writes' = [writes EXCEPT ![s] = "idle"]
    /\ UNCHANGED <<reads, isLogin, readQueue, gprsSession, gList, started,
                   writerVars, from, cut, faults>>

WriteError(s) ==
    /\ writes[s] = "busy"
    /\ writes' = [writes EXCEPT ![s] = "done"]
    /\ CloseSession(s)
    /\ UNCHANGED reads

\* No handler holds the session any more: it is deleted with its queue.
Delete(s) ==
    /\ reads[s] = "done" /\ writes[s] # "busy" /\ readQueue[s] # << >>
    /\ readQueue' = [readQueue EXCEPT ![s] = << >>]
    /\ UNCHANGED <<reads, writes, isLogin, gprsSession, gList, started,
                   writerVars, from, cut, faults>>

-----------------------------------------------------------------------------
(* The writer thread of system y.                                          *)

\* Mutants: the index is not taken modulo LIST_NUM, or stays at an empty list.
TakeListUnwrapped(y) ==
    /\ y \in started /\ taken[y] = << >>
    /\ taken' = [taken EXCEPT ![y] = gList[y][index[y]]]
    /\ gList' = [gList EXCEPT ![y][index[y]] = << >>]
    /\ index' = [index EXCEPT ![y] = @ + 1]
    /\ UNCHANGED <<sessionVars, gprsSession, started, file, from, cut, faults>>

TakeListStays(y) ==
    /\ y \in started /\ taken[y] = << >>
    /\ taken' = [taken EXCEPT ![y] = gList[y][index[y]]]
    /\ gList' = [gList EXCEPT ![y][index[y]] = << >>]
    /\ index' = [index EXCEPT ![y] = IF gList[y][@] = << >> THEN @
                                     ELSE (@ + 1) % LIST_NUM]
    /\ UNCHANGED <<sessionVars, gprsSession, started, file, from, cut, faults>>

\* WriteToHdfs: the next list in turn, emptied.
TakeList(y) ==
    /\ y \in started /\ taken[y] = << >>
    /\ taken' = [taken EXCEPT ![y] = gList[y][index[y]]]
    /\ gList' = [gList EXCEPT ![y][index[y]] = << >>]
    /\ index' = [index EXCEPT ![y] = (@ + 1) % LIST_NUM]
    /\ UNCHANGED <<sessionVars, gprsSession, started, file, from, cut, faults>>

\* WriteToLocal writes a buffer of the first k frames in hand, or drops it when
\* there is no open file.
WriteToLocal(y, k) ==
    /\ k \in 1 .. Len(taken[y])
    /\ taken' = [taken EXCEPT ![y] = SubSeq(@, k + 1, Len(@))]
    /\ \/ /\ file' = [file EXCEPT ![y] = @ \o SubSeq(taken[y], 1, k)]
          /\ UNCHANGED faults
       \/ UNCHANGED file /\ Fault
    /\ UNCHANGED <<sessionVars, gprsSession, gList, started, index, from, cut>>

-----------------------------------------------------------------------------
\* kill -9 and start again: all that is in memory is gone.
Kill ==
    /\ Fault
    /\ reads' = [s \in Sessions |-> IF reads[s] = "none" THEN "none" ELSE "done"]
    /\ isLogin' = [s \in Sessions |-> FALSE]
    /\ readQueue' = [s \in Sessions |-> << >>]
    /\ writes' = [s \in Sessions |-> IF reads[s] = "none" THEN "idle" ELSE "done"]
    /\ gprsSession' = {} /\ started' = {}
    /\ gList' = [y \in Systems |-> NoLists]
    /\ index' = [y \in Systems |-> 0]
    /\ taken' = [y \in Systems |-> << >>]
    /\ UNCHANGED <<file, from, cut>>

Io(s) == \/ Accept(s) \/ ReadFrame(s) \/ Login(s) \/ LoginRefused(s)
         \/ ReadError(s) \/ BadLeadCode(s) \/ Written(s) \/ WriteError(s)
         \/ Delete(s)

Writer(y) == TakeList(y) \/ \E k \in 1 .. MaxFrames : WriteToLocal(y, k)

Next == \/ \E s \in Sessions : Io(s)
        \/ \E y \in Systems : Writer(y)
        \/ Kill

Spec == Init /\ [][Next]_vars

\* A writer thread loops for ever and never waits for a condition.
FairSpec == Spec /\ \A y \in Systems : WF_vars(Writer(y))

-----------------------------------------------------------------------------
Frames == 1 .. MaxFrames

SessionTypeOK ==
    /\ reads \in [Sessions -> {"none", "open", "done"}]
    /\ writes \in [Sessions -> {"idle", "busy", "done"}]
    /\ isLogin \in [Sessions -> BOOLEAN]
    /\ readQueue \in [Sessions -> Seq(Frames)]
    /\ from \in Seq(Sessions) /\ Len(from) <= MaxFrames
    /\ cut \subseteq Sessions

ServerTypeOK ==
    /\ gprsSession \subseteq Addresses
    /\ gList \in [Systems -> [Lists -> Seq(Frames)]]
    /\ started \subseteq Systems
    /\ index \in [Systems -> Lists]
    /\ taken \in [Systems -> Seq(Frames)]
    /\ file \in [Systems -> Seq(Frames)]
    /\ faults \in 0 .. MaxFaults

\* Every variable keeps its type: the index stays inside the lists.
TypeOK == SessionTypeOK /\ ServerTypeOK

\* The frames on their way from s to the file, in the order in which the writer
\* will come to them: in its hand, in the global list, in the session.
Unwritten(s) ==
    taken[SystemOf[s]] \o gList[SystemOf[s]][ListOf[AddressOf[s]]] \o readQueue[s]

\* No frame of a connection that logged in gets lost between the session's queue,
\* the global lists and the writer: only a wrong lead code costs the frames that
\* are still in the queue.
NothingLost ==
    faults = 0 =>
        \A s \in Sessions : isLogin[s] /\ s \notin cut =>
            \A f \in DOMAIN from : from[f] = s =>
                f \in ToSet(file[SystemOf[s]]) \union ToSet(Unwritten(s))

Pending(s) == {f \in ToSet(Unwritten(s)) : from[f] = s}
PendingOfSessions == [s \in Sessions |-> Pending(s)]

\* The three queues are, for each connection, one channel that keeps the order of
\* reception and saves no frame twice.
Channel == INSTANCE FrameChannel WITH
    Files   <- Systems,
    FileOf  <- SystemOf,
    pending <- PendingOfSessions,
    saved   <- file,
    ended   <- {s \in Sessions : reads[s] = "done"}

IsChannel == Channel!Spec

\* The writer comes to every global list: a frame put in one is written in the
\* end, if no write fails and the process is not killed.
EveryListWritten ==
    \A f \in Frames, y \in Systems :
        (\E i \in Lists : f \in ToSet(gList[y][i]))
            ~> (f \in ToSet(file[y]) \/ faults > 0)
=============================================================================
