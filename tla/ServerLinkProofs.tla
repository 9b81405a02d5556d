-------------------------- MODULE ServerLinkProofs --------------------------
(***************************************************************************)
(* What holds of the link between the two servers for every number of      *)
(* connections, of frames and of restarts of either process: the commands  *)
(* arrive in the order they were queued, and so are the notices as long as *)
(* no connection ends with notices that nobody read.                       *)
(***************************************************************************)
EXTENDS ServerLink, SequenceTheorems, TLAPS

-----------------------------------------------------------------------------
(* Sequences of numbered frames.                                           *)

Sorted(q) == \A i, j \in DOMAIN q : i < j => q[i] < q[j]
Below(A, B) == \A x \in A, y \in B : x < y

LEMMA EmptyFacts == ToSet(<< >>) = {} /\ Sorted(<< >>)
  BY DEF ToSet, Sorted

LEMMA Members ==
  ASSUME NEW S, NEW q \in Seq(S)
  PROVE  ToSet(q) \subseteq S
  BY DEF ToSet

LEMMA AppendFacts ==
  ASSUME NEW S \in SUBSET Nat, NEW q \in Seq(S), NEW x \in S
  PROVE  /\ Append(q, x) \in Seq(S)
         /\ ToSet(Append(q, x)) = ToSet(q) \union {x}
         /\ Sorted(q) /\ (\A y \in ToSet(q) : y < x) => Sorted(Append(q, x))
<1>1. /\ Append(q, x) \in Seq(S) /\ Len(q) \in Nat
      /\ DOMAIN q = 1 .. Len(q) /\ DOMAIN Append(q, x) = 1 .. Len(q) + 1
      /\ \A i \in 1 .. Len(q) + 1 : Append(q, x)[i] = IF i <= Len(q) THEN q[i] ELSE x
  OBVIOUS
<1>2. ToSet(Append(q, x)) \subseteq ToSet(q) \union {x}
  BY <1>1 DEF ToSet
<1>3. ToSet(q) \subseteq ToSet(Append(q, x))
  <2>1. ASSUME NEW i \in 1 .. Len(q) PROVE q[i] = Append(q, x)[i] /\ i \in 1 .. Len(q) + 1
    BY <1>1
  <2> QED
    BY <1>1, <2>1 DEF ToSet
<1>4. x \in ToSet(Append(q, x))
  <2>1. Len(q) + 1 \in 1 .. Len(q) + 1 /\ Append(q, x)[Len(q) + 1] = x
    BY <1>1
  <2> QED
    BY <1>1, <2>1 DEF ToSet
<1>5. ASSUME Sorted(q), \A y \in ToSet(q) : y < x PROVE Sorted(Append(q, x))
  <2> SUFFICES ASSUME NEW i \in 1 .. Len(q) + 1, NEW j \in 1 .. Len(q) + 1, i < j
               PROVE  Append(q, x)[i] < Append(q, x)[j]
    BY <1>1 DEF Sorted
  <2>1. i \in 1 .. Len(q) /\ q[i] \in ToSet(q) /\ Append(q, x)[i] = q[i]
    BY <1>1 DEF ToSet
  <2>2. CASE j <= Len(q)
    BY <1>1, <1>5, <2>1, <2>2 DEF Sorted
  <2>3. CASE ~ (j <= Len(q))
    BY <1>1, <1>5, <2>1, <2>3
  <2> QED
    BY <2>2, <2>3
<1> QED
  BY <1>1, <1>2, <1>3, <1>4, <1>5

LEMMA TailFacts ==
  ASSUME NEW S \in SUBSET Nat, NEW q \in Seq(S), q # << >>
  PROVE  /\ Tail(q) \in Seq(S) /\ Head(q) \in S
         /\ Head(q) \in ToSet(q) /\ ToSet(Tail(q)) \subseteq ToSet(q)
         /\ ToSet(q) \subseteq ToSet(Tail(q)) \union {Head(q)}
         /\ Sorted(q) => Sorted(Tail(q)) /\ \A y \in ToSet(Tail(q)) : Head(q) < y
<1>1. /\ Tail(q) \in Seq(S) /\ Len(q) \in Nat /\ Len(q) > 0
      /\ Head(q) = q[1] /\ 1 \in DOMAIN q
      /\ DOMAIN q = 1 .. Len(q) /\ DOMAIN Tail(q) = 1 .. Len(q) - 1
      /\ \A i \in 1 .. Len(q) - 1 : Tail(q)[i] = q[i + 1]
  OBVIOUS
<1>2. \A i \in 1 .. Len(q) - 1 : i + 1 \in 1 .. Len(q)
  BY <1>1
<1>3. Head(q) \in S /\ Head(q) \in ToSet(q)
  BY <1>1 DEF ToSet
<1>4. ToSet(Tail(q)) \subseteq ToSet(q)
  BY <1>1, <1>2 DEF ToSet
<1>5. ToSet(q) \subseteq ToSet(Tail(q)) \union {Head(q)}
  <2> SUFFICES ASSUME NEW i \in 1 .. Len(q), i # 1 PROVE q[i] \in ToSet(Tail(q))
    BY <1>1 DEF ToSet
  <2>1. i - 1 \in 1 .. Len(q) - 1 /\ Tail(q)[i - 1] = q[i]
    BY <1>1
  <2> QED
    BY <1>1, <2>1 DEF ToSet
<1>6. ASSUME Sorted(q) PROVE Sorted(Tail(q))
  BY <1>1, <1>2, <1>6 DEF Sorted
<1>7. ASSUME Sorted(q), NEW y \in ToSet(Tail(q)) PROVE Head(q) < y
  <2>1. PICK i \in 1 .. Len(q) - 1 : y = q[i + 1]
    BY <1>1 DEF ToSet
  <2> QED
    BY <1>1, <1>2, <1>7, <2>1 DEF Sorted
<1> QED
  BY <1>1, <1>3, <1>4, <1>5, <1>6, <1>7

-----------------------------------------------------------------------------
(* Types.                                                                  *)

\* The parts of TypeOK; a writer that holds notices has its descriptor, and each
\* life of TransmitServer that is over has cost a restart, or the process is down; then
\* it has neither sockets nor commands.
Writers == {w \in [fd : Fds \union {None}, hand : Seq(Notices)] :
               w.hand # << >> => w.fd # None}

CommandTypes == up \in [Links -> Seq(Commands)] /\ commands \in Seq(Commands)
NoticeTypes ==
    /\ down \in [Links -> Seq(Notices)] /\ told \in Seq(Notices)
    /\ toClient \in Seq(Notices) /\ notices \in 0 .. MaxNotices
WriterTypes == writer \in [Links -> Writers]
CountTypes ==
    /\ made \in 0 .. MaxLinks /\ restarts \in 0 .. MaxRestarts
    /\ life \in Nat /\ from \in Seq(Nat) /\ tUp \in BOOLEAN
    /\ life <= restarts + 1 /\ (tUp => life <= restarts)
ReadTypes ==
    /\ dPc \in {"reset", "accept", "read", "dead"} /\ dSock \in Fds \union {None}
    /\ fd \in [Fds -> Links \union {None}]
    /\ dPc = "read" => dSock \in Fds /\ fd[dSock] \in Links
    /\ backlog \in Seq(Links) /\ clientValid \in BOOLEAN
SockTypes ==
    /\ tSock \in Links \union {None} /\ toServer \in Seq(Commands)
    /\ hand \in Seq(Commands) /\ readers \subseteq Links
    /\ ~tUp => tSock = None /\ toServer = << >> /\ hand = << >>

Typed == /\ CommandTypes /\ NoticeTypes /\ WriterTypes /\ CountTypes
         /\ ReadTypes /\ SockTypes

LEMMA Bounds ==
  /\ MaxLinks \in Nat /\ MaxCommands \in Nat /\ MaxNotices \in Nat /\ MaxRestarts \in Nat
  /\ Commands \subseteq Nat /\ Notices \subseteq Nat /\ Links \subseteq Nat
  /\ None \notin Links /\ None \notin Fds /\ Fds = Links
  BY BoundsAssumption DEF Commands, Notices, Links, Fds, None

LEMMA Unchanged ==
  ASSUME Typed
  PROVE  /\ UNCHANGED <<up, commands>> => CommandTypes'
         /\ UNCHANGED <<down, told, toClient, notices>> => NoticeTypes'
         /\ UNCHANGED writer => WriterTypes'
         /\ UNCHANGED <<made, restarts, tUp, life, from>> => CountTypes'
         /\ UNCHANGED <<dPc, dSock, fd, backlog, clientValid>> => ReadTypes'
         /\ UNCHANGED <<tUp, tSock, toServer, hand, readers>> => SockTypes'
<1> USE DEF Typed
<1>1. UNCHANGED <<up, commands>> => CommandTypes'
  BY DEF CommandTypes
<1>2. UNCHANGED <<down, told, toClient, notices>> => NoticeTypes'
  BY DEF NoticeTypes
<1>3. UNCHANGED writer => WriterTypes'
  BY DEF WriterTypes
<1>4. UNCHANGED <<made, restarts, tUp, life, from>> => CountTypes'
  BY DEF CountTypes
<1>5. UNCHANGED <<dPc, dSock, fd, backlog, clientValid>> => ReadTypes'
  BY DEF ReadTypes
<1>6. UNCHANGED <<tUp, tSock, toServer, hand, readers>> => SockTypes'
  BY DEF SockTypes
<1> QED
  BY <1>1, <1>2, <1>3, <1>4, <1>5, <1>6

LEMMA NoWriterTyped == NoWriter \in Writers /\ << >> \in Seq(Commands) /\ << >> \in Seq(Notices)
                       /\ << >> \in Seq(Links) /\ << >> \in Seq(Nat)
  BY DEF NoWriter, Writers

LEMMA WriterFacts ==
  ASSUME NEW w \in Writers
  PROVE  /\ w.fd \in Fds \union {None} /\ w.hand \in Seq(Notices)
         /\ w.hand # << >> => w.fd \in Fds
         /\ \A h \in Seq(Notices) : w.fd # None => [w EXCEPT !.hand = h] \in Writers
  BY DEF Writers

LEMMA InitTyped == Init => Typed
<1> SUFFICES ASSUME Init PROVE Typed
  OBVIOUS
<1> USE Bounds, NoWriterTyped DEF Init
<1>1. CommandTypes /\ NoticeTypes
  BY DEF CommandTypes, NoticeTypes
<1>2. WriterTypes
  BY DEF WriterTypes
<1>3. CountTypes
  BY DEF CountTypes
<1>4. ReadTypes
  BY DEF ReadTypes
<1>5. SockTypes
  BY DEF SockTypes
<1> QED
  BY <1>1, <1>2, <1>3, <1>4, <1>5 DEF Typed

LEMMA DataServerTyped ==
  ASSUME Typed, HandleClientConnection
  PROVE  Typed'
<1> USE Bounds, NoWriterTyped, Unchanged
<1>1. CASE Reset
  <2>1. NoticeTypes'
    BY <1>1 DEF Reset, linkVars, tVars, Typed, NoticeTypes
  <2>2. ReadTypes'
    BY <1>1 DEF Reset, Typed, ReadTypes
  <2> QED
    BY <1>1, <2>1, <2>2 DEF Reset, linkVars, tVars, Typed
<1>2. ASSUME NEW n \in Fds, Accept(n) PROVE Typed'
  <2>1. Head(backlog) \in Links /\ Tail(backlog) \in Seq(Links)
    BY <1>2, TailFacts DEF Accept, Typed, ReadTypes
  <2>2. NoticeTypes'
    BY <1>2 DEF Accept, linkVars, tVars, Typed, NoticeTypes
  <2>3. ReadTypes'
    BY <1>2, <2>1 DEF Accept, Typed, ReadTypes
  <2>4. [fd |-> n, hand |-> << >>] \in Writers
    BY DEF Writers
  <2>5. WriterTypes'
    BY <1>2, <2>1, <2>4 DEF Accept, Typed, WriterTypes
  <2> QED
    BY <1>2, <2>2, <2>3, <2>5 DEF Accept, linkVars, tVars, Typed
<1>3. CASE ReadCommand
  <2>1. fd[dSock] \in Links /\ up[fd[dSock]] \in Seq(Commands) /\ up[fd[dSock]] # << >>
    BY <1>3 DEF ReadCommand, Typed, ReadTypes, CommandTypes
  <2>2. Head(up[fd[dSock]]) \in Commands /\ Tail(up[fd[dSock]]) \in Seq(Commands)
    BY <2>1, TailFacts
  <2>3. CommandTypes'
    BY <1>3, <2>1, <2>2 DEF ReadCommand, Typed, CommandTypes
  <2> QED
    BY <1>3, <2>3 DEF ReadCommand, tVars, Typed
<1>4. CASE EndOfFile \/ ReadError
  <2>1. ReadTypes'
    BY <1>4 DEF EndOfFile, ReadError, Typed, ReadTypes
  <2> QED
    BY <1>4, <2>1 DEF EndOfFile, ReadError, linkVars, tVars, Typed
<1> QED
  BY <1>1, <1>2, <1>3, <1>4 DEF HandleClientConnection

LEMMA DataServerEndsTyped ==
  ASSUME Typed, NEW pc \in {"reset", "dead"}, DataServerEnds(pc),
         restarts' = restarts \/ (restarts < MaxRestarts /\ restarts' = restarts + 1)
  PROVE  Typed'
<1> USE Bounds, NoWriterTyped, Unchanged
<1>1. CommandTypes' /\ NoticeTypes'
  BY DEF DataServerEnds, tVars, Typed, CommandTypes, NoticeTypes
<1>2. WriterTypes'
  BY DEF DataServerEnds, WriterTypes
<1>3. CountTypes'
  BY DEF DataServerEnds, tVars, Typed, CountTypes
<1>4. ReadTypes'
  BY DEF DataServerEnds, ReadTypes
<1> QED
  BY <1>1, <1>2, <1>3, <1>4 DEF DataServerEnds, tVars, Typed

LEMMA TransmitServerEndsTyped ==
  ASSUME Typed, NEW startsAgain \in BOOLEAN, TransmitServerEnds(startsAgain),
         \/ restarts' = restarts /\ ~startsAgain /\ tUp
         \/ restarts < MaxRestarts /\ restarts' = restarts + 1
  PROVE  Typed'
<1> USE Bounds, NoWriterTyped, Unchanged
<1>1. CountTypes'
  BY DEF TransmitServerEnds, Typed, CountTypes
<1>2. SockTypes'
  BY DEF TransmitServerEnds, SockTypes
<1> QED
  BY <1>1, <1>2 DEF TransmitServerEnds, dVars, Typed

LEMMA WriterTyped ==
  ASSUME Typed, NEW c \in Links, WriteToClientT(c)
  PROVE  Typed'
<1> USE Bounds, NoWriterTyped, Unchanged
<1>1. writer[c] \in Writers
  BY DEF Typed, WriterTypes
<1>2. CASE WriterTakes(c)
  <2>1. /\ writer[c].fd # None /\ toClient' \in {toClient, << >>}
        /\ \/ writer' = [writer EXCEPT ![c] = NoWriter]
           \/ writer' = [writer EXCEPT ![c] = [writer[c] EXCEPT !.hand = toClient]]
    BY <1>2 DEF WriterTakes
  <2>2. toClient \in Seq(Notices)
    BY DEF Typed, NoticeTypes
  <2>3. WriterTypes'
    BY <1>1, <2>1, <2>2, WriterFacts, SMTT(30) DEF Typed, WriterTypes
  <2>4. NoticeTypes'
    BY <1>2, <2>1 DEF WriterTakes, linkVars, tVars, Typed, NoticeTypes
  <2> QED
    BY <1>2, <2>3, <2>4 DEF WriterTakes, linkVars, tVars, Typed
<1>3. CASE WriterWrites(c)
  <2>1. /\ writer[c].fd \in Fds /\ writer[c].hand \in Seq(Notices) /\ writer[c].hand # << >>
    BY <1>1, <1>3, WriterFacts DEF WriterWrites
  <2>2. /\ fd[writer[c].fd] \in Links
        /\ Head(writer[c].hand) \in Notices /\ Tail(writer[c].hand) \in Seq(Notices)
    BY <1>3, <2>1, TailFacts DEF WriterWrites, Typed, ReadTypes
  <2>3. writer' = [writer EXCEPT ![c] = [writer[c] EXCEPT !.hand = Tail(writer[c].hand)]]
    BY <1>3 DEF WriterWrites
  <2>4. WriterTypes'
    <3>1. [writer[c] EXCEPT !.hand = Tail(writer[c].hand)] \in Writers
      BY <1>1, <2>1, <2>2, WriterFacts
    <3> QED
      BY <2>3, <3>1 DEF Typed, WriterTypes
  <2>5. \E d \in Links : down' = [down EXCEPT ![d] = Append(down[d], Head(writer[c].hand))]
    BY <1>3, <2>2 DEF WriterWrites
  <2>6. down' \in [Links -> Seq(Notices)]
    <3>1. ASSUME NEW d \in Links PROVE Append(down[d], Head(writer[c].hand)) \in Seq(Notices)
      BY <2>2, AppendFacts DEF Typed, NoticeTypes
    <3>2. down \in [Links -> Seq(Notices)]
      BY DEF Typed, NoticeTypes
    <3> QED
      BY ONLY <2>5, <3>1, <3>2
  <2>7. NoticeTypes'
    BY <1>3, <2>6 DEF WriterWrites, tVars, Typed, NoticeTypes
  <2> QED
    BY <1>3, <2>4, <2>7 DEF WriterWrites, tVars, Typed
<1>4. CASE WriterDies(c)
  BY <1>4, DataServerEndsTyped DEF WriterDies
<1> QED
  BY <1>2, <1>3, <1>4 DEF WriteToClientT

LEMMA TransmitServerTyped ==
  ASSUME Typed, HandleConnectToServer \/ \E c \in Links : HandleReceiveFromServer(c)
  PROVE  Typed'
<1> USE Bounds, NoWriterTyped, Unchanged
<1>1. CASE Connect
  <2>1. made' \in Links /\ made' \in 0 .. MaxLinks
    BY <1>1 DEF Connect, Links, Typed, CountTypes
  <2>2. CountTypes'
    BY <1>1, <2>1 DEF Connect, Typed, CountTypes
  <2>3. ReadTypes'
    BY <1>1, <2>1 DEF Connect, Typed, ReadTypes
  <2>4. SockTypes'
    BY <1>1, <2>1 DEF Connect, Typed, SockTypes
  <2> QED
    BY <1>1, <2>2, <2>3, <2>4 DEF Connect, Typed
<1>2. CASE Take \/ WriteFails
  <2>1. CASE UNCHANGED <<linkVars, dVars, tUp, readers, from, life, told>>
    <3>1. SockTypes'
      BY <1>2, <2>1 DEF Take, WriteFails, TransmitServerEnds, Typed, SockTypes
    <3> QED
      BY <2>1, <3>1 DEF linkVars, dVars, Typed
  <2>2. CASE TransmitServerEnds(FALSE) /\ tSock # None /\ UNCHANGED restarts
    <3>1. tUp
      BY <2>2 DEF Typed, SockTypes
    <3> QED
      BY <2>2, <3>1, TransmitServerEndsTyped
  <2> QED
    BY <1>2, <2>1, <2>2 DEF Take, WriteFails
<1>3. CASE Write
  <2>1. tSock \in Links /\ Head(hand) \in Commands /\ Tail(hand) \in Seq(Commands)
    BY <1>3, TailFacts DEF Write, Typed, SockTypes
  <2>2. CommandTypes'
    BY <1>3, <2>1 DEF Write, dVars, Typed, CommandTypes
  <2>3. SockTypes'
    BY <1>3, <2>1 DEF Write, Typed, SockTypes
  <2> QED
    BY <1>3, <2>2, <2>3 DEF Write, dVars, Typed
<1>4. ASSUME NEW c \in Links, ReadNotice(c) PROVE Typed'
  <2>1. Head(down[c]) \in Notices /\ Tail(down[c]) \in Seq(Notices)
    BY <1>4, TailFacts DEF ReadNotice, Typed, NoticeTypes
  <2>2. NoticeTypes'
    BY <1>4, <2>1 DEF ReadNotice, dVars, Typed, NoticeTypes
  <2> QED
    BY <1>4, <2>2 DEF ReadNotice, dVars, Typed
<1>5. ASSUME NEW c \in Links, ReaderEnds(c) PROVE Typed'
  <2>1. SockTypes'
    BY <1>5 DEF ReaderEnds, Typed, SockTypes
  <2> QED
    BY <1>5, <2>1 DEF ReaderEnds, linkVars, dVars, Typed
<1> QED
  BY <1>1, <1>2, <1>3, <1>4, <1>5 DEF HandleConnectToServer, HandleReceiveFromServer

LEMMA OtherTyped ==
  ASSUME Typed, Notify \/ Command \/ DRestart \/ TRestart
  PROVE  Typed'
<1> USE Bounds, NoWriterTyped, Unchanged
<1>1. CASE Notify
  <2>1. notices' \in Notices /\ notices' \in 0 .. MaxNotices
    BY <1>1 DEF Notify, Notices, Typed, NoticeTypes
  <2>2. NoticeTypes'
    BY <1>1, <2>1 DEF Notify, linkVars, tVars, Typed, NoticeTypes
  <2> QED
    BY <1>1, <2>2 DEF Notify, linkVars, tVars, Typed
<1>2. CASE Command
  <2>1. from' \in Seq(Nat) /\ Len(from') \in Commands
    BY <1>2 DEF Command, Commands, Typed, CountTypes
  <2>2. CountTypes'
    BY <1>2, <2>1 DEF Command, linkVars, Typed, CountTypes
  <2>3. SockTypes'
    BY <1>2, <2>1 DEF Command, Typed, SockTypes
  <2> QED
    BY <1>2, <2>2, <2>3 DEF Command, linkVars, dVars, Typed
<1>3. CASE DRestart
  BY <1>3, DataServerEndsTyped DEF DRestart
<1>4. CASE TRestart
  BY <1>4, TransmitServerEndsTyped DEF TRestart
<1> QED
  BY <1>1, <1>2, <1>3, <1>4

LEMMA NextTyped == Typed /\ [Next]_vars => Typed'
<1> SUFFICES ASSUME Typed, [Next]_vars PROVE Typed'
  OBVIOUS
<1>1. CASE UNCHANGED vars
  BY <1>1, Unchanged DEF vars, linkVars, dVars, tVars, Typed
<1> QED
  BY <1>1, DataServerTyped, WriterTyped, TransmitServerTyped, OtherTyped DEF Next

\* Every variable of the link keeps its type: a descriptor that is read refers to a
\* connection, whichever process dies when.
THEOREM LinkTypeCorrect == Spec => []TypeOK
<1>1. Typed => TypeOK
  <2> SUFFICES ASSUME Typed PROVE TypeOK
    OBVIOUS
  <2>1. writer \in [Links -> [fd : Fds \union {None}, hand : Seq(Notices)]]
    BY DEF Typed, WriterTypes, Writers
  <2>2. life \in 0 .. MaxRestarts + 1
    BY Bounds DEF Typed, CountTypes
  <2> QED
    BY <2>1, <2>2 DEF TypeOK, Typed, CommandTypes, NoticeTypes, CountTypes, ReadTypes, SockTypes
<1> QED
  BY InitTyped, NextTyped, <1>1, PTL DEF Spec

-----------------------------------------------------------------------------
(* The connections.                                                        *)

Reading(c) == dPc = "read" /\ fd[dSock] = c

\* Connections are accepted in the order they are made, after all that had a
\* descriptor before; TransmitServer holds the last one made.  DataServer does not
\* stop reading a connection while it is open at the other end, and stops only
\* when it holds no more commands.
Connections ==
    /\ tSock \in {None, made}
    /\ Sorted(backlog)
    /\ \A c \in ToSet(backlog) : c <= made /\ \A n \in Fds : fd[n] < c
    /\ \A n \in Fds : /\ fd[n] <= made
                      /\ fd[n] = tSock /\ tSock # None => dPc = "read" /\ dSock = n
    /\ \A c \in Links : up[c] # << >> => c \in ToSet(backlog) \/ Reading(c)
    /\ \A c \in Links : c > made => down[c] = << >> /\ writer[c] = NoWriter

LEMMA LinkNumbers ==
  ASSUME Typed
  PROVE  /\ made \in Nat /\ tSock \in Nat /\ None = 0
         /\ fd \in [Fds -> Nat] /\ ToSet(backlog) \subseteq Links
         /\ backlog \in Seq(Links) /\ Links \subseteq Nat
         /\ \A c \in Links : None < c
<1>1. Links \subseteq Nat /\ None = 0 /\ \A c \in Links : None < c
  BY Bounds DEF Links, None
<1>2. made \in Nat /\ tSock \in Nat
  BY <1>1, Bounds DEF Typed, CountTypes, SockTypes
<1>3. fd \in [Fds -> Links \union {None}] /\ backlog \in Seq(Links)
  BY DEF Typed, ReadTypes
<1>4. fd \in [Fds -> Nat]
  <2>1. Links \union {None} \subseteq Nat
    BY <1>1
  <2> HIDE DEF Links, None
  <2> QED
    BY <1>3, <2>1
<1>5. ToSet(backlog) \subseteq Links
  BY <1>3, Members
<1> QED
  BY <1>1, <1>2, <1>3, <1>4, <1>5

LEMMA InitConnections == Init => Connections
  BY EmptyFacts, Bounds DEF Init, Connections, None

\* A step that leaves what DataServer has of the connections.
LEMMA KeepsConnections ==
  ASSUME Connections, UNCHANGED <<made, dPc, dSock, fd, backlog>>, tSock' \in {None, tSock},
         \A c \in Links : /\ up'[c] # << >> => up[c] # << >>
                          /\ c > made => UNCHANGED <<down[c], writer[c]>>
  PROVE  Connections'
<1>1. \A c \in Links : Reading(c)' <=> Reading(c)
  BY DEF Reading
<1>2. \A n \in Fds : /\ fd'[n] <= made'
                     /\ fd'[n] = tSock' /\ tSock' # None => dPc' = "read" /\ dSock' = n
  BY DEF Connections
<1>3. \A c \in Links : c > made' => down'[c] = << >> /\ writer'[c] = NoWriter
  BY DEF Connections
<1> QED
  BY <1>1, <1>2, <1>3 DEF Connections

LEMMA DataServerConnections ==
  ASSUME Typed, Connections, HandleClientConnection
  PROVE  Connections'
<1> USE LinkNumbers
<1>1. CASE Reset
  <2>1. /\ dPc = "reset" /\ UNCHANGED <<up, down, made, tSock, dSock, fd, backlog, writer>>
    BY <1>1 DEF Reset, linkVars, tVars
  <2> QED
    BY <2>1 DEF Connections, Reading
<1>2. ASSUME NEW n \in Fds, Accept(n) PROVE Connections'
  <2>1. /\ dPc = "accept" /\ dPc' = "read" /\ dSock' = n /\ backlog # << >>
        /\ fd' = [fd EXCEPT ![n] = Head(backlog)] /\ backlog' = Tail(backlog)
        /\ writer' = [writer EXCEPT ![Head(backlog)] = [fd |-> n, hand |-> << >>]]
        /\ UNCHANGED <<up, down, made, tSock>>
    BY <1>2 DEF Accept, linkVars, tVars
  <2>2. /\ Head(backlog) \in Links /\ Head(backlog) \in ToSet(backlog)
        /\ ToSet(Tail(backlog)) \subseteq ToSet(backlog)
        /\ ToSet(backlog) \subseteq ToSet(Tail(backlog)) \union {Head(backlog)}
        /\ Sorted(Tail(backlog))
        /\ \A c \in ToSet(Tail(backlog)) : Head(backlog) < c
    BY <2>1, TailFacts DEF Connections
  <2>3. \A m \in Fds : fd'[m] = IF m = n THEN Head(backlog) ELSE fd[m]
    BY <2>1
  <2>4. \A c \in ToSet(backlog') : c <= made' /\ \A m \in Fds : fd'[m] < c
    BY <2>1, <2>2, <2>3 DEF Connections
  <2>5. \A m \in Fds : /\ fd'[m] <= made'
                       /\ fd'[m] = tSock' /\ tSock' # None => dPc' = "read" /\ dSock' = m
    BY <2>1, <2>2, <2>3 DEF Connections
  <2>6. \A c \in Links : up'[c] # << >> => c \in ToSet(backlog') \/ Reading(c)'
    BY <2>1, <2>2, <2>3 DEF Connections, Reading
  <2>7. \A c \in Links : c > made' => down'[c] = << >> /\ writer'[c] = NoWriter
    <3>1. Head(backlog) <= made /\ writer \in [Links -> Writers]
      BY <2>2 DEF Connections, Typed, WriterTypes
    <3>2. \A c \in Links : c > made => c # Head(backlog)
      BY <2>2, <3>1
    <3> QED
      BY <2>1, <3>1, <3>2 DEF Connections
  <2> QED
    BY <2>1, <2>2, <2>4, <2>5, <2>6, <2>7 DEF Connections
<1>3. CASE ReadCommand
  <2>1. /\ UNCHANGED <<made, dPc, dSock, fd, backlog, tSock, down, writer>>
        /\ up' = [up EXCEPT ![fd[dSock]] = Tail(up[fd[dSock]])] /\ up[fd[dSock]] # << >>
    BY <1>3 DEF ReadCommand, tVars
  <2>2. \A c \in Links : up'[c] # << >> => up[c] # << >>
    BY <2>1 DEF Typed, CommandTypes
  <2> QED
    BY <2>1, <2>2, KeepsConnections
<1>4. CASE EndOfFile \/ ReadError
  <2>1. /\ dPc = "read" /\ up[fd[dSock]] = << >> /\ tSock # fd[dSock] /\ dPc' = "reset"
        /\ UNCHANGED <<up, down, made, tSock, backlog, writer>>
        /\ fd' = fd \/ fd' = [fd EXCEPT ![dSock] = None]
    BY <1>4 DEF EndOfFile, ReadError, LinkEnded, TOpen, linkVars, tVars
  <2>2. \A m \in Fds : fd'[m] = fd[m] \/ fd'[m] = None
    BY <2>1
  <2>3. \A c \in ToSet(backlog') : c <= made' /\ \A m \in Fds : fd'[m] < c
    <3> SUFFICES ASSUME NEW c \in ToSet(backlog')
                 PROVE  c <= made' /\ \A m \in Fds : fd'[m] < c
      OBVIOUS
    <3>1. c \in ToSet(backlog) /\ made' = made
      BY <2>1
    <3>2. c \in Links /\ c <= made /\ \A m \in Fds : fd[m] < c
      BY <3>1 DEF Connections
    <3> QED
      BY <2>2, <3>1, <3>2
  <2>4. \A m \in Fds : /\ fd'[m] <= made'
                       /\ ~ (fd'[m] = tSock' /\ tSock' # None)
    BY <2>1, <2>2 DEF Connections
  <2>5. \A c \in Links : up'[c] # << >> => c \in ToSet(backlog')
    BY <2>1 DEF Connections, Reading
  <2> QED
    BY <2>1, <2>3, <2>4, <2>5 DEF Connections
<1> QED
  BY <1>1, <1>2, <1>3, <1>4 DEF HandleClientConnection

LEMMA DataServerEndsConnections ==
  ASSUME Typed, Connections, NEW pc \in {"reset", "dead"}, DataServerEnds(pc)
  PROVE  Connections'
<1> USE LinkNumbers
<1>1. /\ UNCHANGED <<made, tSock, down>> /\ backlog' = << >> /\ dPc' = pc
      /\ \A n \in Fds : fd'[n] = None
      /\ \A c \in Links : up'[c] = << >> /\ writer'[c] = NoWriter
  BY DEF DataServerEnds, tVars
<1> QED
  BY <1>1, EmptyFacts DEF Connections

LEMMA WriterConnections ==
  ASSUME Typed, Connections, NEW c \in Links, WriterTakes(c) \/ WriterWrites(c)
  PROVE  Connections'
<1> USE LinkNumbers
<1>1. writer[c] \in Writers /\ writer \in [Links -> Writers] /\ down \in [Links -> Seq(Notices)]
  BY DEF Typed, WriterTypes, NoticeTypes
<1>2. writer[c].fd # None
  BY <1>1, WriterFacts, Bounds DEF WriterTakes, WriterWrites
<1>3. c <= made
  BY <1>2 DEF Connections, NoWriter
<1>4. \A d \in Links : d # c => writer'[d] = writer[d]
  BY <1>1 DEF WriterTakes, WriterWrites
<1>5. UNCHANGED <<made, dPc, dSock, fd, backlog, tSock, up>>
  BY DEF WriterTakes, WriterWrites, linkVars, tVars
<1>6. \A d \in Links : d > made => down'[d] = down[d]
  <2>1. CASE UNCHANGED down
    BY <2>1
  <2>2. CASE WriterWrites(c)
    <3>1. writer[c].fd \in Fds /\ fd[writer[c].fd] <= made
      BY <1>1, <2>2, WriterFacts DEF WriterWrites, Connections
    <3>2. \A d \in Links : d > made => d # fd[writer[c].fd]
      BY <3>1
    <3> QED
      BY <1>1, <2>2, <3>2 DEF WriterWrites
  <2> QED
    BY <2>1, <2>2 DEF WriterTakes, linkVars
<1>7. \A d \in Links : d > made => d # c
  BY <1>3
<1> QED
  BY <1>4, <1>5, <1>6, <1>7, KeepsConnections

LEMMA TransmitServerConnections ==
  ASSUME Typed, Connections,
         HandleConnectToServer \/ \E c \in Links : HandleReceiveFromServer(c)
  PROVE  Connections'
<1> USE LinkNumbers
<1>1. CASE Connect
  <2>1. /\ made' = made + 1 /\ tSock' = made' /\ backlog' = Append(backlog, made + 1)
        /\ UNCHANGED <<up, down, dPc, dSock, fd, writer>> /\ made + 1 \in Links
    BY <1>1, Bounds DEF Connect, Links
  <2>2. /\ ToSet(backlog') = ToSet(backlog) \union {made + 1}
        /\ Sorted(backlog')
    <3>1. \A c \in ToSet(backlog) : c < made + 1
      BY DEF Connections
    <3> QED
      BY <2>1, <3>1, AppendFacts DEF Connections
  <2>3. \A c \in ToSet(backlog') : c <= made' /\ \A n \in Fds : fd'[n] < c
    <3> SUFFICES ASSUME NEW c \in ToSet(backlog) \union {made + 1}
                 PROVE  c <= made + 1 /\ \A n \in Fds : fd[n] < c
      BY <2>1, <2>2
    <3>1. CASE c \in ToSet(backlog)
      BY <3>1 DEF Connections
    <3>2. CASE c = made + 1
      BY <3>2 DEF Connections
    <3> QED
      BY <3>1, <3>2
  <2>4. \A n \in Fds : fd'[n] <= made' /\ fd'[n] # tSock'
    BY <2>1 DEF Connections
  <2>5. \A c \in Links : up'[c] # << >> => c \in ToSet(backlog') \/ Reading(c)'
    BY <2>1, <2>2 DEF Connections, Reading
  <2>6. \A c \in Links : c > made' => down'[c] = << >> /\ writer'[c] = NoWriter
    BY <2>1 DEF Connections
  <2> QED
    BY <2>1, <2>2, <2>3, <2>4, <2>5, <2>6 DEF Connections
<1>2. CASE Take \/ WriteFails
  BY <1>2, KeepsConnections DEF Take, WriteFails, TransmitServerEnds, linkVars, dVars
<1>3. CASE Write
  <2>1. /\ UNCHANGED <<made, dPc, dSock, fd, backlog, tSock, down, writer>>
        /\ up' = [up EXCEPT ![tSock] = Append(@, Head(hand))]
        /\ tSock # None /\ DOpen(tSock)
    BY <1>3 DEF Write, dVars
  <2>2. tSock \in ToSet(backlog) \/ Reading(tSock)
    BY <2>1 DEF Connections, DOpen, Reading
  <2>3. \A c \in Links : c # tSock => up'[c] = up[c]
    BY <2>1 DEF Typed, CommandTypes
  <2>4. \A c \in Links : Reading(c)' <=> Reading(c)
    BY <2>1 DEF Reading
  <2>5. \A c \in Links : up'[c] # << >> => c \in ToSet(backlog') \/ Reading(c)'
    BY <2>1, <2>2, <2>3, <2>4 DEF Connections
  <2> QED
    BY <2>1, <2>5 DEF Connections
<1>4. ASSUME NEW c \in Links, ReadNotice(c) PROVE Connections'
  <2>1. /\ UNCHANGED <<made, dPc, dSock, fd, backlog, tSock, up, writer>> /\ tSock = c
        /\ down' = [down EXCEPT ![c] = Tail(@)]
    BY <1>4 DEF ReadNotice, TOpen, dVars
  <2>2. c <= made
    BY <2>1, Bounds DEF Connections
  <2>3. \A d \in Links : d > made => down'[d] = down[d]
    BY <2>1, <2>2 DEF Typed, NoticeTypes
  <2> QED
    BY <2>1, <2>3, KeepsConnections
<1>5. ASSUME NEW c \in Links, ReaderEnds(c) PROVE Connections'
  BY <1>5, KeepsConnections DEF ReaderEnds, linkVars, dVars
<1> QED
  BY <1>1, <1>2, <1>3, <1>4, <1>5 DEF HandleConnectToServer, HandleReceiveFromServer

LEMMA OtherConnections ==
  ASSUME Typed, Connections, Notify \/ Command \/ DRestart \/ TRestart
  PROVE  Connections'
<1> USE LinkNumbers
<1>1. CASE Notify \/ Command \/ TRestart
  BY <1>1, KeepsConnections
     DEF Notify, Command, TRestart, TransmitServerEnds, linkVars, dVars, tVars
<1>2. CASE DRestart
  BY <1>2, DataServerEndsConnections DEF DRestart
<1> QED
  BY <1>1, <1>2

LEMMA NextConnections == Typed /\ Connections /\ [Next]_vars => Connections'
<1> SUFFICES ASSUME Typed, Connections, [Next]_vars PROVE Connections'
  OBVIOUS
<1>1. CASE UNCHANGED vars
  BY <1>1, KeepsConnections DEF vars, linkVars, dVars, tVars
<1> QED
  BY <1>1, DataServerConnections, WriterConnections, DataServerEndsConnections,
     TransmitServerConnections, OtherConnections DEF Next, WriteToClientT, WriterDies

-----------------------------------------------------------------------------
(* The commands.                                                           *)

\* The numbers of the commands at each place on their way.
InServer == ToSet(commands)
OnLink(c) == ToSet(up[c])
InHand == ToSet(hand)
InQueue == ToSet(toServer)
Unused == {Len(from) + 1}

\* Each place holds its commands in the order they were queued, and all that it
\* holds is older than what is further from DataServer.
InOrder == /\ Sorted(commands) /\ Sorted(hand) /\ Sorted(toServer)
           /\ \A c \in Links : Sorted(up[c])
BelowRest == Below(InServer, InHand) /\ Below(InServer, InQueue) /\ Below(InHand, InQueue)
LinksApart ==
    /\ \A c \in Links : Below(InServer, OnLink(c)) /\ Below(OnLink(c), InHand)
                        /\ Below(OnLink(c), InQueue)
    /\ \A c, d \in Links : c < d => Below(OnLink(c), OnLink(d))
Numbered == /\ Below(InServer, Unused) /\ Below(InHand, Unused) /\ Below(InQueue, Unused)
            /\ \A c \in Links : Below(OnLink(c), Unused)

Ordered == InOrder /\ BelowRest /\ LinksApart /\ Numbered

LEMMA BelowFacts ==
  ASSUME NEW A, NEW B
  PROVE  /\ Below(A, B) => \A X \in SUBSET A, Y \in SUBSET B : Below(X, Y)
         /\ \A D : Below(A, B) /\ Below(D, B) => Below(A \union D, B)
         /\ \A D : Below(A, B) /\ Below(A, D) => Below(A, B \union D)
  BY DEF Below

LEMMA InitOrdered == Init => Ordered
<1> SUFFICES ASSUME Init PROVE Ordered
  OBVIOUS
<1>1. /\ InServer = {} /\ InHand = {} /\ InQueue = {}
      /\ \A c \in Links : OnLink(c) = {}
  BY EmptyFacts DEF Init, InServer, InHand, InQueue, OnLink
<1>2. InOrder
  BY EmptyFacts DEF Init, InOrder
<1> QED
  BY <1>1, <1>2 DEF Ordered, BelowRest, LinksApart, Numbered, Below

\* A step after which each place holds a part of what it held.
LEMMA LosesOrdered ==
  ASSUME Ordered, from' = from,
         InServer' \subseteq InServer, InHand' \subseteq InHand, InQueue' \subseteq InQueue,
         \A c \in Links : OnLink(c)' \subseteq OnLink(c),
         InOrder'
  PROVE  Ordered'
<1>1. BelowRest'
  BY DEF Ordered, BelowRest, Below
<1>2. LinksApart'
  BY DEF Ordered, LinksApart, Below
<1>3. Numbered'
  BY DEF Ordered, Numbered, Unused, Below
<1> QED
  BY <1>1, <1>2, <1>3 DEF Ordered

LEMMA SameOrdered ==
  ASSUME Ordered, UNCHANGED <<commands, hand, toServer, up, from>>
  PROVE  Ordered'
  BY DEF Ordered, InOrder, BelowRest, LinksApart, Numbered, InServer, InHand, InQueue,
         OnLink, Unused

LEMMA EmptiesOrdered ==
  ASSUME Ordered, UNCHANGED <<commands, from>>,
         hand' \in {hand, << >>}, toServer' \in {toServer, << >>},
         up' \in {up, [c \in Links |-> << >>]}
  PROVE  Ordered'
<1> USE EmptyFacts
<1>1. InServer' \subseteq InServer /\ InHand' \subseteq InHand /\ InQueue' \subseteq InQueue
  BY DEF InServer, InHand, InQueue
<1>2. \A c \in Links : OnLink(c)' \subseteq OnLink(c)
  BY DEF OnLink
<1>3. InOrder'
  BY DEF Ordered, InOrder
<1> QED
  BY <1>1, <1>2, <1>3, LosesOrdered

LEMMA SequenceTypes ==
  ASSUME Typed
  PROVE  /\ commands \in Seq(Commands) /\ hand \in Seq(Commands) /\ toServer \in Seq(Commands)
         /\ up \in [Links -> Seq(Commands)] /\ from \in Seq(Nat) /\ Commands \in SUBSET Nat
         /\ InServer \subseteq Nat /\ InHand \subseteq Nat /\ InQueue \subseteq Nat
         /\ \A c \in Links : OnLink(c) \subseteq Nat
<1>1. /\ commands \in Seq(Commands) /\ hand \in Seq(Commands) /\ toServer \in Seq(Commands)
      /\ up \in [Links -> Seq(Commands)] /\ from \in Seq(Nat) /\ Commands \in SUBSET Nat
  BY Bounds DEF Typed, CommandTypes, SockTypes, CountTypes
<1>2. /\ InServer \subseteq Commands /\ InHand \subseteq Commands /\ InQueue \subseteq Commands
      /\ \A c \in Links : OnLink(c) \subseteq Commands
  BY <1>1, Members DEF InServer, InHand, InQueue, OnLink
<1> QED
  BY <1>1, <1>2

LEMMA ReadOrdered ==
  ASSUME Typed, Connections, Ordered, ReadCommand
  PROVE  Ordered'
<1>0. PICK c \in Links : c = fd[dSock] /\ dPc = "read" /\ dSock \in Fds
  BY DEF ReadCommand, Typed, ReadTypes
<1>a. PICK h : h = Head(up[c])
  OBVIOUS
<1>1. /\ dPc = "read" /\ dSock \in Fds /\ fd[dSock] = c /\ up[c] # << >> /\ h = Head(up[c])
      /\ commands' = Append(commands, h) /\ up' = [up EXCEPT ![c] = Tail(up[c])]
      /\ UNCHANGED <<hand, toServer, from>>
  BY <1>0, <1>a DEF ReadCommand, tVars
<1>2. /\ h \in OnLink(c) /\ h \in Commands /\ OnLink(c)' \subseteq OnLink(c)
      /\ Sorted(up'[c]) /\ \A y \in OnLink(c)' : h < y
  <2>1. up[c] \in Seq(Commands) /\ up'[c] = Tail(up[c]) /\ Sorted(up[c])
    BY <1>1, SequenceTypes DEF Ordered, InOrder
  <2> QED
    BY <1>1, <2>1, TailFacts, SequenceTypes DEF OnLink
<1>3. \A d \in Links : d # c => up'[d] = up[d] /\ OnLink(d)' = OnLink(d)
  BY <1>1, SequenceTypes DEF OnLink
<1>4. \A d \in Links : d < c => OnLink(d) = {}
  <2> SUFFICES ASSUME NEW d \in Links, d < c, up[d] # << >> PROVE FALSE
    BY EmptyFacts DEF OnLink
  <2>1. d \in ToSet(backlog) \/ d = c
    BY <1>1 DEF Connections, Reading
  <2>2. c \in Nat /\ d \in Nat
    BY <1>1, LinkNumbers
  <2> QED
    BY <1>1, <2>1, <2>2 DEF Connections
<1>5. InServer' = InServer \union {h} /\ Sorted(commands')
  <2>1. \A y \in InServer : y < h
    BY <1>1, <1>2 DEF Ordered, LinksApart, Below
  <2> QED
    <3>1. Sorted(commands) /\ commands \in Seq(Commands) /\ InServer = ToSet(commands)
      BY SequenceTypes DEF InServer, Ordered, InOrder
    <3>2. InServer' = ToSet(Append(commands, h))
      BY <1>1 DEF InServer
    <3> QED
      BY <1>1, <1>2, <2>1, <3>1, <3>2, AppendFacts, Bounds
<1>6. InHand' = InHand /\ InQueue' = InQueue /\ Unused' = Unused
  BY <1>1 DEF InHand, InQueue, Unused
<1>7. InOrder'
  BY <1>1, <1>2, <1>3, <1>5 DEF Ordered, InOrder
<1>8. BelowRest'
  BY <1>1, <1>2, <1>5, <1>6 DEF Ordered, BelowRest, LinksApart, Below
<1>9. \A d \in Links : OnLink(d)' \subseteq OnLink(d)
  BY <1>2, <1>3
<1>10. LinksApart'
  <2>1. ASSUME NEW d \in Links PROVE Below(InServer', OnLink(d)')
    <3>1. CASE d = c
      BY <1>1, <1>2, <1>5, <3>1 DEF Ordered, LinksApart, Below
    <3>2. CASE d < c
      BY <1>4, <1>9, <3>2 DEF Below
    <3>3. CASE c < d
      BY <1>1, <1>2, <1>5, <1>9, <3>3 DEF Ordered, LinksApart, Below
    <3> QED
      BY <1>1, <3>1, <3>2, <3>3, LinkNumbers
  <2>2. \A d \in Links : Below(OnLink(d)', InHand') /\ Below(OnLink(d)', InQueue')
    BY <1>6, <1>9 DEF Ordered, LinksApart, Below
  <2>3. \A d, e \in Links : d < e => Below(OnLink(d)', OnLink(e)')
    BY <1>9 DEF Ordered, LinksApart, Below
  <2> QED
    BY <2>1, <2>2, <2>3 DEF LinksApart
<1>11. Numbered'
  <2>1. Below(InServer', Unused')
    BY <1>1, <1>2, <1>5, <1>6 DEF Ordered, Numbered, Below
  <2> QED
    BY <1>6, <1>9, <2>1 DEF Ordered, Numbered, Below
<1> QED
  BY <1>7, <1>8, <1>10, <1>11 DEF Ordered

LEMMA WriteOrdered ==
  ASSUME Typed, Connections, Ordered, Write
  PROVE  Ordered'
<1>0. PICK t \in Links : t = tSock /\ t = made
  BY DEF Write, Typed, SockTypes, Connections
<1>a. PICK h : h = Head(hand)
  OBVIOUS
<1>1. /\ hand # << >> /\ h = Head(hand) /\ t = made
      /\ up' = [up EXCEPT ![t] = Append(up[t], h)] /\ hand' = Tail(hand)
      /\ UNCHANGED <<commands, toServer, from, made>>
  BY <1>0, <1>a DEF Write, dVars
<1>2. /\ h \in InHand /\ h \in Commands /\ InHand' \subseteq InHand
      /\ Sorted(hand') /\ \A y \in InHand' : h < y
  BY <1>1, TailFacts, SequenceTypes DEF InHand, Ordered, InOrder
<1>3. \A d \in Links : d # t => up'[d] = up[d] /\ OnLink(d)' = OnLink(d)
  BY <1>1, SequenceTypes DEF OnLink
<1>4. OnLink(t)' = OnLink(t) \union {h} /\ Sorted(up'[t])
  <2>1. \A y \in OnLink(t) : y < h
    BY <1>1, <1>2 DEF Ordered, LinksApart, Below
  <2>2. up'[t] = Append(up[t], h) /\ OnLink(t)' = ToSet(Append(up[t], h))
    BY <1>1, SequenceTypes DEF OnLink
  <2> QED
    BY <1>1, <1>2, <2>1, <2>2, AppendFacts, SequenceTypes, SMTT(30) DEF OnLink, Ordered, InOrder
<1>5. \A d \in Links : t < d => OnLink(d) = {}
  <2> SUFFICES ASSUME NEW d \in Links, t < d, up[d] # << >> PROVE FALSE
    BY EmptyFacts DEF OnLink
  <2>1. d \in ToSet(backlog) \/ (dSock \in Fds /\ fd[dSock] = d)
    BY DEF Connections, Reading, Typed, ReadTypes
  <2>2. d <= made
    BY <2>1 DEF Connections
  <2> QED
    BY <1>1, <2>2, LinkNumbers
<1>6. InServer' = InServer /\ InQueue' = InQueue /\ Unused' = Unused
  BY <1>1 DEF InServer, InQueue, Unused
<1>7. InOrder'
  BY <1>1, <1>2, <1>3, <1>4 DEF Ordered, InOrder
<1>8. BelowRest'
  BY <1>2, <1>6 DEF Ordered, BelowRest, Below
<1>9. ASSUME NEW d \in Links
      PROVE  /\ Below(InServer', OnLink(d)') /\ Below(OnLink(d)', InHand')
             /\ Below(OnLink(d)', InQueue') /\ Below(OnLink(d)', Unused')
  <2>1. CASE d = t
    <3>1. Below(InServer, {h}) /\ Below({h}, InHand') /\ Below({h}, InQueue) /\ Below({h}, Unused)
      BY <1>2 DEF Ordered, BelowRest, Numbered, Below
    <3>2. /\ Below(InServer, OnLink(d)) /\ Below(OnLink(d), InHand')
          /\ Below(OnLink(d), InQueue) /\ Below(OnLink(d), Unused)
      BY <1>2 DEF Ordered, LinksApart, Numbered, Below
    <3> QED
      BY <1>4, <1>6, <2>1, <3>1, <3>2 DEF Below
  <2>2. CASE d # t
    BY <1>2, <1>3, <1>6, <2>2 DEF Ordered, LinksApart, Numbered, Below
  <2> QED
    BY <2>1, <2>2
<1>10. ASSUME NEW d \in Links, NEW e \in Links, d < e PROVE Below(OnLink(d)', OnLink(e)')
  <2>0. Below(OnLink(d), OnLink(e)) /\ d \in Nat /\ e \in Nat
    BY <1>10, LinkNumbers DEF Ordered, LinksApart
  <2>1. CASE d = t
    BY <1>3, <1>5, <1>10, <2>0, <2>1 DEF Below
  <2>2. CASE e = t
    <3>1. OnLink(d)' = OnLink(d)
      BY <1>3, <1>10, <2>0, <2>2
    <3>2. Below(OnLink(d), {h})
      BY <1>2 DEF Ordered, LinksApart, Below
    <3> QED
      BY <1>4, <2>0, <2>2, <3>1, <3>2 DEF Below
  <2>3. CASE d # t /\ e # t
    BY <1>3, <2>0, <2>3
  <2> QED
    BY <2>1, <2>2, <2>3
<1>11. LinksApart'
  BY <1>9, <1>10 DEF LinksApart
<1>12. Numbered'
  BY <1>2, <1>6, <1>9 DEF Ordered, Numbered, Below
<1> QED
  BY <1>7, <1>8, <1>11, <1>12 DEF Ordered

LEMMA CommandOrdered ==
  ASSUME Typed, Ordered, Command
  PROVE  Ordered'
<1> DEFINE n == Len(from) + 1
<1>1. /\ n \in Commands /\ n \in Nat /\ Len(from') = n /\ toServer' = Append(toServer, n)
      /\ UNCHANGED <<commands, hand, up>>
  BY SequenceTypes, Bounds DEF Command, Commands, linkVars, dVars
<1>2. Unused = {n} /\ Unused' = {n + 1}
  BY <1>1 DEF Unused
<1>3. InQueue' = InQueue \union {n} /\ Sorted(toServer')
  <2>1. \A y \in InQueue : y < n
    BY <1>2 DEF Ordered, Numbered, Below
  <2> QED
    BY <1>1, <2>1, AppendFacts, SequenceTypes DEF InQueue, Ordered, InOrder
<1>4. InServer' = InServer /\ InHand' = InHand /\ \A c \in Links : OnLink(c)' = OnLink(c)
  BY <1>1 DEF InServer, InHand, OnLink
<1>5. InOrder'
  BY <1>1, <1>3 DEF Ordered, InOrder
<1>6. BelowRest'
  BY <1>2, <1>3, <1>4 DEF Ordered, BelowRest, Numbered, Below
<1>7. LinksApart'
  BY <1>2, <1>3, <1>4 DEF Ordered, LinksApart, Numbered, Below
<1>8. Numbered'
  <2>1. \A y \in Nat : y < n => y < n + 1
    BY <1>1
  <2> QED
    BY <1>1, <1>2, <1>3, <1>4, <2>1, SequenceTypes DEF Ordered, Numbered, Below
<1> QED
  BY <1>5, <1>6, <1>7, <1>8 DEF Ordered

LEMMA NextOrdered == Typed /\ Connections /\ Ordered /\ [Next]_vars => Ordered'
<1> SUFFICES ASSUME Typed, Connections, Ordered, [Next]_vars PROVE Ordered'
  OBVIOUS
<1>1. CASE UNCHANGED vars
  BY <1>1, SameOrdered DEF vars, linkVars, dVars, tVars
<1>2. CASE HandleClientConnection
  <2>1. CASE UNCHANGED <<commands, hand, toServer, up, from>>
    BY <2>1, SameOrdered
  <2>2. CASE ReadCommand
    BY <2>2, ReadOrdered
  <2> QED
    BY <1>2, <2>1, <2>2 DEF HandleClientConnection, Reset, Accept, EndOfFile, ReadError,
                            linkVars, tVars
<1>3. CASE HandleConnectToServer
  <2>1. CASE Connect \/ WriteFails
    BY <2>1, EmptiesOrdered DEF Connect, WriteFails, TransmitServerEnds, linkVars, dVars
  <2>2. CASE Take
    <3>1. /\ hand = << >> /\ hand' = toServer /\ toServer' = << >>
          /\ UNCHANGED <<commands, up, from>>
      BY <2>2 DEF Take, linkVars, dVars
    <3>2. /\ InHand' = InQueue /\ InQueue' = {} /\ InServer' = InServer /\ Unused' = Unused
          /\ \A c \in Links : OnLink(c)' = OnLink(c)
      BY <3>1, EmptyFacts DEF InHand, InQueue, InServer, OnLink, Unused
    <3>3. InOrder'
      BY <3>1, EmptyFacts DEF Ordered, InOrder
    <3>4. BelowRest' /\ LinksApart' /\ Numbered'
      BY <3>2 DEF Ordered, BelowRest, LinksApart, Numbered, Below
    <3> QED
      BY <3>3, <3>4 DEF Ordered
  <2>3. CASE Write
    BY <2>3, WriteOrdered
  <2> QED
    BY <1>3, <2>1, <2>2, <2>3 DEF HandleConnectToServer
<1>4. ASSUME NEW c \in Links, WriteToClientT(c) \/ HandleReceiveFromServer(c) PROVE Ordered'
  <2>1. CASE WriterDies(c)
    BY <2>1, EmptiesOrdered DEF WriterDies, DataServerEnds, tVars
  <2> QED
    BY <1>4, <2>1, SameOrdered DEF WriteToClientT, WriterTakes, WriterWrites,
                                   HandleReceiveFromServer, ReadNotice, ReaderEnds,
                                   linkVars, dVars, tVars
<1>5. CASE Notify
  BY <1>5, SameOrdered DEF Notify, linkVars, tVars
<1>6. CASE DRestart \/ TRestart
  BY <1>6, EmptiesOrdered
     DEF DRestart, TRestart, DataServerEnds, TransmitServerEnds, dVars, tVars
<1>7. CASE Command
  BY <1>7, CommandOrdered
<1> QED
  BY <1>1, <1>2, <1>3, <1>4, <1>5, <1>6, <1>7 DEF Next

\* The commands DataServer has read are in the order in which TransmitServer queued
\* them, none came twice and each was queued: no lost connection, no list that was
\* half written and no restart of a process puts an older command behind a newer one.
THEOREM CommandsInOrder ==
  Spec => [](/\ \A i, j \in DOMAIN commands : i < j => commands[i] < commands[j]
             /\ \A i \in DOMAIN commands : commands[i] <= Len(from))
<1> DEFINE Good == /\ \A i, j \in DOMAIN commands : i < j => commands[i] < commands[j]
                   /\ \A i \in DOMAIN commands : commands[i] <= Len(from)
<1>1. Typed /\ Ordered => Good
  <2> SUFFICES ASSUME Typed, Ordered PROVE Good
    OBVIOUS
  <2>1. \A i, j \in DOMAIN commands : i < j => commands[i] < commands[j]
    BY DEF Ordered, InOrder, Sorted
  <2>2. ASSUME NEW i \in DOMAIN commands PROVE commands[i] <= Len(from)
    <3>1. commands[i] \in InServer /\ commands[i] \in Nat /\ Len(from) \in Nat
      BY SequenceTypes DEF InServer, ToSet
    <3>2. commands[i] < Len(from) + 1
      BY <3>1 DEF Ordered, Numbered, Below, Unused
    <3> QED
      BY <3>1, <3>2
  <2> QED
    BY <2>1, <2>2
<1> QED
  BY InitTyped, NextTyped, InitConnections, NextConnections, InitOrdered, NextOrdered, <1>1,
     PTL DEF Spec

-----------------------------------------------------------------------------
(* The notices.                                                            *)

\* No connection ended with notices that nobody read.
AllRead == \A c \in Links \ {tSock} : down[c] = << >>

\* A writer then writes to its own connection: what a descriptor means changes only
\* where a read fails, and the read of a connection fails only when notices are left.
OwnLink == \A c \in Links : writer[c].fd # None => fd[writer[c].fd] = c

\* The numbers of the notices at each place on their way.
Told == ToSet(told)
Arrived(c) == ToSet(down[c])
Held(c) == ToSet(writer[c].hand)
ForClient == ToSet(toClient)
NextNotice == {notices + 1}

\* Each place holds its notices in the order they were queued; only what is on its
\* way over the link TransmitServer holds must be newer than what it was told: the
\* frames that the writers of older links hold go nowhere.
InTurn == /\ Sorted(told) /\ Sorted(toClient)
          /\ \A c \in Links : Sorted(down[c]) /\ Sorted(writer[c].hand)
Queueing == /\ Below(Told, ForClient)
            /\ \A c \in Links : Below(Arrived(c), ForClient) /\ Below(Held(c), ForClient)
Arriving == /\ \A c \in Links : Below(Told, Arrived(c))
            /\ \A c \in Links : c = tSock => Below(Told, Held(c)) /\ Below(Arrived(c), Held(c))
Counted == /\ Below(Told, NextNotice) /\ Below(ForClient, NextNotice)
           /\ \A c \in Links : Below(Arrived(c), NextNotice) /\ Below(Held(c), NextNotice)

Telling == InTurn /\ Queueing /\ Arriving /\ Counted

\* What was left unread stays unread.
LEMMA StillRead ==
  ASSUME Typed, Connections, [Next]_vars, AllRead'
  PROVE  AllRead
<1> USE LinkNumbers
<1> SUFFICES ASSUME NEW c \in Links, c # tSock, down[c] # << >> PROVE FALSE
  BY DEF AllRead
<1>1. tSock' # c
  <2>1. tSock' \in {tSock, None} \/ tSock' = made + 1
    BY DEF Next, HandleClientConnection, Reset, Accept, ReadCommand, EndOfFile, ReadError,
           HandleConnectToServer, Connect, Take, Write, WriteFails, WriteToClientT,
           WriterTakes, WriterWrites, WriterDies, HandleReceiveFromServer, ReadNotice,
           ReaderEnds, Notify, Command, DRestart, TRestart, DataServerEnds,
           TransmitServerEnds, vars, linkVars, dVars, tVars
  <2>2. c <= made
    BY DEF Connections
  <2> QED
    BY <2>1, <2>2, Bounds
<1>2. down'[c] = down[c]
  <2> down \in [Links -> Seq(Notices)]
    BY DEF Typed, NoticeTypes
  <2>1. CASE UNCHANGED down
    BY <2>1
  <2>2. ASSUME NEW d \in Links, ReadNotice(d) PROVE down'[c] = down[c]
    BY <2>2 DEF ReadNotice, TOpen
  <2>3. ASSUME NEW d \in Links, WriterWrites(d) PROVE down'[c] = down[c]
    BY <2>3 DEF WriterWrites, TOpen
  <2> QED
    BY <2>1, <2>2, <2>3 DEF Next, HandleClientConnection, Reset, Accept, ReadCommand,
           EndOfFile, ReadError, HandleConnectToServer, Connect, Take, Write, WriteFails,
           WriteToClientT, WriterTakes, WriterDies, HandleReceiveFromServer, ReaderEnds,
           Notify, Command, DRestart, TRestart, DataServerEnds, TransmitServerEnds,
           vars, linkVars, dVars, tVars
<1> QED
  BY <1>1, <1>2 DEF AllRead

LEMMA InitTelling == Init => OwnLink /\ Telling
<1> SUFFICES ASSUME Init PROVE OwnLink /\ Telling
  OBVIOUS
<1>1. /\ Told = {} /\ ForClient = {} /\ \A c \in Links : Arrived(c) = {} /\ Held(c) = {}
  BY EmptyFacts DEF Init, Told, ForClient, Arrived, Held, NoWriter
<1>2. InTurn
  BY EmptyFacts DEF Init, InTurn, NoWriter
<1>3. OwnLink
  BY DEF Init, OwnLink, NoWriter
<1> QED
  BY <1>1, <1>2, <1>3 DEF Telling, Queueing, Arriving, Counted, Below

\* A step after which each place holds a part of what it held.
LEMMA LosesTelling ==
  ASSUME Telling, notices' = notices, tSock' \in {tSock, None},
         Told' \subseteq Told, ForClient' \subseteq ForClient,
         \A c \in Links : Arrived(c)' \subseteq Arrived(c) /\ Held(c)' \subseteq Held(c),
         InTurn'
  PROVE  Telling'
<1>1. Queueing'
  BY DEF Telling, Queueing, Below
<1>2. Arriving'
  BY Bounds DEF Telling, Arriving, Below
<1>3. Counted'
  BY DEF Telling, Counted, NextNotice, Below
<1> QED
  BY <1>1, <1>2, <1>3 DEF Telling

LEMMA SameTelling ==
  ASSUME Telling, tSock' \in {tSock, None}, UNCHANGED <<told, down, writer, notices>>,
         toClient' \in {toClient, << >>}
  PROVE  Telling'
<1> USE EmptyFacts
<1>1. Told' \subseteq Told /\ ForClient' \subseteq ForClient
  BY DEF Told, ForClient
<1>2. \A c \in Links : Arrived(c)' \subseteq Arrived(c) /\ Held(c)' \subseteq Held(c)
  BY DEF Arrived, Held
<1>3. InTurn'
  BY DEF Telling, InTurn
<1> QED
  BY <1>1, <1>2, <1>3, LosesTelling

\* A step that stops writers, or starts them with nothing in hand.
LEMMA StopsTelling ==
  ASSUME Telling, UNCHANGED <<tSock, told, down, notices>>, toClient' \in {toClient, << >>},
         \A c \in Links : writer'[c] = writer[c] \/ writer'[c].hand = << >>
  PROVE  Telling'
<1> USE EmptyFacts
<1>1. Told' \subseteq Told /\ ForClient' \subseteq ForClient
  BY DEF Told, ForClient
<1>2. \A c \in Links : Arrived(c)' \subseteq Arrived(c) /\ Held(c)' \subseteq Held(c)
  BY DEF Arrived, Held
<1>3. InTurn'
  BY DEF Telling, InTurn
<1> QED
  BY <1>1, <1>2, <1>3, LosesTelling

LEMMA NoticeNumbers ==
  ASSUME Typed
  PROVE  /\ told \in Seq(Notices) /\ toClient \in Seq(Notices) /\ notices \in Nat
         /\ down \in [Links -> Seq(Notices)] /\ writer \in [Links -> Writers]
         /\ \A c \in Links : writer[c].hand \in Seq(Notices)
         /\ Notices \in SUBSET Nat
         /\ Told \subseteq Nat /\ ForClient \subseteq Nat
         /\ \A c \in Links : Arrived(c) \subseteq Nat /\ Held(c) \subseteq Nat
<1>1. /\ told \in Seq(Notices) /\ toClient \in Seq(Notices) /\ notices \in Nat
      /\ down \in [Links -> Seq(Notices)] /\ writer \in [Links -> Writers]
      /\ Notices \in SUBSET Nat
  BY Bounds DEF Typed, NoticeTypes, WriterTypes
<1>2. \A c \in Links : writer[c].hand \in Seq(Notices)
  BY <1>1 DEF Writers
<1>3. /\ Told \subseteq Notices /\ ForClient \subseteq Notices
      /\ \A c \in Links : Arrived(c) \subseteq Notices /\ Held(c) \subseteq Notices
  BY <1>1, <1>2, Members DEF Told, ForClient, Arrived, Held
<1> QED
  BY <1>1, <1>2, <1>3

LEMMA TakesTelling ==
  ASSUME Typed, Telling, NEW c \in Links, WriterTakes(c)
  PROVE  Telling'
<1>1. CASE ~ clientValid
  <2>1. \A d \in Links : writer'[d] = writer[d] \/ writer'[d].hand = << >>
    BY <1>1, NoticeNumbers DEF WriterTakes, NoWriter
  <2> QED
    BY <1>1, <2>1, StopsTelling DEF WriterTakes, linkVars, tVars
<1>2. CASE clientValid
  <2>1. /\ writer' = [writer EXCEPT ![c] = [writer[c] EXCEPT !.hand = toClient]]
        /\ toClient' = << >> /\ writer[c].hand = << >>
        /\ UNCHANGED <<told, down, notices, tSock>>
    BY <1>2 DEF WriterTakes, linkVars, tVars
  <2>2. /\ writer'[c].hand = toClient
        /\ \A d \in Links : d # c => writer'[d] = writer[d]
    BY <2>1, NoticeNumbers DEF Writers
  <2>3. /\ Told' = Told /\ ForClient' = {} /\ NextNotice' = NextNotice
        /\ Held(c)' = ForClient /\ \A d \in Links : d # c => Held(d)' = Held(d)
        /\ \A d \in Links : Arrived(d)' = Arrived(d)
    BY <2>1, <2>2, EmptyFacts DEF Told, ForClient, NextNotice, Held, Arrived
  <2>4. InTurn'
    BY <2>1, <2>2, EmptyFacts DEF Telling, InTurn
  <2>5. Queueing'
    BY <2>3 DEF Queueing, Below
  <2>6. Arriving'
    BY <2>1, <2>3 DEF Telling, Queueing, Arriving
  <2>7. Counted'
    BY <2>3 DEF Telling, Counted, Below
  <2> QED
    BY <2>4, <2>5, <2>6, <2>7 DEF Telling
<1> QED
  BY <1>1, <1>2

LEMMA WritesTelling ==
  ASSUME Typed, OwnLink, Telling, NEW c \in Links, WriterWrites(c)
  PROVE  Telling'
<1>0. PICK h : h = Head(writer[c].hand)
  OBVIOUS
<1>1. /\ writer[c] \in Writers /\ writer[c].hand # << >> /\ writer[c].hand \in Seq(Notices)
      /\ fd[writer[c].fd] = c
  BY WriterFacts, NoticeNumbers, Bounds DEF WriterWrites, OwnLink
<1>2. c = tSock
  BY <1>1 DEF WriterWrites, TOpen
<1> QED
  <2>1. /\ down' = [down EXCEPT ![c] = Append(down[c], h)]
        /\ writer' = [writer EXCEPT ![c] = [writer[c] EXCEPT !.hand = Tail(writer[c].hand)]]
        /\ UNCHANGED <<told, notices, toClient, tSock>>
    BY <1>0, <1>1, <1>2 DEF WriterWrites, TOpen, tVars
  <2>2. /\ writer'[c].hand = Tail(writer[c].hand) /\ down'[c] = Append(down[c], h)
        /\ \A d \in Links : d # c => writer'[d] = writer[d] /\ down'[d] = down[d]
    BY <2>1, NoticeNumbers DEF Writers
  <2>3. /\ h \in Held(c) /\ h \in Notices /\ Held(c)' \subseteq Held(c)
        /\ Sorted(writer'[c].hand) /\ \A y \in Held(c)' : h < y
    <3>1. Sorted(writer[c].hand) /\ Held(c)' = ToSet(Tail(writer[c].hand))
      BY <2>2 DEF Telling, InTurn, Held
    <3> QED
      BY <1>0, <1>1, <2>2, <3>1, TailFacts, Bounds DEF Held
  <2>4. Arrived(c)' = Arrived(c) \union {h} /\ Sorted(down'[c])
    <3>1. \A y \in Arrived(c) : y < h
      BY <1>2, <2>3 DEF Telling, Arriving, Below
    <3>2. down[c] \in Seq(Notices) /\ Sorted(down[c]) /\ Arrived(c)' = ToSet(Append(down[c], h))
      BY <2>2, NoticeNumbers DEF Telling, InTurn, Arrived
    <3> QED
      BY <2>2, <2>3, <3>1, <3>2, AppendFacts, Bounds DEF Arrived
  <2>5. /\ Told' = Told /\ ForClient' = ForClient /\ NextNotice' = NextNotice
        /\ \A d \in Links : d # c => Held(d)' = Held(d) /\ Arrived(d)' = Arrived(d)
    BY <2>1, <2>2 DEF Told, ForClient, NextNotice, Held, Arrived
  <2>6. InTurn'
    BY <2>1, <2>2, <2>3, <2>4 DEF Telling, InTurn
  <2>7. /\ Below(Told, {h}) /\ Below({h}, ForClient) /\ Below({h}, NextNotice)
        /\ Below({h}, Held(c)')
    BY <1>2, <2>3 DEF Telling, Arriving, Queueing, Counted, Below
  <2>8. Queueing'
    BY <2>3, <2>4, <2>5, <2>7 DEF Telling, Queueing, Below
  <2>9. Arriving'
    <3>1. \A d \in Links : Below(Told', Arrived(d)')
      BY <2>4, <2>5, <2>7 DEF Telling, Arriving, Below
    <3>2. Below(Told', Held(c)') /\ Below(Arrived(c)', Held(c)')
      BY <1>2, <2>3, <2>4, <2>5, <2>7 DEF Telling, Arriving, Below
    <3> QED
      BY <1>2, <2>1, <3>1, <3>2 DEF Arriving
  <2>10. Counted'
    BY <2>3, <2>4, <2>5, <2>7 DEF Telling, Counted, Below
  <2> QED
    BY <2>6, <2>8, <2>9, <2>10 DEF Telling

LEMMA NotifyTelling ==
  ASSUME Typed, Telling, Notify
  PROVE  Telling'
<1>0. PICK n : n = notices + 1
  OBVIOUS
<1>1. /\ n \in Notices /\ n \in Nat /\ notices' = n /\ toClient' = Append(toClient, n)
      /\ UNCHANGED <<told, down, writer, tSock>>
  BY <1>0, NoticeNumbers, Bounds DEF Notify, Notices, linkVars, tVars
<1>2. NextNotice = {n} /\ NextNotice' = {n + 1}
  BY <1>0, <1>1 DEF NextNotice
<1>3. ForClient' = ForClient \union {n} /\ Sorted(toClient')
  <2>1. \A y \in ForClient : y < n
    BY <1>2 DEF Telling, Counted, Below
  <2>2. toClient \in Seq(Notices) /\ Sorted(toClient) /\ ForClient' = ToSet(Append(toClient, n))
    BY <1>1, NoticeNumbers DEF Telling, InTurn, ForClient
  <2> QED
    BY <1>1, <2>1, <2>2, AppendFacts, Bounds DEF ForClient
<1>4. Told' = Told /\ \A c \in Links : Arrived(c)' = Arrived(c) /\ Held(c)' = Held(c)
  BY <1>1 DEF Told, Arrived, Held
<1>5. InTurn'
  BY <1>1, <1>3 DEF Telling, InTurn
<1>6. Queueing'
  BY <1>2, <1>3, <1>4 DEF Telling, Queueing, Counted, Below
<1>7. Arriving'
  BY <1>1, <1>4 DEF Telling, Arriving
<1>8. Counted'
  <2>1. \A y \in Nat : y < n => y < n + 1
    BY <1>1
  <2> QED
    BY <1>1, <1>2, <1>3, <1>4, <2>1, NoticeNumbers DEF Telling, Counted, Below
<1> QED
  BY <1>5, <1>6, <1>7, <1>8 DEF Telling

LEMMA ReadTelling ==
  ASSUME Typed, AllRead, Telling, NEW c \in Links, ReadNotice(c)
  PROVE  Telling'
<1>0. PICK h : h = Head(down[c])
  OBVIOUS
<1>1. /\ c = tSock /\ down[c] # << >> /\ down[c] \in Seq(Notices)
      /\ told' = Append(told, h) /\ down' = [down EXCEPT ![c] = Tail(down[c])]
      /\ UNCHANGED <<toClient, writer, notices, tSock>>
  BY <1>0, NoticeNumbers DEF ReadNotice, TOpen, dVars
<1>2. down'[c] = Tail(down[c]) /\ \A d \in Links : d # c => down'[d] = down[d]
  BY <1>1, NoticeNumbers
<1>3. /\ h \in Arrived(c) /\ h \in Notices /\ Arrived(c)' \subseteq Arrived(c)
      /\ Sorted(down'[c]) /\ \A y \in Arrived(c)' : h < y
  <2>1. Sorted(down[c]) /\ Arrived(c)' = ToSet(Tail(down[c]))
    BY <1>2 DEF Telling, InTurn, Arrived
  <2> QED
    BY <1>0, <1>1, <1>2, <2>1, TailFacts, Bounds DEF Arrived
<1>4. Told' = Told \union {h} /\ Sorted(told')
  <2>1. \A y \in Told : y < h
    BY <1>3 DEF Telling, Arriving, Below
  <2>2. told \in Seq(Notices) /\ Sorted(told) /\ Told' = ToSet(Append(told, h))
    BY <1>1, NoticeNumbers DEF Telling, InTurn, Told
  <2> QED
    BY <1>1, <1>3, <2>1, <2>2, AppendFacts, Bounds DEF Told
<1>5. /\ ForClient' = ForClient /\ NextNotice' = NextNotice
      /\ \A d \in Links : Held(d)' = Held(d) /\ (d # c => Arrived(d)' = Arrived(d))
  BY <1>1, <1>2 DEF ForClient, NextNotice, Held, Arrived
<1>6. InTurn'
  BY <1>1, <1>2, <1>3, <1>4 DEF Telling, InTurn
<1>7. Below({h}, ForClient) /\ Below({h}, NextNotice) /\ Below({h}, Held(c)) /\ Below({h}, Arrived(c)')
  BY <1>1, <1>3 DEF Telling, Queueing, Counted, Arriving, Below
<1>8. Queueing'
  BY <1>3, <1>4, <1>5, <1>7 DEF Telling, Queueing, Below
<1>9. Arriving'
  <2>1. \A d \in Links : Below(Told', Arrived(d)')
    <3>1. \A d \in Links : d # c => Arrived(d)' = {}
      BY <1>1, <1>5, EmptyFacts DEF AllRead, Arrived
    <3> QED
      BY <1>3, <1>4, <1>7, <3>1 DEF Telling, Arriving, Below
  <2>2. Below(Told', Held(c)') /\ Below(Arrived(c)', Held(c)')
    BY <1>1, <1>3, <1>4, <1>5, <1>7 DEF Telling, Arriving, Below
  <2> QED
    BY <1>1, <2>1, <2>2 DEF Arriving
<1>10. Counted'
  BY <1>3, <1>4, <1>5, <1>7 DEF Telling, Counted, Below
<1> QED
  BY <1>6, <1>8, <1>9, <1>10 DEF Telling

LEMMA ConnectTelling ==
  ASSUME Typed, Connections, Telling, Connect
  PROVE  Telling'
<1>1. PICK t \in Links : t = made + 1
  BY LinkNumbers, Bounds DEF Connect, Links
<1>2. tSock' = t /\ UNCHANGED <<told, down, writer, notices, toClient>>
  BY <1>1 DEF Connect
<1>3. Arrived(t) = {} /\ Held(t) = {}
  BY <1>1, EmptyFacts, LinkNumbers DEF Connections, Arrived, Held, NoWriter
<1>4. /\ Told' = Told /\ ForClient' = ForClient /\ NextNotice' = NextNotice
      /\ \A c \in Links : Arrived(c)' = Arrived(c) /\ Held(c)' = Held(c)
  BY <1>2 DEF Told, ForClient, NextNotice, Arrived, Held
<1>5. InTurn'
  BY <1>2 DEF Telling, InTurn
<1>6. Queueing' /\ Counted'
  BY <1>4 DEF Telling, Queueing, Counted
<1>7. Arriving'
  BY <1>2, <1>3, <1>4 DEF Telling, Arriving, Below
<1> QED
  BY <1>5, <1>6, <1>7 DEF Telling

LEMMA NextTelling ==
  ASSUME Typed, Connections, AllRead, OwnLink, Telling, [Next]_vars
  PROVE  Telling'
<1>1. CASE UNCHANGED vars
  BY <1>1, SameTelling DEF vars, linkVars, dVars, tVars
<1>2. CASE HandleClientConnection
  <2>1. ASSUME NEW n \in Fds, Accept(n) PROVE Telling'
    <3>1. \A c \in Links : writer'[c] = writer[c] \/ writer'[c].hand = << >>
      BY <2>1, NoticeNumbers DEF Accept
    <3> QED
      BY <2>1, <3>1, StopsTelling DEF Accept, linkVars, tVars
  <2>2. CASE Reset \/ ReadCommand \/ EndOfFile \/ ReadError
    BY <2>2, SameTelling DEF Reset, ReadCommand, EndOfFile, ReadError, linkVars, tVars
  <2> QED
    BY <1>2, <2>1, <2>2 DEF HandleClientConnection
<1>3. CASE HandleConnectToServer
  <2>1. CASE Take \/ Write \/ WriteFails
    BY <2>1, SameTelling DEF Take, Write, WriteFails, TransmitServerEnds, linkVars, dVars
  <2> QED
    BY <1>3, <2>1, ConnectTelling DEF HandleConnectToServer
<1>4. ASSUME NEW c \in Links, WriterTakes(c) \/ WriterWrites(c) PROVE Telling'
  BY <1>4, TakesTelling, WritesTelling
<1>5. ASSUME NEW c \in Links, HandleReceiveFromServer(c) PROVE Telling'
  <2>1. CASE ReaderEnds(c)
    BY <2>1, SameTelling DEF ReaderEnds, linkVars, dVars
  <2> QED
    BY <1>5, <2>1, ReadTelling DEF HandleReceiveFromServer
<1>6. CASE Command \/ TRestart
  BY <1>6, SameTelling DEF Command, TRestart, TransmitServerEnds, linkVars, dVars
<1>7. ASSUME NEW pc, DataServerEnds(pc) PROVE Telling'
  <2>1. \A c \in Links : writer'[c].hand = << >>
    BY <1>7 DEF DataServerEnds, NoWriter
  <2> QED
    BY <1>7, <2>1, StopsTelling DEF DataServerEnds, tVars
<1>8. ASSUME NEW c \in Links, WriteToClientT(c) PROVE Telling'
  BY <1>4, <1>7, <1>8 DEF WriteToClientT, WriterDies
<1>9. CASE DRestart
  BY <1>7, <1>9 DEF DRestart
<1> QED
  BY <1>1, <1>2, <1>3, <1>5, <1>6, <1>8, <1>9, NotifyTelling DEF Next

LEMMA NextOwnLink ==
  ASSUME Typed, Connections, AllRead, OwnLink, [Next]_vars
  PROVE  OwnLink'
<1> USE NoticeNumbers, LinkNumbers
<1>1. CASE UNCHANGED <<fd, writer>>
  BY <1>1 DEF OwnLink
<1>2. ASSUME NEW n \in Fds, Accept(n) PROVE OwnLink'
  <2>1. /\ fd[n] = None /\ fd' = [fd EXCEPT ![n] = Head(backlog)]
        /\ writer' = [writer EXCEPT ![Head(backlog)] = [fd |-> n, hand |-> << >>]]
        /\ Head(backlog) \in Links
    BY <1>2, TailFacts DEF Accept
  <2> SUFFICES ASSUME NEW c \in Links, writer'[c].fd # None
               PROVE  fd'[writer'[c].fd] = c
    BY DEF OwnLink
  <2>2. CASE c = Head(backlog)
    BY <2>1, <2>2
  <2>3. CASE c # Head(backlog)
    <3>1. writer'[c] = writer[c] /\ fd[writer[c].fd] = c /\ writer[c].fd \in Fds
      BY <2>1, <2>3, WriterFacts DEF OwnLink
    <3>2. c # None
      BY Bounds
    <3> QED
      BY <2>1, <3>1, <3>2
  <2> QED
    BY <2>2, <2>3
<1>3. CASE ReadError
  BY <1>3 DEF ReadError, LinkEnded, TOpen, AllRead, Typed, ReadTypes
<1>4. ASSUME NEW c \in Links, WriterTakes(c) \/ WriterWrites(c) PROVE OwnLink'
  <2>1. fd' = fd /\ \A d \in Links : writer'[d].fd \in {writer[d].fd, None}
    <3>1. fd' = fd
      BY <1>4 DEF WriterTakes, WriterWrites
    <3>2. \/ writer' = [writer EXCEPT ![c] = NoWriter]
          \/ \E q : writer' = [writer EXCEPT ![c] = [writer[c] EXCEPT !.hand = q]]
      BY <1>4 DEF WriterTakes, WriterWrites
    <3>3. NoWriter.fd = None /\ \A q : [writer[c] EXCEPT !.hand = q].fd = writer[c].fd
      BY DEF NoWriter, Writers
    <3>4. PICK w : writer' = [writer EXCEPT ![c] = w] /\ w.fd \in {writer[c].fd, None}
      BY <3>2, <3>3
    <3> QED
      BY <3>1, <3>4
  <2> QED
    BY <2>1 DEF OwnLink
<1>5. ASSUME NEW pc, DataServerEnds(pc) PROVE OwnLink'
  BY <1>5 DEF DataServerEnds, OwnLink, NoWriter
<1> QED
  BY <1>1, <1>2, <1>3, <1>4, <1>5 DEF Next, HandleClientConnection, Reset, ReadCommand,
     EndOfFile, HandleConnectToServer, Connect, Take, Write, WriteFails, WriteToClientT,
     WriterDies, HandleReceiveFromServer, ReadNotice, ReaderEnds, Notify, Command,
     DRestart, TRestart, TransmitServerEnds, vars, linkVars, dVars, tVars

\* TransmitServer is told the notices in the order in which DataServer queued them,
\* as long as no connection ended with notices unread, through every restart.
THEOREM NoticesInOrder == Spec => []ToldInOrder
<1> DEFINE Inv == AllRead => OwnLink /\ Telling
<1>1. Init => Inv
  BY InitTelling
<1>2. Typed /\ Connections /\ Inv /\ [Next]_vars => Inv'
  BY StillRead, NextOwnLink, NextTelling
<1>3. Inv => ToldInOrder
  BY DEF ToldInOrder, AllRead, Telling, InTurn, Sorted
<1> QED
  BY InitTyped, NextTyped, InitConnections, NextConnections, <1>1, <1>2, <1>3, PTL DEF Spec

-----------------------------------------------------------------------------
(* The commands of each life of TransmitServer are one FrameChannel.       *)

\* The connection TransmitServer holds waits in the backlog or is read, or DataServer
\* has ended and holds no connection at all.
Reached ==
    tSock # None => \/ tSock \in ToSet(backlog) \/ Reading(tSock)
                    \/ backlog = << >> /\ dPc # "read"

\* What TransmitServer holds was queued in its present life, nothing in a later one.
OfThisLife == /\ \A n \in InHand \union InQueue : from[n] = life
              /\ \A n \in DOMAIN from : from[n] \in 0 .. life

LEMMA NextReached == Typed /\ Connections /\ Reached /\ [Next]_vars => Reached'
<1> SUFFICES ASSUME Typed, Connections, Reached, [Next]_vars PROVE Reached'
  OBVIOUS
<1> USE LinkNumbers
<1>1. CASE UNCHANGED <<dPc, dSock, fd, backlog>> /\ tSock' \in {tSock, None}
  BY <1>1 DEF Reached, Reading
<1>2. CASE Reset
  BY <1>2 DEF Reset, tVars, Reached, Reading
<1>3. ASSUME NEW n \in Fds, Accept(n) PROVE Reached'
  <2>1. /\ backlog # << >> /\ dPc = "accept" /\ dPc' = "read" /\ dSock' = n
        /\ fd'[n] = Head(backlog) /\ backlog' = Tail(backlog) /\ tSock' = tSock
    BY <1>3 DEF Accept, tVars
  <2>2. ToSet(backlog) \subseteq ToSet(Tail(backlog)) \union {Head(backlog)}
    BY <2>1, TailFacts
  <2> QED
    BY <2>1, <2>2 DEF Reached, Reading
<1>4. CASE EndOfFile \/ ReadError
  BY <1>4 DEF EndOfFile, ReadError, LinkEnded, TOpen, tVars, Reached, Reading
<1>5. CASE Connect
  <2>1. made + 1 \in Links /\ tSock' = made + 1 /\ backlog' = Append(backlog, made + 1)
    BY <1>5, Bounds DEF Connect, Links
  <2>2. made + 1 \in ToSet(backlog')
    BY <2>1, AppendFacts
  <2> QED
    BY <2>1, <2>2 DEF Reached
<1>6. ASSUME NEW pc \in {"reset", "dead"}, DataServerEnds(pc) PROVE Reached'
  BY <1>6 DEF DataServerEnds, Reached
<1> QED
  BY <1>1, <1>2, <1>3, <1>4, <1>5, <1>6 DEF Next, HandleClientConnection, ReadCommand,
     HandleConnectToServer, Take, Write, WriteFails, WriteToClientT, WriterTakes,
     WriterWrites, WriterDies, HandleReceiveFromServer, ReadNotice, ReaderEnds, Notify,
     Command, DRestart, TRestart, TransmitServerEnds, vars, linkVars, dVars, tVars

LEMMA NumbersQueued ==
  ASSUME Typed, Ordered
  PROVE  /\ Len(from) \in Nat /\ DOMAIN from = 1 .. Len(from)
         /\ InServer \union UnderWay \subseteq DOMAIN from
         /\ UnderWay = (UNION {OnLink(c) : c \in Links}) \union InHand \union InQueue
<1>1. UnderWay = (UNION {OnLink(c) : c \in Links}) \union InHand \union InQueue
  BY DEF UnderWay, OnLink, InHand, InQueue
<1>2. /\ InServer \subseteq Commands /\ InHand \subseteq Commands /\ InQueue \subseteq Commands
      /\ \A c \in Links : OnLink(c) \subseteq Commands
  BY SequenceTypes, Members DEF InServer, InHand, InQueue, OnLink
<1>3. Len(from) \in Nat /\ DOMAIN from = 1 .. Len(from)
  BY SequenceTypes
<1>4. \A n \in Commands : n < Len(from) + 1 => n \in 1 .. Len(from)
  BY <1>3, Bounds DEF Commands
<1>5. /\ InServer \subseteq 1 .. Len(from) /\ InHand \subseteq 1 .. Len(from)
      /\ InQueue \subseteq 1 .. Len(from)
      /\ \A c \in Links : OnLink(c) \subseteq 1 .. Len(from)
  BY <1>2, <1>4 DEF Ordered, Numbered, Below, Unused
<1> QED
  BY <1>1, <1>3, <1>5

LEMMA OneCommandMore ==
  ASSUME NEW q \in Seq(Commands), NEW h \in Commands
  PROVE  ToSet(Append(q, h)) = ToSet(q) \union {h}
  BY AppendFacts, Bounds

LEMMA NextOfThisLife == Typed /\ Ordered /\ OfThisLife /\ [Next]_vars => OfThisLife'
<1> SUFFICES ASSUME Typed, Ordered, OfThisLife, [Next]_vars PROVE OfThisLife'
  OBVIOUS
<1> USE SequenceTypes
<1>1. CASE InHand' \union InQueue' \subseteq InHand \union InQueue /\ UNCHANGED <<from, life>>
  BY <1>1 DEF OfThisLife
<1>2. UNCHANGED <<hand, toServer>> => InHand' = InHand /\ InQueue' = InQueue
  BY DEF InHand, InQueue
<1>3. CASE (Take \/ Write \/ WriteFails) /\ UNCHANGED <<from, life>>
  <2>1. InHand' \union InQueue' \subseteq InHand \union InQueue
    <3>1. CASE Write
      BY <3>1, TailFacts DEF Write, InHand, InQueue
    <3>2. CASE Take \/ WriteFails
      BY <3>2, EmptyFacts DEF Take, WriteFails, TransmitServerEnds, InHand, InQueue
    <3> QED
      BY <1>3, <3>1, <3>2
  <2> QED
    BY <1>1, <1>3, <2>1
<1>4. CASE Command
  <2>1. /\ from' = Append(from, life) /\ toServer' = Append(toServer, Len(from) + 1)
        /\ UNCHANGED <<hand, life>> /\ Len(from) + 1 \in Commands /\ life \in Nat
    BY <1>4, Bounds DEF Command, Commands, Typed, CountTypes
  <2>2. InHand' \union InQueue' \subseteq InHand \union InQueue \union {Len(from) + 1}
    <3>1. ToSet(Append(toServer, Len(from) + 1)) = ToSet(toServer) \union {Len(from) + 1}
      BY <2>1, OneCommandMore
    <3> QED
      BY ONLY <2>1, <3>1 DEF InHand, InQueue
  <2>3. \A n \in 1 .. Len(from) : from'[n] = from[n]
    BY <2>1
  <2>4. from'[Len(from) + 1] = life /\ DOMAIN from' = 1 .. Len(from) + 1
    BY <2>1
  <2>5. \A n \in InHand \union InQueue : n \in 1 .. Len(from)
    BY NumbersQueued
  <2>6. \A n \in InHand' \union InQueue' : from'[n] = life'
    BY <2>1, <2>2, <2>3, <2>4, <2>5 DEF OfThisLife
  <2>7. \A n \in DOMAIN from' : from'[n] \in 0 .. life'
    BY <2>1, <2>3, <2>4, NumbersQueued DEF OfThisLife
  <2> QED
    BY <2>6, <2>7 DEF OfThisLife
<1>5. ASSUME NEW startsAgain, TransmitServerEnds(startsAgain) PROVE OfThisLife'
  <2>1. /\ InHand' = {} /\ InQueue' = {} /\ from' = from /\ life \in Nat
        /\ life' = life \/ life' = life + 1
    BY <1>5, EmptyFacts DEF TransmitServerEnds, InHand, InQueue, Typed, CountTypes
  <2> QED
    BY <2>1 DEF OfThisLife
<1> QED
  BY <1>1, <1>2, <1>3, <1>4, <1>5 DEF Next, HandleClientConnection, Reset, Accept,
     ReadCommand, EndOfFile, ReadError, HandleConnectToServer, Connect, Take, Write,
     WriteFails, WriteToClientT, WriterTakes, WriterWrites, WriterDies, DataServerEnds,
     HandleReceiveFromServer, ReadNotice, ReaderEnds, Notify, DRestart, TRestart, vars,
     linkVars, dVars, tVars

\* Commands that are no longer under way are the first ones, and lost or read.
LEMMA ChannelWrites ==
  ASSUME Typed, Ordered, OfThisLife, UNCHANGED <<from, life>>,
         NEW now, now = UnderWay \ UnderWay', UnderWay' \subseteq UnderWay,
         Below(now, UnderWay'),
         commands' = commands \/ \E h : now = {h} /\ commands' = Append(commands, h)
  PROVE  Channel!Write
<1>1. \A n \in UnderWay : from[n] \in Lives
  BY NumbersQueued, Bounds DEF OfThisLife, Lives, Typed, CountTypes
<1>2. now \in SUBSET UNION {OfLife(l) : l \in Lives}
  BY <1>1 DEF OfLife
<1>3. \A l \in Lives : Channel!First(now \intersect OfLife(l), OfLife(l))
  BY DEF Channel!First, OfLife, Below
<1>4. \A l \in Lives : OfLife(l)' = OfLife(l) \ now
  BY DEF OfLife
<1>5. ASSUME NEW h, now = {h}, commands' = Append(commands, h)
      PROVE  /\ <<h>> \in Channel!Blocks(now) /\ Channel!InOrder(<<h>>)
             /\ Append(commands, h) = commands \o <<h>>
  <2>1. MaxCommands \in Nat \ {0}
    <3>1. h \in 1 .. Len(from) /\ Len(from) \in Nat /\ h \in UnderWay
      BY <1>5, NumbersQueued
    <3>2. UnderWay \subseteq Commands
      BY SequenceTypes, Members DEF UnderWay
    <3> QED
      BY <3>1, <3>2, Bounds DEF Commands
  <2>2. <<h>> \in [1 .. 1 -> now] /\ 1 \in 1 .. MaxCommands
    BY <1>5, <2>1
  <2>3. \A f \in now : \E i \in DOMAIN <<h>> : <<h>>[i] = f
    BY <1>5
  <2>4. <<h>> \in Channel!Blocks(now)
    BY <2>2, <2>3 DEF Channel!Blocks
  <2>5. Channel!InOrder(<<h>>)
    BY DEF Channel!InOrder
  <2>6. Append(commands, h) = commands \o <<h>>
    <3>1. h \in Commands
      BY <1>5, SequenceTypes, Members DEF UnderWay
    <3> QED
      BY <3>1, SequenceTypes, AppendIsConcat
  <2> QED
    BY <2>4, <2>5, <2>6
<1>6. \A n \in UnderWay : [l \in Lives |-> "commands"][from[n]] = "commands"
  BY <1>1
<1> QED
  <2> DEFINE P == PendingOfLives
             C == ReadOfLives
  <2>1. now \in SUBSET UNION {P[s] : s \in Lives}
    BY <1>2 DEF PendingOfLives
  <2>2. \A s \in Lives : Channel!First(now \intersect P[s], P[s])
    BY <1>3 DEF PendingOfLives
  <2>3. P' = [s \in Lives |-> P[s] \ now]
    BY <1>4 DEF PendingOfLives
  <2>4. \/ C' = C
        \/ \E y \in {"commands"}, block \in Channel!Blocks(now) :
              /\ Channel!InOrder(block)
              /\ \A f \in now : [l \in Lives |-> "commands"][from[f]] = y
              /\ C' = [C EXCEPT ![y] = @ \o block]
    <3>1. CASE commands' = commands
      BY <3>1 DEF ReadOfLives
    <3>2. CASE \E h : now = {h} /\ commands' = Append(commands, h)
      <4>1. PICK h : now = {h} /\ commands' = Append(commands, h)
        BY <3>2
      <4>2. C' = [C EXCEPT !["commands"] = @ \o <<h>>]
        BY <1>5, <4>1 DEF ReadOfLives
      <4>3. \A f \in now : [l \in Lives |-> "commands"][from[f]] = "commands"
        BY <1>6
      <4> QED
        BY <1>5, <4>1, <4>2, <4>3
    <3> QED
      BY <3>1, <3>2
  <2> QED
    BY <2>1, <2>2, <2>3, <2>4 DEF Channel!Write

LEMMA ChannelStutters ==
  ASSUME UNCHANGED <<from, life, commands>>, UnderWay' = UnderWay
  PROVE  UNCHANGED Channel!vars
<1>1. \A l \in Lives : OfLife(l)' = OfLife(l)
  BY DEF OfLife
<1>2. PendingOfLives' = PendingOfLives /\ ReadOfLives' = ReadOfLives
  BY <1>1 DEF PendingOfLives, ReadOfLives
<1> QED
  BY <1>2 DEF Channel!vars

LEMMA ChannelReads ==
  ASSUME Typed, Connections, Ordered, OfThisLife, ReadCommand
  PROVE  Channel!Write
<1> USE SequenceTypes
<1>1. PICK c \in Links : c = fd[dSock]
  BY DEF ReadCommand, Typed, ReadTypes
<1>2. PICK h : h = Head(up[c])
  OBVIOUS
<1>3. /\ up[c] # << >> /\ up[c] \in Seq(Commands) /\ up'[c] = Tail(up[c])
      /\ commands' = Append(commands, h) /\ UNCHANGED <<hand, toServer, from, life>>
      /\ \A d \in Links : d # c => up'[d] = up[d]
  BY <1>1, <1>2 DEF ReadCommand, tVars
<1>4. /\ h \in Commands /\ h \in OnLink(c) /\ OnLink(c)' \subseteq OnLink(c)
      /\ OnLink(c) \subseteq OnLink(c)' \union {h}
      /\ \A d \in Links : d # c => OnLink(d)' = OnLink(d)
      /\ InHand' = InHand /\ InQueue' = InQueue
  BY <1>2, <1>3, TailFacts DEF OnLink, InHand, InQueue
<1>5. /\ UnderWay = (UNION {OnLink(d) : d \in Links}) \union InHand \union InQueue
      /\ UnderWay' = (UNION {OnLink(d)' : d \in Links}) \union InHand' \union InQueue'
  BY DEF UnderWay, OnLink, InHand, InQueue
<1>6. h \in UnderWay /\ UnderWay' \subseteq UnderWay /\ UnderWay \subseteq UnderWay' \union {h}
  <2>1. h \in UnderWay
    BY <1>4, <1>5
  <2>2. \A d \in Links : /\ OnLink(d)' \subseteq OnLink(d)
                         /\ OnLink(d) \subseteq OnLink(d)' \union {h}
    BY <1>4
  <2>3. UnderWay' \subseteq UnderWay
    BY <1>4, <1>5, <2>2
  <2>4. UnderWay \subseteq UnderWay' \union {h}
    BY <1>4, <1>5, <2>2
  <2> QED
    BY <2>1, <2>3, <2>4
<1>7. Below({h}, UnderWay')
  <2>1. h \in InServer'
    <3>1. commands \in Seq(Commands) /\ InServer' = ToSet(Append(commands, h))
      BY <1>3 DEF InServer
    <3> QED
      BY <1>4, <3>1, OneCommandMore
  <2>2. Ordered'
    BY ReadOrdered
  <2> QED
    BY <1>5, <2>1, <2>2 DEF Ordered, BelowRest, LinksApart, Below
<1>8. h \notin UnderWay'
  BY <1>4, <1>7 DEF Below
<1>9. PICK now : now = UnderWay \ UnderWay'
  OBVIOUS
<1>10. now = {h}
  BY <1>6, <1>8, <1>9
<1> QED
  BY <1>3, <1>6, <1>7, <1>9, <1>10, ChannelWrites

\* TransmitServer writes no more to the connection it holds, and lives on.
ConnectionEnds ==
    /\ tSock # None /\ ~DOpen(tSock) /\ hand' = << >>
    /\ UNCHANGED <<up, toServer, from, life, commands>>

\* What a broken connection loses: the first commands of those under way.
LEMMA ChannelLoses ==
  ASSUME Typed, Connections, Ordered, Reached, OfThisLife,
         ConnectionEnds \/ \E pc \in {"reset", "dead"} : DataServerEnds(pc)
  PROVE  Channel!Write
<1> USE SequenceTypes
<1>1. /\ UnderWay = (UNION {OnLink(d) : d \in Links}) \union InHand \union InQueue
      /\ UnderWay' = (UNION {OnLink(d)' : d \in Links}) \union InHand' \union InQueue'
  BY DEF UnderWay, OnLink, InHand, InQueue
<1>2. PICK now : now = UnderWay \ UnderWay'
  OBVIOUS
<1>3. CASE ConnectionEnds
  <2>1. /\ hand' = << >> /\ UNCHANGED <<up, toServer, from, life, commands>>
        /\ tSock # None /\ ~ DOpen(tSock)
    BY <1>3 DEF ConnectionEnds
  <2>2. tSock \notin ToSet(backlog) /\ ~ Reading(tSock)
    <3>1. dPc = "read" => dSock \in Fds
      BY DEF Typed, ReadTypes
    <3> QED
      BY <2>1, <3>1 DEF DOpen, Reading
  <2>3. \A c \in Links : OnLink(c) = {}
    <3>1. backlog = << >> /\ dPc # "read"
      BY <2>1, <2>2 DEF Reached
    <3> QED
      BY <3>1, EmptyFacts DEF Connections, Reading, OnLink
  <2>4. /\ InHand' = {} /\ InQueue' = InQueue
        /\ \A c \in Links : OnLink(c)' = OnLink(c)
    BY <2>1, EmptyFacts DEF InHand, InQueue, OnLink
  <2>5. UnderWay' = InQueue /\ UnderWay = InHand \union InQueue
    BY <1>1, <2>3, <2>4
  <2>6. Below(now, UnderWay')
    BY <1>2, <2>5 DEF Ordered, BelowRest, Below
  <2> QED
    BY <1>2, <2>1, <2>5, <2>6, ChannelWrites
<1>4. CASE \E pc \in {"reset", "dead"} : DataServerEnds(pc)
  <2>1. /\ \A c \in Links : up'[c] = << >>
        /\ UNCHANGED <<hand, toServer, from, life, commands>>
    BY <1>4 DEF DataServerEnds, tVars
  <2>2. /\ InHand' = InHand /\ InQueue' = InQueue
        /\ \A c \in Links : OnLink(c)' = {}
    BY <2>1, EmptyFacts DEF InHand, InQueue, OnLink
  <2>3. UnderWay' = InHand \union InQueue
    BY <1>1, <2>2
  <2>4. Below(now, UnderWay')
    <3>1. now \subseteq UNION {OnLink(d) : d \in Links}
      BY <1>1, <1>2, <2>3
    <3> QED
      BY <2>3, <3>1 DEF Ordered, LinksApart, Below
  <2>5. UnderWay' \subseteq UnderWay
    BY <1>1, <2>3
  <2> QED
    BY <1>2, <2>1, <2>4, <2>5, ChannelWrites
<1> QED
  BY <1>3, <1>4

LEMMA ChannelReceives ==
  ASSUME Typed, Ordered, OfThisLife, Command
  PROVE  \E l \in Lives : Channel!Receive(l)
<1> USE SequenceTypes
<1>1. PICK l : l = life
  OBVIOUS
<1>2. PICK n : n = Len(from) + 1
  OBVIOUS
<1>3. /\ Len(from) < MaxCommands /\ from' = Append(from, l) /\ Len(from') = n
      /\ toServer' = Append(toServer, n) /\ UNCHANGED <<up, hand, commands, life>>
      /\ n \in Commands /\ n \in Nat
  BY <1>1, <1>2, Bounds DEF Command, Commands, linkVars, dVars
<1>4. l \in Lives /\ l \notin 0 .. life - 1 /\ l \in Nat
  BY <1>1, Bounds DEF Typed, CountTypes, Lives
<1>5. UnderWay' = UnderWay \union {n}
  <2>1. ToSet(toServer') = ToSet(toServer) \union {n}
    BY <1>3, AppendFacts
  <2>2. PICK rest : rest = (UNION {ToSet(up[c]) : c \in Links}) \union ToSet(hand)
    OBVIOUS
  <2>3. UnderWay = rest \union ToSet(toServer) /\ UnderWay' = rest \union ToSet(toServer')
    BY ONLY <1>3, <2>2 DEF UnderWay
  <2> QED
    BY ONLY <2>1, <2>3
<1>6. /\ from'[n] = l /\ \A m \in UnderWay : from'[m] = from[m]
  BY <1>2, <1>3, NumbersQueued
<1>7. \A k \in Lives : OfLife(k)' = IF k = l THEN OfLife(k) \union {n} ELSE OfLife(k)
  BY <1>5, <1>6 DEF OfLife
<1>8. PendingOfLives' = [PendingOfLives EXCEPT ![l] = @ \union {n}]
  BY <1>4, <1>7 DEF PendingOfLives
<1>9. ReadOfLives' = ReadOfLives
  BY <1>3 DEF ReadOfLives
<1> QED
  BY <1>3, <1>4, <1>8, <1>9 DEF Channel!Receive

LEMMA ChannelEnds ==
  ASSUME Typed, Ordered, OfThisLife, tUp, NEW startsAgain, TransmitServerEnds(startsAgain)
  PROVE  \E l \in Lives : Channel!End(l)
<1> USE SequenceTypes
<1>1. PICK l : l = life
  OBVIOUS
<1>2. /\ hand' = << >> /\ toServer' = << >> /\ life' = l + 1
      /\ UNCHANGED <<up, from, commands>>
  BY <1>1 DEF TransmitServerEnds, dVars
<1>3. l \in Lives /\ l \in Nat /\ 0 .. life' - 1 = (0 .. life - 1) \union {l}
  BY <1>1, <1>2, Bounds DEF Typed, CountTypes, Lives
<1>4. PICK U : U = UNION {OnLink(c) : c \in Links}
  OBVIOUS
<1>5. UnderWay' = U /\ UnderWay = U \union InHand \union InQueue
  BY <1>2, <1>4, EmptyFacts DEF UnderWay, OnLink, InHand, InQueue
<1>6. Below(U, InHand \union InQueue)
  BY <1>4 DEF Ordered, LinksApart, Below
<1>7. \A k \in Lives : OfLife(k)' = {n \in U : from[n] = k}
  BY <1>2, <1>5 DEF OfLife
<1>8. \A k \in Lives : k # l => OfLife(k)' = OfLife(k)
  BY <1>1, <1>5, <1>7 DEF OfLife, OfThisLife
<1>9. PICK rest : rest = {n \in U : from[n] = l}
  OBVIOUS
<1>10. rest \in SUBSET OfLife(l) /\ Channel!First(rest, OfLife(l))
  BY <1>5, <1>6, <1>9 DEF OfLife, Channel!First, Below
<1>11. PendingOfLives' = [PendingOfLives EXCEPT ![l] = rest]
  BY <1>3, <1>7, <1>8, <1>9 DEF PendingOfLives
<1>12. ReadOfLives' = ReadOfLives /\ PendingOfLives[l] = OfLife(l)
  BY <1>2, <1>3 DEF ReadOfLives, PendingOfLives
<1> QED
  BY <1>2, <1>3, <1>10, <1>11, <1>12 DEF Channel!End

LEMMA ChannelSteps ==
  ASSUME Typed, Connections, Ordered, Reached, OfThisLife, [Next]_vars
  PROVE  [Channel!Next]_(Channel!vars)
<1> USE SequenceTypes
<1>1. CASE UNCHANGED <<up, hand, toServer, from, life, commands>>
  BY <1>1, ChannelStutters DEF UnderWay
<1>2. CASE ReadCommand
  BY <1>2, ChannelReads DEF Channel!Next
<1>3. ASSUME NEW pc \in {"reset", "dead"}, DataServerEnds(pc) PROVE Channel!Write
  BY <1>3, ChannelLoses
<1>4. CASE Command
  BY <1>4, ChannelReceives DEF Channel!Next
<1>5. ASSUME NEW startsAgain, TransmitServerEnds(startsAgain)
      PROVE  [Channel!Next]_(Channel!vars)
  <2>1. CASE tUp
    BY <1>5, <2>1, ChannelEnds DEF Channel!Next
  <2>2. CASE ~tUp
    BY <1>1, <1>5, <2>2 DEF TransmitServerEnds, Typed, SockTypes, dVars
  <2> QED
    BY <2>1, <2>2
<1>8. CASE WriteFails
  <2>1. CASE ConnectionEnds
    BY <2>1, ChannelLoses DEF Channel!Next
  <2> QED
    BY <1>5, <1>8, <2>1 DEF WriteFails, ConnectionEnds, linkVars, dVars
<1>9. ASSUME NEW c \in Links, WriterDies(c) PROVE [Channel!Next]_(Channel!vars)
  BY <1>3, <1>9 DEF WriterDies, Channel!Next
<1>10. CASE DRestart \/ TRestart
  BY <1>3, <1>5, <1>10 DEF DRestart, TRestart, Channel!Next
<1>6. CASE Take
  <2>1. UnderWay' = UnderWay
    BY <1>6, EmptyFacts DEF Take, linkVars, UnderWay
  <2> QED
    BY <1>6, <2>1, ChannelStutters DEF Take, linkVars, dVars
<1>7. CASE Write
  <2>1. PICK t \in Links : t = tSock
    BY <1>7 DEF Write, Typed, SockTypes
  <2>2. PICK h : h = Head(hand)
    OBVIOUS
  <2>3. /\ hand # << >> /\ hand' = Tail(hand) /\ up'[t] = Append(up[t], h)
        /\ \A d \in Links : d # t => up'[d] = up[d]
        /\ UNCHANGED <<toServer, from, life, commands>>
    BY <1>7, <2>1, <2>2 DEF Write, dVars
  <2>4. /\ h \in Commands /\ h \in ToSet(hand) /\ ToSet(Tail(hand)) \subseteq ToSet(hand)
        /\ ToSet(hand) \subseteq ToSet(Tail(hand)) \union {h}
    BY <2>2, <2>3, TailFacts
  <2>5. ToSet(up'[t]) = ToSet(up[t]) \union {h}
    <3>1. up[t] \in Seq(Commands)
      OBVIOUS
    <3> QED
      BY <2>3, <2>4, <3>1, OneCommandMore
  <2>6. \A d \in Links : d # t => ToSet(up'[d]) = ToSet(up[d])
    BY <2>3
  <2>7. UnderWay' = UnderWay
    BY <2>3, <2>4, <2>5, <2>6, ZenonT(40) DEF UnderWay
  <2> QED
    BY <2>3, <2>7, ChannelStutters
<1> QED
  BY <1>1, <1>2, <1>4, <1>6, <1>7, <1>8, <1>9, <1>10
     DEF Next, HandleClientConnection, Reset, Accept, EndOfFile, ReadError, HandleConnectToServer, Connect, WriteToClientT,
     WriterTakes, WriterWrites, HandleReceiveFromServer, ReadNotice, ReaderEnds, Notify,
     vars, linkVars, dVars, tVars

LEMMA InitChannel == Init => Reached /\ OfThisLife /\ Channel!Init
<1> SUFFICES ASSUME Init PROVE Reached /\ OfThisLife /\ Channel!Init
  OBVIOUS
<1>1. Reached
  BY DEF Init, Reached
<1>2. OfThisLife
  BY EmptyFacts DEF Init, OfThisLife, InHand, InQueue
<1>3. UnderWay = {} /\ commands = << >> /\ from = << >> /\ 0 .. life - 1 = {}
  BY EmptyFacts DEF Init, UnderWay
<1>4. PendingOfLives = [l \in Lives |-> {}] /\ ReadOfLives = [y \in {"commands"} |-> << >>]
  BY <1>3 DEF PendingOfLives, OfLife, ReadOfLives
<1> QED
  BY <1>1, <1>2, <1>3, <1>4 DEF Channel!Init

\* The link implements the channel: whatever is lost with a connection or a process,
\* each life of TransmitServer has its commands read in the order it queued them, none
\* twice, and none any more once a later one was read.
THEOREM LinkIsChannel == Spec => IsChannel
<1> QED
  BY InitTyped, NextTyped, InitConnections, NextConnections, InitOrdered, NextOrdered,
     InitChannel, NextReached, NextOfThisLife, ChannelSteps,
     PTL DEF Spec, IsChannel, Channel!Spec
=============================================================================
