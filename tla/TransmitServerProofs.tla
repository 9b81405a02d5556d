------------------------ MODULE TransmitServerProofs ------------------------
(***************************************************************************)
(* What holds of TransmitServer and of the one in pack/ for every set of   *)
(* clients and of gprs, and for every interleaving of the io thread, the   *)
(* reader and the heartbeat thread.                                        *)
(***************************************************************************)
EXTENDS PackTransmitServer, FiniteSetTheorems, TLAPS

\* A step of either program.
Step == Next \/ PackNext

\* What every step keeps of the types.
Words == {"add", "tell", "command", "stop", "remove", "dead"}

Typed ==
    /\ saved \in [Addresses -> Sessions \union {NoSession, Null}]
    /\ entry \in [Gprs -> [in : BOOLEAN, clients : SUBSET Sessions,
                           f90 : BOOLEAN, f91 : BOOLEAN]]
    /\ todo \in Seq(Words)
    /\ todo # << >> /\ Head(todo) # "dead" => ioC \in Sessions
    /\ rdG \in Gprs /\ ioG \in Gprs

LEMMA AtOne == \A x, y : At(x) /\ At(y) => x = y
  BY DEF At

LEMMA AtSession ==
  ASSUME Typed, NEW x \in Words \ {"dead"}, At(x)
  PROVE  /\ ioC \in Sessions /\ Tail(todo) \in Seq(Words)
         /\ [todo EXCEPT ![1] = "tell"] \in Seq(Words)
         /\ [todo EXCEPT ![1] = "tell"] # << >>
         /\ Head([todo EXCEPT ![1] = "tell"]) = "tell"
<1>1. todo \in Seq(Words) /\ todo # << >> /\ Head(todo) = x /\ "tell" \in Words
  BY DEF Typed, At, Words
<1>2. ioC \in Sessions
  BY <1>1 DEF Typed
<1>3. Tail(todo) \in Seq(Words)
  BY ONLY <1>1
<1>4. /\ [todo EXCEPT ![1] = "tell"] \in Seq(Words)
      /\ Len([todo EXCEPT ![1] = "tell"]) = Len(todo)
      /\ Len(todo) \in Nat /\ Len(todo) > 0
      /\ [todo EXCEPT ![1] = "tell"][1] = "tell"
  BY ONLY <1>1
<1>5. [todo EXCEPT ![1] = "tell"] # << >>
  BY <1>4
<1>6. Head([todo EXCEPT ![1] = "tell"]) = "tell"
  BY <1>4, <1>5
<1> QED
  BY <1>2, <1>3, <1>4, <1>5, <1>6

LEMMA Handlers ==
  /\ << >> \in Seq(Words)
  /\ <<"command">> \in Seq(Words) /\ <<"add", "command">> \in Seq(Words)
  /\ <<"add">> \in Seq(Words) /\ <<"stop">> \in Seq(Words)
  /\ <<"remove">> \in Seq(Words)
  /\ <<"dead">> \in Seq(Words) /\ <<"dead">> # << >> /\ Head(<<"dead">>) = "dead"
  BY DEF Words

-----------------------------------------------------------------------------
(* Types.                                                                  *)

LEMMA InitTyped == Init => Typed
  BY Handlers DEF Init, Typed, NoEntry

\* The parts of Typed.
EntryTypes == entry \in [Gprs -> [in : BOOLEAN, clients : SUBSET Sessions,
                                  f90 : BOOLEAN, f91 : BOOLEAN]]
SavedTypes == saved \in [Addresses -> Sessions \union {NoSession, Null}]
IoTypes ==
    /\ todo \in Seq(Words)
    /\ todo # << >> /\ Head(todo) # "dead" => ioC \in Sessions
    /\ ioG \in Gprs

LEMMA EntryChanges ==
  ASSUME EntryTypes, NEW g \in Gprs
  PROVE  /\ Join(g) /\ ioC \in Sessions => EntryTypes'
         /\ Erase(g) => EntryTypes'
         /\ \A S \in SUBSET Sessions :
               /\ entry' = [entry EXCEPT ![g].clients = S] => EntryTypes'
               /\ entry' = [entry EXCEPT ![g].clients = S, ![g].f90 = TRUE]
                     => EntryTypes'
         /\ entry' = [entry EXCEPT ![g].in = TRUE, ![g].f91 = TRUE]
               => EntryTypes'
<1> USE DEF EntryTypes
<1> DEFINE Entries == [Gprs -> [in : BOOLEAN, clients : SUBSET Sessions,
                                f90 : BOOLEAN, f91 : BOOLEAN]]
           made == [entry EXCEPT ![g].in = TRUE]
<1>a. made \in Entries
  OBVIOUS
<1>b. ASSUME NEW e \in Entries, NEW S \in SUBSET Sessions
      PROVE  [e EXCEPT ![g].clients = S] \in Entries /\ [e EXCEPT ![g].f91 = TRUE] \in Entries
             /\ e[g].clients \in SUBSET Sessions
  BY <1>b
<1>1. ASSUME Join(g), ioC \in Sessions PROVE EntryTypes'
  <2>1. entry' = [made EXCEPT ![g].clients = made[g].clients \union {ioC}]
    BY <1>1 DEF Join
  <2> HIDE DEF made
  <2>2. made[g].clients \union {ioC} \in SUBSET Sessions
    BY <1>1, <1>a, <1>b
  <2> QED
    BY <1>a, <1>b, <2>1, <2>2
<1>2. Erase(g) => EntryTypes'
  BY DEF Erase, NoEntry
<1>3. ASSUME NEW S \in SUBSET Sessions, entry' = [entry EXCEPT ![g].clients = S]
      PROVE  EntryTypes'
  BY <1>3
<1>4. ASSUME NEW S \in SUBSET Sessions,
             entry' = [entry EXCEPT ![g].clients = S, ![g].f90 = TRUE]
      PROVE  EntryTypes'
  BY <1>4
<1>5. ASSUME entry' = [entry EXCEPT ![g].in = TRUE, ![g].f91 = TRUE] PROVE EntryTypes'
  <2>1. entry' = [made EXCEPT ![g].f91 = TRUE]
    BY <1>5
  <2> HIDE DEF made
  <2> QED
    BY <1>a, <1>b, <2>1
<1> QED
  BY <1>1, <1>2, <1>3, <1>4, <1>5

LEMMA DieTyped == Typed /\ Die => Typed'
  BY Handlers DEF Typed, Die, NoEntry

LEMMA ThenTyped ==
  ASSUME Typed, NEW x \in Words \ {"dead"}, At(x), NEW rest \in Seq(Words), Then(rest),
         ioG' \in Gprs
  PROVE  IoTypes'
  BY AtSession DEF IoTypes, Then

LEMMA SessionTyped ==
  ASSUME Typed, NEW c \in Sessions, PackSession(c)
  PROVE  Typed'
<1> USE Handlers DEF Typed, maps, io, reader
<1>1. UNCHANGED <<maps, ioG, reader>>
  BY DEF PackSession, Accept, ReadFrame, ReadError, Written, WriteError, Close
<1>2. UNCHANGED io \/ (ioC' = c /\ todo' \in Seq(Words)) \/ todo' = << >>
  BY DEF PackSession, Accept, ReadFrame, ReadError, Written, WriteError, Close
<1> QED
  BY <1>1, <1>2

LEMMA HandleTyped ==
  ASSUME Typed, PackHandle \/ PackAdd \/ PackRemove \/ QueueStop
  PROVE  Typed'
<1> USE NoSessionAssumption DEF Typed
<1>1. ASSUME IoTypes', EntryTypes', SavedTypes', UNCHANGED rdG PROVE Typed'
  BY <1>1 DEF IoTypes, EntryTypes, SavedTypes
<1>2. UNCHANGED entry => EntryTypes'
  BY DEF EntryTypes
<1>3. UNCHANGED saved => SavedTypes'
  BY DEF SavedTypes
<1>4. CASE PackHandle
  <2>1. /\ At("command") /\ UNCHANGED <<entry, saved, rdG, ioG>>
        /\ Then(<<"add">>) \/ Then(<< >>)
    BY <1>4 DEF PackHandle, Handle90, HandleF3, HandleOther, maps, reader
  <2>2. IoTypes'
    BY <2>1, Handlers, ThenTyped DEF Words
  <2> QED
    BY <1>1, <1>2, <1>3, <2>1, <2>2
<1>5. CASE TellClient
  <2>1. At("tell") /\ UNCHANGED <<entry, saved, rdG, ioG>> /\ Then(Tail(todo))
    BY <1>5 DEF TellClient, maps, reader
  <2>2. IoTypes'
    BY <2>1, AtSession, ThenTyped DEF Words
  <2> QED
    BY <1>1, <1>2, <1>3, <2>1, <2>2
<1>6. CASE AddClient
  <2>1. /\ At("add") /\ UNCHANGED <<entry, rdG, ioG>>
        /\ \/ UNCHANGED saved
           \/ saved' = [saved EXCEPT ![srcAddress[ioC]] = ioC]
        /\ Then(Tail(todo)) \/ Then([todo EXCEPT ![1] = "tell"])
    BY <1>6 DEF AddClient, reader
  <2>2. IoTypes'
    BY <2>1, AtSession, ThenTyped DEF Words
  <2>3. SavedTypes'
    BY <2>1, AtSession DEF SavedTypes, Words
  <2> QED
    BY <1>1, <1>2, <2>1, <2>2, <2>3
<1>7. CASE RemoveClient
  <2>1. /\ At("remove") /\ UNCHANGED <<entry, rdG, ioG>> /\ Then(<< >>)
        /\ saved' = [saved EXCEPT ![srcAddress[ioC]] = NoSession]
    BY <1>7 DEF RemoveClient, reader
  <2>2. IoTypes'
    BY <2>1, Handlers, ThenTyped DEF Words
  <2>3. SavedTypes'
    BY <2>1 DEF SavedTypes
  <2> QED
    BY <1>1, <1>2, <2>1, <2>2, <2>3
<1>8. CASE QueueStop
  <2>1. At("stop") /\ UNCHANGED <<entry, saved, rdG, ioG>> /\ Then(<< >>)
    BY <1>8 DEF QueueStop, maps, reader
  <2>2. IoTypes'
    BY <2>1, Handlers, ThenTyped DEF Words
  <2> QED
    BY <1>1, <1>2, <1>3, <2>1, <2>2
<1> QED
  BY <1>4, <1>5, <1>6, <1>7, <1>8 DEF PackAdd, PackRemove

LEMMA MonitorTyped ==
  ASSUME Typed, NEW g \in Gprs, PackStart(g) \/ PackStop(g)
  PROVE  Typed'
<1>1. /\ At("command") /\ UNCHANGED <<saved, rdG>> /\ ioG' \in {ioG, g}
      /\ Then(<< >>) \/ Then(<<"stop">>)
  BY DEF PackStart, PackStop, StartMonitoring, JoinMonitoring, StopForced, StopOnly,
         StopOther, reader
<1>2. ioC \in Sessions
  BY <1>1, AtSession DEF Words
<1>3. IoTypes'
  BY <1>1, Handlers, ThenTyped DEF Words, Typed
<1>4. Join(g) \/ Erase(g) \/ UNCHANGED entry
  BY DEF PackStart, PackStop, StartMonitoring, JoinMonitoring, StopForced, StopOnly,
         StopOther
<1>5. EntryTypes
  BY DEF Typed, EntryTypes
<1>6. EntryTypes'
  BY <1>2, <1>4, <1>5, EntryChanges DEF EntryTypes
<1> QED
  BY <1>1, <1>3, <1>6 DEF Typed, EntryTypes, IoTypes

LEMMA ReaderTyped ==
  ASSUME Typed, NEW g \in Gprs, PackReject(g) \/ PackReceive(g) \/ ReceiveData(g)
                                \/ PackReceiveData(g)
  PROVE  Typed'
<1>1. UNCHANGED <<saved, todo, ioC, ioG>> /\ rdG' \in {rdG, g}
  BY DEF PackReject, PackReceive, Reject, Receive90, Receive91, Receive88, ReceiveEE07,
         ReceiveEE08, ReceiveData, PackReceiveData, io, maps, reader
<1>2. EntryTypes
  BY DEF Typed, EntryTypes
<1>3. \A S : entry[g].clients \ S \in SUBSET Sessions
  BY DEF Typed
<1>4. EntryTypes'
  <2>1. CASE PackReject(g) \/ ReceiveEE07(g)
    BY <2>1, <1>2 DEF PackReject, Reject, ReceiveEE07, maps, EntryTypes
  <2>2. CASE Receive91(g) \/ Receive88(g) \/ ReceiveEE08(g)
    BY <2>2, <1>2, EntryChanges DEF Receive91, Receive88, ReceiveEE08
  <2>3. CASE Receive90(g)
    <3>1. PICK o \in Outcomes(g) : entry' = [entry EXCEPT ![g].clients = @ \ o.erased,
                                    ![g].f90 = TRUE]
      BY <2>3 DEF Receive90
    <3>2. entry' = [entry EXCEPT ![g].clients = entry[g].clients \ o.erased,
                                 ![g].f90 = TRUE]
      BY <3>1
    <3> QED
      BY <3>2, <1>2, <1>3, EntryChanges
  <2>4. CASE ReceiveData(g) \/ PackReceiveData(g)
    <3>1. Erase(g) \/ \E S : entry' = [entry EXCEPT ![g].clients = entry[g].clients \ S]
      BY <2>4 DEF ReceiveData, PackReceiveData, Typed
    <3> QED
      BY <3>1, <1>2, <1>3, EntryChanges
  <2> QED
    BY <2>1, <2>2, <2>3, <2>4 DEF PackReceive
<1> QED
  BY <1>1, <1>4 DEF Typed, EntryTypes

LEMMA OthersTyped ==
  ASSUME Typed, QueueReject \/ PackBroadcastAll \/ PackHeartBeat
  PROVE  Typed'
<1>1. CASE Die
  BY <1>1, DieTyped
<1>2. CASE QueueReject \/ BroadcastAll
  BY <1>2 DEF QueueReject, BroadcastAll, Typed, io, maps
<1>3. CASE HeartBeat
  BY <1>3 DEF HeartBeat, Typed, io, reader
<1> QED
  BY <1>1, <1>2, <1>3 DEF PackBroadcastAll, PackHeartBeat, BroadcastNull, HeartBeatNull

\* Every action of both programs, by lemma.
LEMMA StepCases ==
  Step => \/ \E c \in Sessions : PackSession(c)
          \/ PackHandle \/ PackAdd \/ PackRemove \/ QueueStop
          \/ \E g \in Gprs : \/ PackStart(g) \/ PackStop(g)
          \/ \E g \in Gprs : \/ PackReject(g) \/ PackReceive(g) \/ ReceiveData(g)
                             \/ PackReceiveData(g)
          \/ QueueReject \/ PackBroadcastAll \/ PackHeartBeat
  BY DEF Step, Next, Io, Reader, PackNext, PackSession, PackHandle, PackAdd, PackRemove,
         PackStart, PackStop, PackReject, PackReceive, PackBroadcastAll, PackHeartBeat

LEMMA NextTyped == Typed /\ [Step]_vars => Typed'
<1> SUFFICES ASSUME Typed, [Step]_vars PROVE Typed'
  OBVIOUS
<1>1. CASE UNCHANGED vars
  BY <1>1 DEF vars, maps, io, reader, Typed
<1> QED
  BY <1>1, StepCases, SessionTyped, HandleTyped, MonitorTyped, ReaderTyped, OthersTyped

-----------------------------------------------------------------------------
(* Changes of m_gprsMap.                                                   *)

LEMMA EntryFacts ==
  ASSUME EntryTypes, NEW g \in Gprs
  PROVE  /\ \A h \in Gprs : entry[h].clients \subseteq Sessions
         /\ Erase(g) => \A h \in Gprs : entry'[h] = IF h = g THEN NoEntry ELSE entry[h]
         /\ Join(g) => \A h \in Gprs :
               /\ entry'[h].f91 = entry[h].f91 /\ entry'[h].f90 = entry[h].f90
               /\ entry'[h].clients = IF h = g THEN entry[h].clients \union {ioC}
                                      ELSE entry[h].clients
         /\ \A S : entry' = [entry EXCEPT ![g].clients = S] => \A h \in Gprs :
               /\ entry'[h].f91 = entry[h].f91 /\ entry'[h].f90 = entry[h].f90
               /\ entry'[h].clients = IF h = g THEN S ELSE entry[h].clients
<1> USE DEF EntryTypes
<1>1. \A h \in Gprs : entry[h].clients \subseteq Sessions
  OBVIOUS
<1>2. Erase(g) => \A h \in Gprs : entry'[h] = IF h = g THEN NoEntry ELSE entry[h]
  BY DEF Erase
<1>3. ASSUME Join(g), NEW h \in Gprs
      PROVE  /\ entry'[h].f91 = entry[h].f91 /\ entry'[h].f90 = entry[h].f90
             /\ entry'[h].clients = IF h = g THEN entry[h].clients \union {ioC}
                                    ELSE entry[h].clients
  BY <1>3 DEF Join
<1>4. ASSUME NEW S, entry' = [entry EXCEPT ![g].clients = S], NEW h \in Gprs
      PROVE  /\ entry'[h].f91 = entry[h].f91 /\ entry'[h].f90 = entry[h].f90
             /\ entry'[h].clients = IF h = g THEN S ELSE entry[h].clients
  BY <1>4
<1> QED
  BY <1>1, <1>2, <1>3, <1>4

LEMMA Received90 ==
  ASSUME EntryTypes, NEW g \in Gprs, NEW S,
         entry' = [entry EXCEPT ![g].clients = @ \ S, ![g].f90 = TRUE], NEW h \in Gprs
  PROVE  /\ entry'[h].f91 = entry[h].f91
         /\ entry'[h].f90 = (h = g \/ entry[h].f90)
         /\ entry'[h].clients = IF h = g THEN entry[h].clients \ S ELSE entry[h].clients
  BY DEF EntryTypes

LEMMA Received91 ==
  ASSUME EntryTypes, NEW g \in Gprs,
         entry' = [entry EXCEPT ![g].in = TRUE, ![g].f91 = TRUE], NEW h \in Gprs
  PROVE  /\ entry'[h].f90 = entry[h].f90 /\ entry'[h].clients = entry[h].clients
         /\ h # g => entry'[h].f91 = entry[h].f91
  BY DEF EntryTypes

-----------------------------------------------------------------------------
(* The 91 frames.                                                          *)

\* What ClientsUpToDate excepts: the client is just being told, or the frame is
\* on its way to every client.
Hidden(c, g) == (ioC = c /\ At("tell")) \/ (rdPc = "all91" /\ rdG = g)

\* A step after which no more is to be told.
LEMMA KeepsTold ==
  ASSUME ClientsUpToDate, Live' \subseteq Live,
         \A g \in Gprs : entry'[g].f91 => entry[g].f91,
         told \subseteq told',
         \A c \in Live, g \in Gprs : Hidden(c, g) => Hidden(c, g)'
  PROVE  ClientsUpToDate'
  BY DEF ClientsUpToDate, Hidden

LEMMA LiveSaved ==
  /\ (\A a \in Addresses : saved'[a] \in {saved[a], NoSession, Null}) => Live' \subseteq Live
  /\ UNCHANGED saved => Live' = Live
  BY DEF Live

LEMMA StepUpToDate == Typed /\ ClientsUpToDate /\ [Step]_vars => ClientsUpToDate'
<1> SUFFICES ASSUME Typed, ClientsUpToDate, [Step]_vars PROVE ClientsUpToDate'
  OBVIOUS
<1>0. EntryTypes
  BY DEF Typed, EntryTypes
<1>1. CASE UNCHANGED vars
  BY <1>1 DEF vars, maps, io, reader, history, ClientsUpToDate, Live, At
<1>2. ASSUME NEW c \in Sessions, PackSession(c) PROVE ClientsUpToDate'
  <2>1. UNCHANGED <<saved, entry, reader, told>>
    BY <1>2 DEF PackSession, Accept, ReadFrame, ReadError, Written, WriteError, Close,
                maps, history
  <2>2. At("tell") => FALSE
    BY <1>2 DEF PackSession, Accept, ReadFrame, ReadError, Written, WriteError, Idle, At
  <2> QED
    BY <2>1, <2>2, LiveSaved, KeepsTold DEF Hidden, reader
<1>3. CASE PackHandle \/ RemoveClient \/ QueueStop
  <2>1. /\ UNCHANGED <<entry, reader, told>>
        /\ At("command") \/ At("remove") \/ At("stop")
    BY <1>3 DEF PackHandle, Handle90, HandleF3, HandleOther, RemoveClient, QueueStop,
                maps, history
  <2>2. \A a \in Addresses : saved'[a] \in {saved[a], NoSession, Null}
    BY <1>3 DEF PackHandle, Handle90, HandleF3, HandleOther, RemoveClient, QueueStop, maps,
                Typed
  <2>3. ~ At("tell")
    BY <2>1, AtOne
  <2> QED
    BY <2>1, <2>2, <2>3, LiveSaved, KeepsTold DEF Hidden, reader
<1>4. CASE TellClient
  <2>1. /\ told' = told \union ({ioC} \X With91) /\ UNCHANGED <<saved, entry, reader>>
    BY <1>4 DEF TellClient, maps
  <2>2. ASSUME NEW c \in Live', NEW g \in Gprs, entry'[g].f91, ~ (rdPc' = "all91" /\ rdG' = g)
        PROVE  <<c, g>> \in told'
    <3>1. c \in Live /\ entry[g].f91 /\ ~ (rdPc = "all91" /\ rdG = g)
      BY <2>1, <2>2, LiveSaved DEF reader
    <3>2. CASE c = ioC
      BY <2>1, <3>1, <3>2 DEF With91
    <3>3. CASE c # ioC
      BY <2>1, <3>1, <3>3 DEF ClientsUpToDate
    <3> QED
      BY <3>2, <3>3
  <2> QED
    BY <2>2 DEF ClientsUpToDate
<1>5. CASE AddClient
  <2>1. At("add") /\ ~ At("tell") /\ UNCHANGED <<entry, reader, told>>
    BY <1>5, AtOne DEF AddClient, history
  <2>2. CASE UNCHANGED saved
    BY <2>1, <2>2, LiveSaved, KeepsTold DEF Hidden, reader
  <2>3. CASE /\ saved' = [saved EXCEPT ![srcAddress[ioC]] = ioC]
             /\ Then([todo EXCEPT ![1] = "tell"])
    <3>1. Live' \subseteq Live \union {ioC}
      BY <2>3 DEF Live, Typed
    <3>2. ioC' = ioC /\ At("tell")'
      BY <2>1, <2>3, AtSession DEF Then, At, Words
    <3> QED
      BY <2>1, <3>1, <3>2 DEF ClientsUpToDate, reader
  <2> QED
    BY <1>5, <2>2, <2>3 DEF AddClient
<1>6. ASSUME NEW g \in Gprs, PackStart(g) \/ PackStop(g) PROVE ClientsUpToDate'
  <2>1. /\ At("command") /\ ~ At("tell") /\ UNCHANGED <<saved, reader>> /\ told \subseteq told'
        /\ Join(g) \/ Erase(g) \/ UNCHANGED entry
    BY <1>6, AtOne DEF PackStart, PackStop, StartMonitoring, JoinMonitoring, StopForced,
                       StopOnly, StopOther
  <2>2. \A h \in Gprs : entry'[h].f91 => entry[h].f91
    <3>1. CASE Join(g)
      BY <1>0, <3>1, EntryFacts
    <3>2. CASE Erase(g)
      BY <1>0, <3>2, EntryFacts DEF NoEntry
    <3> QED
      BY <2>1, <3>1, <3>2
  <2> QED
    BY <2>1, <2>2, LiveSaved, KeepsTold DEF Hidden, reader
<1>7. ASSUME NEW g \in Gprs,
             PackReject(g) \/ PackReceive(g) \/ ReceiveData(g) \/ PackReceiveData(g)
      PROVE  ClientsUpToDate'
  <2>1. rdPc = "idle" /\ UNCHANGED <<saved, todo, ioC>>
    BY <1>7 DEF PackReject, PackReceive, Reject, Receive90, Receive91, Receive88,
                ReceiveEE07, ReceiveEE08, ReceiveData, PackReceiveData, maps, io
  <2>2. CASE Receive91(g)
    <3>1. /\ entry' = [entry EXCEPT ![g].in = TRUE, ![g].f91 = TRUE]
          /\ rdPc' = "all91" /\ rdG' = g /\ told' = {p \in told : p[2] # g}
      BY <2>2 DEF Receive91
    <3>2. ASSUME NEW c \in Live', NEW h \in Gprs, entry'[h].f91, ~ (ioC' = c /\ At("tell")'),
                 h # g
          PROVE  <<c, h>> \in told'
      <4>1. c \in Live /\ entry[h].f91 /\ ~ (ioC = c /\ At("tell"))
        BY <1>0, <2>1, <3>1, <3>2, LiveSaved, Received91 DEF At
      <4> QED
        BY <2>1, <3>1, <3>2, <4>1 DEF ClientsUpToDate
    <3> QED
      BY <3>1, <3>2 DEF ClientsUpToDate
  <2>3. CASE ~ Receive91(g)
    <3>1. UNCHANGED told /\ \A h \in Gprs : entry'[h].f91 => entry[h].f91
      <4>1. CASE PackReject(g) \/ ReceiveEE07(g)
        BY <4>1 DEF PackReject, Reject, ReceiveEE07, maps, history
      <4>2. CASE Receive88(g) \/ ReceiveEE08(g)
        BY <1>0, <4>2, EntryFacts DEF Receive88, ReceiveEE08, NoEntry
      <4>3. CASE Receive90(g)
        <5>1. PICK o \in Outcomes(g) :
                 entry' = [entry EXCEPT ![g].clients = @ \ o.erased, ![g].f90 = TRUE]
          BY <4>3 DEF Receive90
        <5> QED
          BY <1>0, <4>3, <5>1, Received90 DEF Receive90
      <4>4. CASE ReceiveData(g) \/ PackReceiveData(g)
        <5>1. Erase(g) \/ \E S : entry' = [entry EXCEPT ![g].clients = entry[g].clients \ S]
          BY <4>4 DEF ReceiveData, PackReceiveData, Typed
        <5>2. UNCHANGED told
          BY <4>4 DEF ReceiveData, PackReceiveData
        <5> QED
          BY <1>0, <5>1, <5>2, EntryFacts DEF NoEntry
      <4> QED
        BY <1>7, <2>3, <4>1, <4>2, <4>3, <4>4 DEF PackReceive
    <3> QED
      BY <2>1, <3>1, LiveSaved, KeepsTold DEF Hidden, At
  <2> QED
    BY <2>2, <2>3
<1>8. CASE Die
  <2>1. \A a \in Addresses : saved'[a] = NoSession
    BY <1>8 DEF Die
  <2>2. Live' = {}
    BY <2>1 DEF Live
  <2> QED
    BY <2>2 DEF ClientsUpToDate
<1>9. CASE QueueReject
  BY <1>9, LiveSaved, KeepsTold DEF QueueReject, Hidden, At, maps, io
<1>10. CASE BroadcastAll
  <2>1. /\ UNCHANGED <<saved, entry, todo, ioC, rdG>> /\ rdPc \in {"all", "all91"} /\ rdPc' = "idle"
        /\ told' = IF rdPc = "all91" THEN told \union (Live \X {rdG}) ELSE told
    BY <1>10 DEF BroadcastAll, maps, io
  <2>2. ASSUME NEW c \in Live', NEW g \in Gprs, entry'[g].f91, ~ (ioC' = c /\ At("tell")')
        PROVE  <<c, g>> \in told'
    <3>1. c \in Live /\ entry[g].f91 /\ ~ (ioC = c /\ At("tell"))
      BY <2>1, <2>2, LiveSaved DEF At
    <3> QED
      BY <2>1, <3>1 DEF ClientsUpToDate
  <2> QED
    BY <2>2 DEF ClientsUpToDate
<1>11. CASE HeartBeat
  <2>1. \A a \in Addresses : saved'[a] \in {saved[a], NoSession, Null}
    BY <1>11 DEF HeartBeat
  <2> QED
    BY <1>11, <2>1, LiveSaved, KeepsTold DEF HeartBeat, Hidden, At, io, reader, history
<1> QED
  BY <1>1, <1>2, <1>3, <1>4, <1>5, <1>6, <1>7, <1>8, <1>9, <1>10, <1>11, StepCases
     DEF PackAdd, PackRemove, PackBroadcastAll, PackHeartBeat, BroadcastNull, HeartBeatNull

-----------------------------------------------------------------------------
(* The 90 frames.                                                          *)

\* A step that gives no client a frame it must have been sent.
LEMMA KeepsSent ==
  ASSUME MonitorsUpToDate, UNCHANGED has90, skipped => skipped',
         \A h \in Gprs : /\ entry'[h].f90 => entry[h].f90
                         /\ entry'[h].f90 => entry'[h].clients \subseteq entry[h].clients
  PROVE  MonitorsUpToDate'
  BY DEF MonitorsUpToDate

LEMMA EraseSent ==
  ASSUME EntryTypes, MonitorsUpToDate, skipped => skipped', NEW g \in Gprs, Erase(g)
  PROVE  MonitorsUpToDate'
<1> SUFFICES ASSUME ~ skipped', NEW h \in Gprs, NEW c \in entry'[h].clients, entry'[h].f90
             PROVE  <<c, h>> \in has90'
  BY DEF MonitorsUpToDate
<1>1. h # g /\ c \in entry[h].clients /\ entry[h].f90
  BY EntryFacts DEF NoEntry
<1>2. <<c, h>> \in has90
  BY <1>1 DEF MonitorsUpToDate
<1> QED
  BY <1>1, <1>2 DEF Erase

\* What broadcast does when it erases no client, and what it never erases.
LEMMA OutcomeFacts ==
  ASSUME NEW g \in Gprs, NEW o \in Outcomes(g)
  PROVE  /\ o.erased = {} => o.served = entry[g].clients
         /\ \A c \in o.erased : exit[c]
<1> DEFINE gone == {c \in entry[g].clients : exit[c]}
<1>1. CASE gone = {}
  <2>1. o = [served |-> entry[g].clients \ gone, erased |-> {}]
    BY <1>1 DEF Outcomes
  <2> QED
    BY <1>1, <2>1
<1>2. CASE gone # {}
  <2>1. o \in [served : SUBSET (entry[g].clients \ gone), erased : (SUBSET gone) \ {{}}]
    BY <1>2 DEF Outcomes
  <2>2. o.erased \in (SUBSET gone) \ {{}}
    BY <2>1
  <2> QED
    BY <2>2
<1> QED
  BY <1>1, <1>2

LEMMA StepSent == Typed /\ MonitorsUpToDate /\ [Step]_vars => MonitorsUpToDate'
<1> SUFFICES ASSUME Typed, MonitorsUpToDate, [Step]_vars PROVE MonitorsUpToDate'
  OBVIOUS
<1>0. EntryTypes
  BY DEF Typed, EntryTypes
<1>1. CASE UNCHANGED <<entry, has90, skipped>>
  BY <1>1 DEF MonitorsUpToDate
<1>2. UNCHANGED vars => UNCHANGED <<entry, has90, skipped>>
  BY DEF vars, maps, history
<1>3. ASSUME NEW c \in Sessions, PackSession(c) PROVE UNCHANGED <<entry, has90, skipped>>
  BY <1>3 DEF PackSession, Accept, ReadFrame, ReadError, Written, WriteError, Close, maps,
              history
<1>4. PackHandle \/ QueueStop => UNCHANGED <<entry, has90, skipped>>
  BY DEF PackHandle, Handle90, HandleF3, HandleOther, QueueStop, maps, history
<1>5. PackAdd \/ PackRemove => UNCHANGED <<entry, has90, skipped>>
  BY DEF PackAdd, PackRemove, AddClient, TellClient, RemoveClient, maps, history
<1>6. QueueReject \/ BroadcastAll => UNCHANGED <<entry, has90, skipped>>
  BY DEF QueueReject, BroadcastAll, maps
<1>7. HeartBeat => UNCHANGED <<entry, has90, skipped>>
  BY DEF HeartBeat, history
<1>8. CASE Die
  <2>1. \A h \in Gprs : entry'[h].clients = {}
    BY <1>8 DEF Die, NoEntry
  <2> QED
    BY <2>1 DEF MonitorsUpToDate
<1>9. ASSUME NEW g \in Gprs, PackStart(g) \/ PackStop(g) PROVE MonitorsUpToDate'
  <2>1. UNCHANGED skipped
    BY <1>9 DEF PackStart, PackStop, StartMonitoring, JoinMonitoring, StopForced, StopOnly,
                StopOther
  <2>2. CASE Erase(g)
    BY <1>0, <2>1, <2>2, EraseSent
  <2>3. CASE UNCHANGED <<entry, has90>>
    BY <1>1, <2>1, <2>3
  <2>4. CASE /\ Join(g)
             /\ \/ ~ entry[g].f90 /\ UNCHANGED has90
                \/ has90' = has90 \union {<<ioC, g>>}
    <3> SUFFICES ASSUME ~ skipped, NEW h \in Gprs, NEW c \in entry'[h].clients, entry'[h].f90
                 PROVE  <<c, h>> \in has90'
      BY <2>1 DEF MonitorsUpToDate
    <3>1. /\ entry[h].f90
          /\ c \in IF h = g THEN entry[h].clients \union {ioC} ELSE entry[h].clients
      BY <1>0, <2>4, EntryFacts, ZenonT(40)
    <3>2. CASE c \in entry[h].clients
      BY <2>4, <3>1, <3>2 DEF MonitorsUpToDate
    <3>3. CASE c \notin entry[h].clients
      BY <2>4, <3>1, <3>3
    <3> QED
      BY <3>2, <3>3
  <2>5. PackStart(g) => /\ Join(g)
                        /\ \/ ~ entry[g].f90 /\ UNCHANGED has90
                           \/ has90' = has90 \union {<<ioC, g>>}
    BY DEF PackStart, StartMonitoring, JoinMonitoring
  <2>6. PackStop(g) => Erase(g) \/ UNCHANGED <<entry, has90>>
    BY DEF PackStop, StopForced, StopOnly, StopOther
  <2> QED
    BY <1>9, <2>2, <2>3, <2>4, <2>5, <2>6
<1>10. ASSUME NEW g \in Gprs,
              PackReject(g) \/ PackReceive(g) \/ ReceiveData(g) \/ PackReceiveData(g)
       PROVE  MonitorsUpToDate'
  <2>1. CASE PackReject(g) \/ ReceiveEE07(g)
    BY <1>1, <2>1 DEF PackReject, Reject, ReceiveEE07, maps, history
  <2>2. CASE Receive88(g) \/ ReceiveEE08(g)
    BY <1>0, <2>2, EraseSent DEF Receive88, ReceiveEE08
  <2>3. CASE Receive91(g)
    BY <1>0, <2>3, Received91, KeepsSent DEF Receive91
  <2>4. CASE Receive90(g)
    <3>1. PICK o \in Outcomes(g) :
             /\ entry' = [entry EXCEPT ![g].clients = @ \ o.erased, ![g].f90 = TRUE]
             /\ has90' = {p \in has90 : p[2] # g} \union (o.served \X {g})
             /\ skipped' = (skipped \/ o.erased # {})
      BY <2>4 DEF Receive90
    <3> SUFFICES ASSUME ~ skipped', NEW h \in Gprs, NEW c \in entry'[h].clients, entry'[h].f90
                 PROVE  <<c, h>> \in has90'
      BY DEF MonitorsUpToDate
    <3>2. ~ skipped /\ o.served = entry[g].clients
      BY <3>1, OutcomeFacts
    <3>3. CASE h = g
      <4>1. c \in entry[g].clients
        BY <1>0, <3>1, <3>3 DEF EntryTypes
      <4> QED
        BY <3>1, <3>2, <3>3, <4>1
    <3>4. CASE h # g
      <4>1. /\ entry'[h].f90 = (h = g \/ entry[h].f90)
            /\ entry'[h].clients = entry[h].clients
        BY <1>0, <3>1, <3>4 DEF EntryTypes
      <4>2. c \in entry[h].clients /\ entry[h].f90
        BY <3>4, <4>1
      <4>3. <<c, h>> \in has90
        BY <3>2, <4>2 DEF MonitorsUpToDate
      <4> QED
        BY <3>1, <3>4, <4>3
    <3> QED
      BY <3>3, <3>4
  <2>5. CASE ReceiveData(g) \/ PackReceiveData(g)
    <3>1. skipped => skipped'
      BY <2>5 DEF ReceiveData, PackReceiveData
    <3>2. CASE Erase(g)
      BY <1>0, <3>1, <3>2, EraseSent
    <3>3. CASE ~ Erase(g)
      <4>1. /\ \E S : entry' = [entry EXCEPT ![g].clients = entry[g].clients \ S]
            /\ UNCHANGED has90
        BY <2>5, <3>3 DEF ReceiveData, PackReceiveData
      <4> QED
        BY <1>0, <3>1, <4>1, EntryFacts, KeepsSent
    <3> QED
      BY <3>2, <3>3
  <2> QED
    BY <1>10, <2>1, <2>2, <2>3, <2>4, <2>5 DEF PackReceive
<1> QED
  BY <1>1, <1>2, <1>3, <1>4, <1>5, <1>6, <1>7, <1>8, <1>9, <1>10, StepCases
     DEF PackBroadcastAll, PackHeartBeat, BroadcastNull, HeartBeatNull

-----------------------------------------------------------------------------
(* The mutex of the connected clients.                                     *)

\* The clients have fewer addresses than the limit of connections.
Room == IsFiniteSet(Addresses) /\ Cardinality(Addresses) < Limit

\* Then no handler returns with the mutex.
GivenBack == clientM \in {"free", "dead"}

LEMMA StepGivenBack == Room /\ GivenBack /\ [Step]_vars => GivenBack'
<1> SUFFICES ASSUME Room, GivenBack, [Step]_vars PROVE GivenBack'
  OBVIOUS
<1> USE DEF GivenBack
<1>1. CASE UNCHANGED clientM
  BY <1>1
<1>2. UNCHANGED vars => UNCHANGED clientM
  BY DEF vars, mutexes
<1>3. ASSUME NEW c \in Sessions, PackSession(c) PROVE UNCHANGED clientM
  BY <1>3 DEF PackSession, Accept, ReadFrame, ReadError, Written, WriteError, Close, mutexes
<1>4. PackHandle \/ QueueStop \/ TellClient \/ PackRemove => UNCHANGED clientM
  BY DEF PackHandle, Handle90, HandleF3, HandleOther, QueueStop, TellClient, PackRemove,
         RemoveClient, mutexes
<1>5. ASSUME NEW g \in Gprs, PackStart(g) \/ PackStop(g) PROVE UNCHANGED clientM
  BY <1>5 DEF PackStart, PackStop, StartMonitoring, JoinMonitoring, StopForced, StopOnly,
              StopOther, mutexes
<1>6. ASSUME NEW g \in Gprs,
             PackReject(g) \/ PackReceive(g) \/ ReceiveData(g) \/ PackReceiveData(g)
      PROVE  UNCHANGED clientM
  BY <1>6 DEF PackReject, PackReceive, Reject, Receive90, Receive91, Receive88,
              ReceiveEE07, ReceiveEE08, ReceiveData, PackReceiveData, mutexes
<1>7. QueueReject \/ BroadcastAll \/ HeartBeat => UNCHANGED clientM
  BY DEF QueueReject, BroadcastAll, HeartBeat, mutexes
<1>8. Die => GivenBack'
  BY DEF Die
<1>9. CASE AddClient
  <2> DEFINE S == {a \in Addresses : saved[a] # NoSession}
  <2>1. S \in SUBSET Addresses
    OBVIOUS
  <2>2. /\ Cardinality(S) \in Nat /\ Cardinality(Addresses) \in Nat
        /\ Cardinality(S) <= Cardinality(Addresses)
    BY <2>1, FS_Subset, FS_CardinalityType DEF Room
  <2>3. Limit \in Nat
    BY LimitsAssumption
  <2>4. ~ (Cardinality(S) >= Limit)
    BY <2>2, <2>3 DEF Room
  <2> QED
    BY <1>9, <2>4 DEF AddClient
<1> QED
  BY <1>1, <1>2, <1>3, <1>4, <1>5, <1>6, <1>7, <1>8, <1>9, StepCases
     DEF PackAdd, PackBroadcastAll, PackHeartBeat, BroadcastNull, HeartBeatNull

-----------------------------------------------------------------------------
(* The theorems.                                                           *)

\* m_gprsMap, m_clientSession and the handler of the io thread keep their types.
THEOREM ServerTypeCorrect == Spec \/ PackSpec => []Typed
<1>1. Next \/ PackNext => Step
  BY DEF Step
<1> QED
  BY InitTyped, NextTyped, <1>1, PTL DEF Spec, PackSpec

\* Every connected client has been sent the last 91 frame of each gprs that has
\* an entry, whichever of AddClient and Receive91 is first.
THEOREM EveryClientTold == Spec \/ PackSpec => []ClientsUpToDate
<1>1. Init => ClientsUpToDate
  BY DEF Init, ClientsUpToDate, NoEntry
<1>2. Next \/ PackNext => Step
  BY DEF Step
<1> QED
  BY InitTyped, NextTyped, StepUpToDate, <1>1, <1>2, PTL DEF Spec, PackSpec

\* Every client that monitors a gprs has been sent its 90 frame, until a
\* broadcast meets a client that has left.
THEOREM EveryMonitorAnswered == Spec \/ PackSpec => []MonitorsUpToDate
<1>1. Init => MonitorsUpToDate
  BY DEF Init, MonitorsUpToDate, NoEntry
<1>2. Next \/ PackNext => Step
  BY DEF Step
<1> QED
  BY InitTyped, NextTyped, StepSent, <1>1, <1>2, PTL DEF Spec, PackSpec

\* While the clients have fewer addresses than CLINET_NUMBER, the reader never
\* waits for the io thread: AddClientConnection gives the mutex back.
THEOREM NoReaderStuck ==
  ASSUME Room
  PROVE  Spec \/ PackSpec => []NoThreadStuck
<1>1. Init => GivenBack
  BY DEF Init, GivenBack
<1>2. GivenBack /\ [Step]_vars => GivenBack'
  BY StepGivenBack
<1>3. Next \/ PackNext => Step
  BY DEF Step
<1>4. GivenBack => NoThreadStuck
  BY DEF GivenBack, NoThreadStuck
<1> QED
  BY <1>1, <1>2, <1>3, <1>4, PTL DEF Spec, PackSpec

\* In the server of pack/, a frame of a gprs costs no client that has not exited its
\* monitoring, whatever the broadcast passes over.
THEOREM NoMonitorDropped == PackSpec => MonitorsStay
<1>1. ASSUME Typed, NEW g \in Gprs, PackReceiveData(g)
      PROVE  {c \in entry[g].clients : ~ exit[c]} \subseteq entry'[g].clients
  <2>0. EntryTypes
    BY <1>1 DEF Typed, EntryTypes
  <2>1. PICK o \in Outcomes(g) :
           IF entry[g].clients \ o.erased = {} THEN Erase(g)
           ELSE entry' = [entry EXCEPT ![g].clients = entry[g].clients \ o.erased]
    BY <1>1 DEF PackReceiveData
  <2>2. {c \in entry[g].clients : ~ exit[c]} \subseteq entry[g].clients \ o.erased
    BY OutcomeFacts
  <2>3. CASE entry[g].clients \ o.erased = {}
    BY <2>2, <2>3
  <2>4. CASE entry[g].clients \ o.erased # {}
    <3>1. entry' = [entry EXCEPT ![g].clients = entry[g].clients \ o.erased]
      BY <2>1, <2>4
    <3>2. entry'[g].clients = entry[g].clients \ o.erased
      BY <2>0, <3>1 DEF EntryTypes
    <3> QED
      BY <2>2, <3>2
  <2> QED
    BY <2>3, <2>4
<1>2. Typed => [\A g \in Gprs : PackReceiveData(g) =>
           {c \in entry[g].clients : ~ exit[c]} \subseteq entry'[g].clients]_vars
  BY <1>1
<1> QED
  BY ServerTypeCorrect, <1>2, PTL DEF MonitorsStay

-----------------------------------------------------------------------------
(* The clients from the connection to the last handler: which of them are  *)
(* in m_clientSession, and how many heartbeats one can miss.               *)

(* What the io thread has left to do, and what this tells of the session.  *)

Todos == {<< >>, <<"add", "command">>, <<"tell", "command">>, <<"command">>, <<"add">>,
          <<"tell">>, <<"stop">>, <<"remove">>, <<"dead">>}

\* A frame is being handled; the session has been added for it.
FrameTodos == {<<"add", "command">>, <<"tell", "command">>, <<"command">>, <<"add">>, <<"tell">>,
           <<"stop">>}
Added == FrameTodos \ {<<"add", "command">>}

SessionTypes ==
    /\ reads \in [Sessions -> {"none", "open", "last", "done"}]
    /\ writes \in [Sessions -> {"idle", "busy", "done"}]
    /\ srcAddress \in [Sessions -> Addresses \union {NoAddress}]
    /\ exit \in [Sessions -> BOOLEAN] /\ beat \in [Sessions -> Nat]
    /\ rivals \subseteq Sessions \X Sessions

HandlerShape ==
    /\ SessionTypes
    /\ todo \in Todos
    /\ todo = << >> => ioC = NoSession
    /\ todo \in FrameTodos \union {<<"remove">>} => ioC \in Sessions /\ Named(ioC)
    /\ todo \in FrameTodos => reads[ioC] = "last" \/ (reads[ioC] = "open" /\ ~ exit[ioC])
    /\ todo = <<"remove">> => exit[ioC]
    /\ \A c \in Sessions : /\ reads[c] = "none" => ~ Named(c)
                           /\ exit[c] => Named(c)
    /\ \A a \in Addresses : saved[a] \in Sessions =>
          srcAddress[saved[a]] = a

LEMMA TodoFacts ==
  ASSUME todo \in Todos
  PROVE  /\ Idle <=> todo = << >>
         /\ At("add") => \/ /\ todo = <<"add", "command">> /\ Tail(todo) = <<"command">>
                            /\ [todo EXCEPT ![1] = "tell"] = <<"tell", "command">>
                         \/ /\ todo = <<"add">> /\ Tail(todo) = << >>
                            /\ [todo EXCEPT ![1] = "tell"] = <<"tell">>
         /\ At("tell") => \/ todo = <<"tell", "command">> /\ Tail(todo) = <<"command">>
                          \/ todo = <<"tell">> /\ Tail(todo) = << >>
         /\ At("command") => todo = <<"command">>
         /\ At("stop") => todo = <<"stop">>
         /\ At("remove") <=> todo = <<"remove">>
<1> USE DEF Idle, At
<1>1. /\ Idle <=> todo = << >>
      /\ At("command") => todo = <<"command">>
      /\ At("stop") => todo = <<"stop">>
      /\ At("remove") <=> todo = <<"remove">>
  BY DEF Todos
<1>2. CASE todo = <<"add", "command">>
  <2>1. Tail(todo) = <<"command">> /\ [todo EXCEPT ![1] = "tell"] = <<"tell", "command">>
    BY <1>2
  <2>2. ~ At("tell")
    BY <1>2
  <2> QED
    BY <1>1, <1>2, <2>1, <2>2
<1>3. CASE todo = <<"add">>
  <2>1. Tail(todo) = << >> /\ [todo EXCEPT ![1] = "tell"] = <<"tell">>
    BY <1>3
  <2>2. ~ At("tell")
    BY <1>3
  <2> QED
    BY <1>1, <1>3, <2>1, <2>2
<1>4. CASE todo = <<"tell", "command">> \/ todo = <<"tell">>
  <2>1. ~ At("add")
    BY <1>4
  <2>2. Tail(<<"tell", "command">>) = <<"command">> /\ Tail(<<"tell">>) = << >>
    BY ONLY TRUE
  <2> QED
    BY <1>1, <1>4, <2>1, <2>2
<1>5. CASE todo \notin {<<"add", "command">>, <<"add">>, <<"tell", "command">>, <<"tell">>}
  <2>1. ~ At("add") /\ ~ At("tell")
    BY <1>5 DEF Todos
  <2> QED
    BY <1>1, <2>1
<1> QED
  BY <1>2, <1>3, <1>4, <1>5

LEMMA TodoDiffer ==
  /\ << >> \notin FrameTodos /\ <<"remove">> \notin FrameTodos /\ <<"dead">> \notin FrameTodos
  /\ <<"remove">> # << >> /\ <<"dead">> # << >> /\ <<"dead">> # <<"remove">>
  /\ FrameTodos \subseteq Todos
  /\ <<"add", "command">> \in FrameTodos /\ <<"tell", "command">> \in Added
  /\ <<"command">> \in Added /\ <<"add">> \in Added /\ <<"tell">> \in Added
  /\ <<"stop">> \in Added /\ <<"add", "command">> \notin Added
  /\ <<"tell">> \notin {<<"add", "command">>, <<"tell", "command">>, <<"command">>, <<"add">>}
  /\ <<"add">> # <<"add", "command">>
  /\ \A t \in Todos : t \in FrameTodos \/ t = << >> \/ t = <<"remove">> \/ t = <<"dead">>
  /\ << >> \in Todos /\ <<"remove">> \in Todos /\ <<"dead">> \in Todos
  BY DEF FrameTodos, Added, Todos

USE DEF Named

\* What reading a frame does to the sessions.
LEMMA ReadFrameFacts ==
  ASSUME SessionTypes, NEW c \in Sessions, ReadFrame(c)
  PROVE  /\ todo = << >> /\ reads[c] = "open" /\ ioC' = c
         /\ reads' = [reads EXCEPT ![c] = IF exit[c] THEN "last" ELSE "open"]
         /\ UNCHANGED <<exit, beat, writes, saved>>
         /\ srcAddress' \in [Sessions -> Addresses \union {NoAddress}]
         /\ srcAddress'[c] \in Addresses
         /\ \A d \in Sessions : d # c => srcAddress'[d] = srcAddress[d]
         /\ rivals \subseteq rivals' /\ rivals' \subseteq Sessions \X Sessions
         /\ Named(c) => todo' = <<"command">> /\ UNCHANGED <<srcAddress, rivals>>
         /\ ~ Named(c) =>
               /\ todo' = <<"add", "command">>
               /\ \A d \in Sessions : srcAddress[d] = srcAddress'[c] /\ ~ Ended(d) =>
                     <<c, d>> \in rivals' /\ <<d, c>> \in rivals'
<1>1. /\ todo = << >> /\ reads[c] = "open" /\ ioC' = c
      /\ reads' = [reads EXCEPT ![c] = IF exit[c] THEN "last" ELSE "open"]
      /\ UNCHANGED <<exit, beat, writes, saved>>
  BY DEF ReadFrame, Idle, maps
<1>2. CASE Named(c)
  BY <1>1, <1>2, AddressAssumption DEF ReadFrame, SessionTypes
<1>3. CASE ~ Named(c)
  <2> DEFINE Others(a) == {d \in Sessions : srcAddress[d] = a /\ ~ Ended(d)}
  <2>1. PICK a \in Addresses :
           /\ srcAddress' = [srcAddress EXCEPT ![c] = a]
           /\ rivals' = rivals \union ({c} \X Others(a)) \union (Others(a) \X {c})
    BY <1>3 DEF ReadFrame
  <2>2. todo' = <<"add", "command">>
    BY <1>3 DEF ReadFrame
  <2>3. /\ srcAddress' \in [Sessions -> Addresses \union {NoAddress}]
        /\ srcAddress'[c] = a
        /\ \A d \in Sessions : d # c => srcAddress'[d] = srcAddress[d]
    BY <2>1 DEF SessionTypes
  <2>4. rivals' \subseteq Sessions \X Sessions
    BY <2>1 DEF SessionTypes
  <2> QED
    BY <1>1, <1>3, <2>1, <2>2, <2>3, <2>4
<1> QED
  BY <1>2, <1>3

-----------------------------------------------------------------------------
(* The shape of a handler.                                                 *)

LEMMA InitShape == Init => HandlerShape
  BY TodoDiffer, NoSessionAssumption, LimitsAssumption DEF Init, HandlerShape, SessionTypes

LEMMA DieShape == Typed /\ HandlerShape /\ Die => HandlerShape'
  BY TodoDiffer, NoSessionAssumption DEF HandlerShape, SessionTypes, Die, history

\* A step of the io thread that only goes on to what is left of its handler.
LEMMA ThenShape ==
  ASSUME HandlerShape, todo \in FrameTodos, SessionTypes', NEW rest \in FrameTodos \union {<< >>},
         Then(rest), UNCHANGED <<reads, srcAddress, exit>>,
         \A a \in Addresses : saved'[a] \in Sessions =>
            srcAddress[saved'[a]] = a
  PROVE  HandlerShape'
  BY TodoDiffer DEF HandlerShape, Then

LEMMA SessionShape ==
  ASSUME HandlerShape, NEW c \in Sessions, PackSession(c)
  PROVE  HandlerShape'
<1> USE NoSessionAssumption, TodoDiffer
<1>1. todo = << >> /\ UNCHANGED saved
  BY DEF PackSession, Accept, ReadFrame, ReadError, Written, WriteError, Close, Idle, maps
<1>2. CASE Accept(c)
  BY <1>1, <1>2 DEF Accept, HandlerShape, SessionTypes, io
<1>3. CASE ReadFrame(c)
  <2>1. SessionTypes'
    BY <1>3, ReadFrameFacts DEF HandlerShape, SessionTypes
  <2>2. ioC' = c /\ todo' \in FrameTodos /\ UNCHANGED <<exit, saved>>
    BY <1>3, ReadFrameFacts DEF HandlerShape, Added
  <2>3. Named(c)' /\ (reads'[c] = "last" \/ (reads'[c] = "open" /\ ~ exit'[c]))
    BY <1>3, ReadFrameFacts, AddressAssumption DEF HandlerShape, SessionTypes
  <2>4. \A d \in Sessions : /\ reads'[d] = "none" => ~ Named(d)'
                            /\ exit'[d] => Named(d)'
                            /\ Named(d) => srcAddress'[d] = srcAddress[d]
    <3>1. \A d \in Sessions : d # c =>
             srcAddress'[d] = srcAddress[d] /\ reads'[d] = reads[d] /\ exit'[d] = exit[d]
      BY <1>3, ReadFrameFacts DEF HandlerShape, SessionTypes
    <3>2. Named(c) => UNCHANGED srcAddress
      BY <1>3, ReadFrameFacts DEF HandlerShape
    <3> QED
      BY <2>3, <3>1, <3>2 DEF HandlerShape
  <2>5. \A a \in Addresses : saved'[a] \in Sessions => (srcAddress[saved[a]])' = a
    BY <2>2, <2>4, AddressAssumption DEF HandlerShape
  <2> QED
    BY <2>1, <2>2, <2>3, <2>4, <2>5 DEF HandlerShape
<1>4. CASE Written(c)
  BY <1>1, <1>4 DEF Written, HandlerShape, SessionTypes, io, conn
<1>5. CASE ReadError(c) \/ WriteError(c)
  <2>1. /\ exit' = [exit EXCEPT ![c] = @ \/ Named(c)] /\ UNCHANGED <<srcAddress, beat, rivals>>
        /\ \/ Named(c) /\ todo' = <<"remove">> /\ ioC' = c
           \/ ~ Named(c) /\ todo' = << >> /\ ioC' = NoSession
        /\ UNCHANGED reads \/ reads' = [reads EXCEPT ![c] = "done"]
        /\ UNCHANGED writes \/ writes' = [writes EXCEPT ![c] = "done"]
    BY <1>5 DEF ReadError, WriteError, Close
  <2>a. reads' \in [Sessions -> {"none", "open", "last", "done"}]
    BY <2>1 DEF HandlerShape, SessionTypes
  <2>b. writes' \in [Sessions -> {"idle", "busy", "done"}]
    <3>1. writes \in [Sessions -> {"idle", "busy", "done"}]
      BY DEF HandlerShape, SessionTypes
    <3> QED
      BY ONLY <2>1, <3>1
  <2>2. SessionTypes'
    BY <2>1, <2>a, <2>b DEF HandlerShape, SessionTypes
  <2>3. \A d \in Sessions : /\ reads'[d] = "none" => ~ Named(d)'
                            /\ exit'[d] => Named(d)'
                            /\ d = c /\ Named(c) => exit'[d]
    BY <2>1 DEF HandlerShape, SessionTypes
  <2> QED
    BY <1>1, <2>1, <2>2, <2>3 DEF HandlerShape
<1> QED
  BY <1>2, <1>3, <1>4, <1>5 DEF PackSession

LEMMA StartWriteTypes ==
  ASSUME SessionTypes, NEW S, StartWrite(S)
  PROVE  writes' \in [Sessions -> {"idle", "busy", "done"}]
  BY DEF SessionTypes, StartWrite

LEMMA HandleShape ==
  ASSUME Typed, HandlerShape, PackHandle \/ PackAdd \/ PackRemove \/ QueueStop
  PROVE  HandlerShape'
<1> USE TodoFacts, TodoDiffer
<1>0. /\ SessionTypes /\ todo \in Todos
      /\ \A a \in Addresses : saved[a] \in Sessions =>
            srcAddress[saved[a]] = a
  BY DEF HandlerShape
<1>1. CASE PackHandle
  <2>1. /\ todo = <<"command">> /\ UNCHANGED <<saved, reads, srcAddress, exit>>
        /\ Then(<<"add">>) \/ Then(<< >>)
    BY <1>0, <1>1 DEF PackHandle, Handle90, HandleF3, HandleOther, conn, maps
  <2>2. SessionTypes'
    BY <1>0, <1>1, StartWriteTypes DEF PackHandle, Handle90, HandleF3, HandleOther, conn,
                                       SessionTypes
  <2> QED
    BY <1>0, <2>1, <2>2, ThenShape DEF Added
<1>2. CASE TellClient
  <2>1. /\ todo \in FrameTodos /\ UNCHANGED <<saved, reads, srcAddress, exit>>
        /\ Then(<<"command">>) \/ Then(<< >>)
    BY <1>0, <1>2 DEF TellClient, conn, maps, Added
  <2>2. SessionTypes'
    BY <1>0, <1>2, StartWriteTypes DEF TellClient, conn, SessionTypes
  <2> QED
    BY <1>0, <2>1, <2>2, ThenShape DEF Added
<1>3. CASE AddClient
  <2>1. /\ todo \in FrameTodos /\ UNCHANGED <<reads, srcAddress, exit>>
        /\ \/ Then(<<"command">>) \/ Then(<< >>)
           \/ Then(<<"tell", "command">>) \/ Then(<<"tell">>)
        /\ \/ UNCHANGED saved
           \/ saved' = [saved EXCEPT ![srcAddress[ioC]] = ioC]
    BY <1>0, <1>3 DEF AddClient, conn, Added
  <2>2. ioC \in Sessions /\ Named(ioC)
    BY <2>1 DEF HandlerShape
  <2>3. SessionTypes'
    BY <1>0, <1>3 DEF AddClient, conn, SessionTypes
  <2>4. \A a \in Addresses : saved'[a] \in Sessions =>
            srcAddress[saved'[a]] = a
    BY <1>0, <2>1, <2>2 DEF Typed
  <2> QED
    BY <2>1, <2>3, <2>4, ThenShape DEF Added
<1>4. CASE RemoveClient
  <2>1. /\ UNCHANGED <<conn, writes>> /\ todo' = << >> /\ ioC' = NoSession
        /\ saved' = [saved EXCEPT ![srcAddress[ioC]] = NoSession]
    BY <1>4 DEF RemoveClient, Then
  <2>2. \A a \in Addresses : saved'[a] \in Sessions => saved'[a] = saved[a]
    BY <2>1, NoSessionAssumption DEF Typed
  <2> QED
    BY <1>0, <2>1, <2>2 DEF HandlerShape, SessionTypes, conn
<1>5. CASE QueueStop
  <2>1. /\ todo \in FrameTodos /\ UNCHANGED <<saved, conn, writes>>
        /\ Then(<< >>)
    BY <1>0, <1>5 DEF QueueStop, maps, Added
  <2> QED
    BY <1>0, <2>1, ThenShape DEF SessionTypes, conn
<1> QED
  BY <1>1, <1>2, <1>3, <1>4, <1>5 DEF PackAdd, PackRemove

LEMMA MonitorShape ==
  ASSUME HandlerShape, NEW g \in Gprs, PackStart(g) \/ PackStop(g)
  PROVE  HandlerShape'
<1>1. todo \in Todos /\ SessionTypes
  BY DEF HandlerShape
<1>2. /\ At("command") /\ UNCHANGED <<saved, conn>>
      /\ Then(<< >>) \/ Then(<<"stop">>)
  BY DEF PackStart, PackStop, StartMonitoring, JoinMonitoring, StopForced, StopOnly,
         StopOther
<1>3. UNCHANGED writes \/ StartWrite({ioC})
  BY DEF PackStart, PackStop, StartMonitoring, JoinMonitoring, StopForced, StopOnly,
         StopOther
<1>4. SessionTypes'
  BY <1>1, <1>2, <1>3, StartWriteTypes DEF SessionTypes, conn
<1>5. todo \in FrameTodos
  BY <1>1, <1>2, TodoFacts, TodoDiffer DEF Added
<1> QED
  BY <1>2, <1>4, <1>5, ThenShape, TodoDiffer DEF HandlerShape, Added, conn

\* A step of another thread that leaves the clients as they are.
LEMMA OtherShape ==
  ASSUME HandlerShape, UNCHANGED <<conn, saved, todo, ioC>>,
         UNCHANGED writes \/ \E S : StartWrite(S)
  PROVE  HandlerShape'
<1>1. SessionTypes'
  BY StartWriteTypes DEF HandlerShape, SessionTypes, conn
<1> QED
  BY <1>1 DEF HandlerShape, conn

LEMMA ReaderQuiet ==
  /\ \A g \in Gprs : PackReject(g) \/ PackReceive(g) \/ ReceiveData(g) \/ PackReceiveData(g)
        => /\ UNCHANGED <<conn, saved, todo, ioC>>
           /\ UNCHANGED writes \/ \E S : StartWrite(S)
  /\ QueueReject \/ BroadcastAll
        => /\ UNCHANGED <<conn, saved, todo, ioC>>
           /\ UNCHANGED writes \/ \E S : StartWrite(S)
  BY DEF PackReject, PackReceive, Reject, Receive90, Receive91, Receive88, ReceiveEE07,
         ReceiveEE08, ReceiveData, PackReceiveData, QueueReject, BroadcastAll, io, maps

\* What the heartbeat does to a client.
SilentClients == {c \in Live : beat[c] >= BeatLimit}

LEMMA HeartBeatFacts ==
  ASSUME Typed, HandlerShape, HeartBeat
  PROVE  /\ UNCHANGED <<todo, ioC, srcAddress, rivals, writes>> /\ SilentClients \subseteq Live
         /\ Live \subseteq Sessions
         /\ \A c \in Sessions :
               /\ exit'[c] = (exit[c] \/ c \in SilentClients)
               /\ beat'[c] = IF c \in Live THEN beat[c] + 1 ELSE beat[c]
               /\ reads'[c] = IF c \in SilentClients /\ c = ioC /\ todo # <<"remove">>
                              THEN "last" ELSE reads[c]
         /\ \A a \in Addresses :
               IF saved[a] \in SilentClients THEN saved'[a] \in {NoSession, Null}
               ELSE saved'[a] = saved[a]
         /\ SessionTypes'
<1>0. todo \in Todos /\ SessionTypes /\ Live \subseteq Sessions
  BY DEF HandlerShape, Typed, Live
<1>1. /\ UNCHANGED <<todo, ioC, srcAddress, rivals, writes>>
      /\ beat' = [c \in Sessions |-> IF c \in Live THEN beat[c] + 1 ELSE beat[c]]
      /\ Exit(SilentClients)
      /\ \E left \in SUBSET SilentClients : saved' = [a \in Addresses |->
             IF saved[a] \in left THEN Null
             ELSE IF saved[a] \in SilentClients THEN NoSession ELSE saved[a]]
  BY DEF HeartBeat, SilentClients, io
<1>2. At("remove") <=> todo = <<"remove">>
  BY <1>0, TodoFacts
<1>3. \A a \in Addresses : IF saved[a] \in SilentClients THEN saved'[a] \in {NoSession, Null}
                           ELSE saved'[a] = saved[a]
  BY <1>1
<1>4. \A c \in Sessions :
         /\ exit'[c] = (exit[c] \/ c \in SilentClients)
         /\ beat'[c] = IF c \in Live THEN beat[c] + 1 ELSE beat[c]
         /\ reads'[c] = IF c \in SilentClients /\ c = ioC /\ todo # <<"remove">>
                        THEN "last" ELSE reads[c]
  BY <1>1, <1>2 DEF Exit
<1>5. reads' \in [Sessions -> {"none", "open", "last", "done"}]
  BY <1>0, <1>1 DEF Exit, SessionTypes
<1>6. exit' \in [Sessions -> BOOLEAN] /\ beat' \in [Sessions -> Nat]
  BY <1>0, <1>1 DEF Exit, SessionTypes
<1> QED
  BY <1>0, <1>1, <1>3, <1>4, <1>5, <1>6 DEF SessionTypes, SilentClients

LEMMA HeartBeatShape ==
  ASSUME Typed, HandlerShape, HeartBeat
  PROVE  HandlerShape'
<1>1. \A c \in Live : Named(c) /\ reads[c] # "none"
  BY AddressAssumption DEF HandlerShape, Live, Typed
<1>2. \A a \in Addresses : saved'[a] \in Sessions => saved'[a] = saved[a]
  BY HeartBeatFacts, NoSessionAssumption
<1>3. \A a \in Addresses : saved'[a] \in Sessions =>
         (srcAddress[saved[a]])' = a
  BY <1>2, HeartBeatFacts DEF HandlerShape
<1>4. \A c \in Sessions : /\ reads'[c] = "none" => ~ Named(c)'
                          /\ exit'[c] => Named(c)'
  <2> SUFFICES ASSUME NEW c \in Sessions
               PROVE  /\ reads'[c] = "none" => ~ Named(c)'
                      /\ exit'[c] => Named(c)'
    OBVIOUS
  <2>1. /\ exit'[c] => exit[c] \/ c \in Live
        /\ reads'[c] = "last" \/ reads'[c] = reads[c]
        /\ UNCHANGED srcAddress
    BY HeartBeatFacts
  <2> QED
    BY <1>1, <2>1 DEF HandlerShape
<1>5. todo' \in FrameTodos => reads'[ioC'] = "last" \/ (reads'[ioC'] = "open" /\ ~ exit'[ioC'])
  BY HeartBeatFacts, TodoDiffer, ZenonT(40) DEF HandlerShape
<1>6. todo' = <<"remove">> => exit'[ioC']
  BY HeartBeatFacts DEF HandlerShape
<1> QED
  BY <1>3, <1>4, <1>5, <1>6, HeartBeatFacts DEF HandlerShape

LEMMA StepShape == Typed /\ HandlerShape /\ [Step]_vars => HandlerShape'
<1> SUFFICES ASSUME Typed, HandlerShape, [Step]_vars PROVE HandlerShape'
  OBVIOUS
<1>1. CASE UNCHANGED vars
  BY <1>1, OtherShape DEF vars, maps, io
<1> QED
  BY <1>1, StepCases, SessionShape, HandleShape, MonitorShape, OtherShape, ReaderQuiet,
     HeartBeatShape, DieShape
     DEF PackBroadcastAll, PackHeartBeat, BroadcastNull, HeartBeatNull

-----------------------------------------------------------------------------
(* The heartbeats that a client has missed.                                *)

\* The session may still be added: a frame can be read, or is being handled.
Adding == {<<"add", "command">>, <<"tell", "command">>, <<"command">>, <<"add">>}
Returns(c) == reads[c] = "open" \/ (ioC = c /\ todo \in Adding)

\* A client is dropped after BeatLimit + 1 beats.  It is saved once more when it
\* logs in with the frame that is handled meanwhile; the next beat is its last.
BeatBound ==
    /\ \A c \in Sessions :
          /\ ~ exit[c] => beat[c] <= BeatLimit
          /\ c \in Live \/ Returns(c) => beat[c] <= BeatLimit + 1
          /\ c \in Live /\ Returns(c) => beat[c] <= BeatLimit
          /\ beat[c] <= BeatLimit + 2
          /\ ~ Named(c) => beat[c] = 0
    /\ todo = <<"add", "command">> =>
          ~ exit[ioC] /\ beat[ioC] = 0 /\ ioC \notin Live

LEMMA InitBeat == Init => BeatBound
<1> SUFFICES ASSUME Init PROVE BeatBound
  OBVIOUS
<1>1. todo # <<"add", "command">> /\ \A c \in Sessions : beat[c] = 0
  BY DEF Init
<1> QED
  BY <1>1, LimitsAssumption DEF BeatBound

\* A step that lets no client be added and makes none return.
LEMMA KeepsBeat ==
  ASSUME BeatBound, UNCHANGED beat, Live' \subseteq Live,
         \A c \in Sessions : /\ Returns(c)' => Returns(c)
                             /\ exit[c] => exit'[c]
                             /\ Named(c) => Named(c)',
         todo' # <<"add", "command">> \/ UNCHANGED <<todo, ioC, exit>>
  PROVE  BeatBound'
  BY DEF BeatBound

\* A step that goes on to what is left of the handler.
LEMMA ThenReturns ==
  ASSUME HandlerShape, NEW rest, Then(rest), UNCHANGED reads,
         rest \in Adding => todo \in Adding
  PROVE  \A c \in Sessions : Returns(c)' => Returns(c)
  BY NoSessionAssumption DEF Returns, Then

LEMMA SessionBeat ==
  ASSUME Typed, HandlerShape, BeatBound, NEW c \in Sessions, PackSession(c)
  PROVE  BeatBound'
<1> USE NoSessionAssumption
<1>1. todo = << >> /\ UNCHANGED saved /\ Live' = Live
  BY DEF PackSession, Accept, ReadFrame, ReadError, Written, WriteError, Close, Idle, maps,
         Live
<1>2. << >> \notin Adding /\ <<"remove">> \notin Adding /\ <<"remove">> # <<"add", "command">>
      /\ << >> # <<"add", "command">> /\ <<"command">> # <<"add", "command">>
  BY DEF Adding
<1>3. CASE Accept(c)
  <2>1. /\ UNCHANGED <<beat, todo, ioC, exit, srcAddress>> /\ beat[c] = 0
        /\ reads' = [reads EXCEPT ![c] = "open"]
    BY <1>3 DEF Accept, HandlerShape, BeatBound, io
  <2>2. \A d \in Sessions : Returns(d)' => Returns(d) \/ d = c
    BY <2>1 DEF Returns, HandlerShape, SessionTypes
  <2> QED
    BY <1>1, <2>1, <2>2, LimitsAssumption DEF BeatBound
<1>4. CASE ReadFrame(c)
  <2>1. /\ UNCHANGED <<beat, exit>> /\ reads[c] = "open" /\ ioC' = c
        /\ reads' = [reads EXCEPT ![c] = IF exit[c] THEN "last" ELSE "open"]
        /\ todo' = IF Named(c) THEN <<"command">> ELSE <<"add", "command">>
        /\ Named(c) => UNCHANGED srcAddress
        /\ \A d \in Sessions : d # c => srcAddress'[d] = srcAddress[d]
    BY <1>4, ReadFrameFacts DEF HandlerShape
  <2>2. \A d \in Sessions : /\ Returns(d)' => Returns(d)
                            /\ Named(d) => Named(d)'
    BY <2>1 DEF Returns, HandlerShape, SessionTypes
  <2>3. ~ Named(c) => ~ exit[c] /\ beat[c] = 0 /\ c \notin Live
    BY AddressAssumption DEF HandlerShape, BeatBound, Live
  <2>4. CASE Named(c)
    BY <1>1, <1>2, <2>1, <2>2, <2>4, KeepsBeat
  <2>5. CASE ~ Named(c)
    BY <1>1, <2>1, <2>2, <2>3 DEF BeatBound
  <2> QED
    BY <2>4, <2>5
<1>5. CASE Written(c)
  BY <1>1, <1>5, KeepsBeat DEF Written, conn, io, Returns
<1>6. CASE ReadError(c) \/ WriteError(c)
  <2>1. /\ exit' = [exit EXCEPT ![c] = @ \/ Named(c)] /\ UNCHANGED <<srcAddress, beat>>
        /\ todo' = << >> \/ todo' = <<"remove">>
        /\ UNCHANGED reads \/ reads' = [reads EXCEPT ![c] = "done"]
    BY <1>6 DEF ReadError, WriteError, Close
  <2>2. \A d \in Sessions : /\ Returns(d)' => Returns(d)
                            /\ exit[d] => exit'[d]
    BY <1>2, <2>1 DEF Returns, HandlerShape, SessionTypes
  <2> QED
    BY <1>1, <1>2, <2>1, <2>2, KeepsBeat
<1> QED
  BY <1>3, <1>4, <1>5, <1>6 DEF PackSession

LEMMA HandleBeat ==
  ASSUME Typed, HandlerShape, BeatBound, PackHandle \/ PackAdd \/ PackRemove \/ QueueStop
  PROVE  BeatBound'
<1>0. todo \in Todos
  BY DEF HandlerShape
<1>1. /\ << >> \notin Adding /\ <<"stop">> \notin Adding /\ <<"tell">> \notin Adding
      /\ <<"add">> \in Adding /\ <<"command">> \in Adding /\ <<"tell", "command">> \in Adding
      /\ <<"add", "command">> \in Adding
      /\ <<"add", "command">> \notin {<< >>, <<"stop">>, <<"add">>, <<"tell">>,
                                     <<"tell", "command">>, <<"command">>}
  BY DEF Adding
<1>2. UNCHANGED saved => Live' = Live
  BY DEF Live
<1>3. CASE HandleF3
  <2>1. /\ UNCHANGED <<reads, srcAddress, exit, saved>> /\ Then(<< >>)
        /\ beat' = [beat EXCEPT ![ioC] = 0]
    BY <1>3 DEF HandleF3, maps
  <2>2. \A c \in Sessions : Returns(c)' => Returns(c)
    BY <1>1, <2>1, ThenReturns
  <2>3. \A c \in Sessions : beat'[c] \in {beat[c], 0} /\ beat[c] \in Nat
    BY <2>1 DEF HandlerShape, SessionTypes
  <2>4. todo' # <<"add", "command">>
    BY <1>1, <2>1 DEF Then
  <2> QED
    BY <1>2, <2>1, <2>2, <2>3, <2>4, LimitsAssumption DEF BeatBound
<1>4. CASE Handle90 \/ HandleOther \/ QueueStop \/ TellClient
  <2>1. /\ UNCHANGED <<reads, srcAddress, exit, beat, saved>>
        /\ \/ Then(<< >>)
           \/ todo \in Adding /\ (Then(<<"add">>) \/ Then(<<"command">>))
    BY <1>0, <1>1, <1>4, TodoFacts
       DEF Handle90, HandleOther, QueueStop, TellClient, conn, maps
  <2>2. \A c \in Sessions : Returns(c)' => Returns(c)
    BY <1>1, <2>1, ThenReturns
  <2> QED
    BY <1>1, <1>2, <2>1, <2>2, KeepsBeat DEF Then
<1>5. CASE RemoveClient
  <2>1. /\ UNCHANGED <<reads, srcAddress, exit, beat>> /\ Then(<< >>)
        /\ saved' = [saved EXCEPT ![srcAddress[ioC]] = NoSession]
    BY <1>5 DEF RemoveClient, conn
  <2>2. Live' \subseteq Live
    BY <2>1, LiveSaved DEF Typed
  <2>3. \A c \in Sessions : Returns(c)' => Returns(c)
    BY <1>1, <2>1, ThenReturns
  <2> QED
    BY <1>1, <2>1, <2>2, <2>3, KeepsBeat DEF Then
<1>6. CASE AddClient
  <2>1. /\ todo \in Adding /\ UNCHANGED <<reads, srcAddress, exit, beat>>
        /\ \/ UNCHANGED saved /\ (Then(<<"command">>) \/ Then(<< >>))
           \/ /\ saved' = [saved EXCEPT ![srcAddress[ioC]] = ioC]
              /\ \/ todo = <<"add", "command">> /\ Then(<<"tell", "command">>)
                 \/ todo = <<"add">> /\ Then(<<"tell">>)
    BY <1>0, <1>1, <1>6, TodoFacts DEF AddClient, conn
  <2>2. CASE UNCHANGED saved /\ (Then(<<"command">>) \/ Then(<< >>))
    <3>1. \A c \in Sessions : Returns(c)' => Returns(c)
      BY <1>1, <2>1, <2>2, ThenReturns
    <3> QED
      BY <1>1, <1>2, <2>1, <2>2, <3>1, KeepsBeat DEF Then
  <2>3. CASE /\ saved' = [saved EXCEPT ![srcAddress[ioC]] = ioC]
             /\ \/ todo = <<"add", "command">> /\ Then(<<"tell", "command">>)
                \/ todo = <<"add">> /\ Then(<<"tell">>)
    <3>1. Live' \subseteq Live \union {ioC}
      BY <2>3 DEF Live, Typed
    <3>2. \A c \in Sessions : Returns(c)' => Returns(c)
      BY <1>1, <2>1, <2>3, ThenReturns
    <3>3. todo' # <<"add", "command">>
      BY <1>1, <2>3 DEF Then
    <3>4. ioC \in Sessions /\ Returns(ioC)
      BY <2>1, <2>3, TodoDiffer DEF HandlerShape, Returns, Added
    <3>5. \A c \in Sessions : c = ioC => beat[c] <= BeatLimit \/ ~ Returns(c)'
      <4>1. CASE todo = <<"add", "command">>
        BY <4>1, LimitsAssumption DEF BeatBound
      <4>2. CASE todo = <<"add">> /\ exit[ioC]
        <5>1. reads[ioC] = "last" /\ todo' = <<"tell">>
          BY <2>3, <4>2, TodoDiffer DEF HandlerShape, Added, Then
        <5>2. \A c \in Sessions : c = ioC => reads'[c] = "last" /\ todo' \notin Adding
          BY <1>1, <2>1, <5>1
        <5> QED
          BY <5>2 DEF Returns
      <4>3. CASE ~ exit[ioC]
        BY <3>4, <4>3 DEF BeatBound
      <4> QED
        BY <2>3, <4>1, <4>2, <4>3
    <3>6. ASSUME NEW c \in Sessions
          PROVE  /\ ~ exit'[c] => beat'[c] <= BeatLimit
                 /\ c \in Live' \/ Returns(c)' => beat'[c] <= BeatLimit + 1
                 /\ c \in Live' /\ Returns(c)' => beat'[c] <= BeatLimit
                 /\ beat'[c] <= BeatLimit + 2
                 /\ ~ Named(c)' => beat'[c] = 0
      <4>1. CASE c = ioC
        BY <2>1, <3>4, <3>5, <4>1 DEF BeatBound
      <4>2. CASE c # ioC
        BY <2>1, <3>1, <3>2, <4>2 DEF BeatBound
      <4> QED
        BY <4>1, <4>2
    <3> QED
      BY <3>3, <3>6 DEF BeatBound
  <2> QED
    BY <2>1, <2>2, <2>3
<1> QED
  BY <1>3, <1>4, <1>5, <1>6 DEF PackHandle, PackAdd, PackRemove

LEMMA MonitorBeat ==
  ASSUME HandlerShape, BeatBound, NEW g \in Gprs, PackStart(g) \/ PackStop(g)
  PROVE  BeatBound'
<1>1. /\ UNCHANGED <<saved, reads, srcAddress, exit, beat>>
      /\ Then(<< >>) \/ Then(<<"stop">>)
  BY DEF PackStart, PackStop, StartMonitoring, JoinMonitoring, StopForced, StopOnly,
         StopOther, conn
<1>2. /\ << >> \notin Adding /\ <<"stop">> \notin Adding
      /\ << >> # <<"add", "command">> /\ <<"stop">> # <<"add", "command">>
  BY DEF Adding
<1>3. Live' = Live
  BY <1>1 DEF Live
<1>4. \A c \in Sessions : Returns(c)' => Returns(c)
  BY <1>1, <1>2, ThenReturns
<1> QED
  BY <1>1, <1>2, <1>3, <1>4, KeepsBeat DEF Then

LEMMA HeartBeatBeat ==
  ASSUME Typed, HandlerShape, BeatBound, HeartBeat
  PROVE  BeatBound'
<1>1. /\ UNCHANGED <<todo, ioC, srcAddress>> /\ SilentClients \subseteq Live /\ Live \subseteq Sessions
      /\ \A c \in Sessions :
            /\ exit'[c] = (exit[c] \/ c \in SilentClients)
            /\ beat'[c] = IF c \in Live THEN beat[c] + 1 ELSE beat[c]
            /\ reads'[c] = "open" => reads[c] = "open"
  BY HeartBeatFacts
<1>2. Live' \subseteq Live \ SilentClients
  BY HeartBeatFacts DEF Live
<1>3. \A c \in Sessions : Returns(c)' => Returns(c)
  BY <1>1 DEF Returns
<1>4. \A c \in Sessions : c \in Live \ SilentClients => beat[c] + 1 <= BeatLimit
  BY LimitsAssumption DEF SilentClients, HandlerShape, SessionTypes
<1>5. \A c \in Live : Named(c)
  BY AddressAssumption DEF HandlerShape, Live, Typed
<1>6. todo = <<"add", "command">> => ioC \in Sessions
  BY TodoDiffer DEF HandlerShape
<1>7. todo' = <<"add", "command">> => ~ exit'[ioC'] /\ beat'[ioC'] = 0 /\ ioC' \notin Live'
  BY <1>1, <1>2, <1>6 DEF BeatBound
<1>8. ASSUME NEW c \in Sessions
      PROVE  /\ ~ exit'[c] => beat'[c] <= BeatLimit
             /\ c \in Live' \/ Returns(c)' => beat'[c] <= BeatLimit + 1
             /\ c \in Live' /\ Returns(c)' => beat'[c] <= BeatLimit
             /\ beat'[c] <= BeatLimit + 2
             /\ ~ Named(c)' => beat'[c] = 0
  <2>1. beat[c] \in Nat /\ BeatLimit \in Nat
    BY LimitsAssumption DEF HandlerShape, SessionTypes
  <2>2. CASE c \notin Live
    BY <1>1, <1>2, <1>3, <2>2 DEF BeatBound
  <2>3. CASE c \in Live \ SilentClients
    BY <1>1, <1>4, <1>5, <2>1, <2>3
  <2>4. CASE c \in SilentClients
    <3>1. c \in Live /\ c \notin Live' /\ exit'[c] /\ Named(c) /\ beat'[c] = beat[c] + 1
      BY <1>1, <1>2, <1>5, <2>4
    <3>2. /\ beat[c] <= BeatLimit + 1
          /\ Returns(c)' => beat[c] <= BeatLimit
      BY <1>3, <3>1 DEF BeatBound
    <3> QED
      BY <1>1, <2>1, <3>1, <3>2
  <2> QED
    BY <1>1, <2>2, <2>3, <2>4
<1> QED
  BY <1>7, <1>8 DEF BeatBound

LEMMA StepBeat == Typed /\ HandlerShape /\ BeatBound /\ [Step]_vars => BeatBound'
<1> SUFFICES ASSUME Typed, HandlerShape, BeatBound, [Step]_vars PROVE BeatBound'
  OBVIOUS
<1>1. CASE UNCHANGED <<conn, saved, todo, ioC>>
  BY <1>1 DEF conn, BeatBound, Live, Returns
<1>2. UNCHANGED vars => UNCHANGED <<conn, saved, todo, ioC>>
  BY DEF vars, maps, io
<1>3. CASE Die
  <2>1. /\ Live' = {} /\ UNCHANGED <<beat, exit, srcAddress>> /\ todo' = <<"dead">>
        /\ \A c \in Sessions : reads'[c] = "done"
    BY <1>3 DEF Die, Live
  <2>2. <<"dead">> \notin Adding /\ <<"dead">> # <<"add", "command">>
    BY DEF Adding
  <2>3. \A c \in Sessions : ~ Returns(c)'
    BY <2>1, <2>2 DEF Returns
  <2> QED
    BY <2>1, <2>2, <2>3, KeepsBeat
<1> QED
  BY <1>1, <1>2, <1>3, StepCases, SessionBeat, HandleBeat, MonitorBeat, ReaderQuiet,
     HeartBeatBeat
     DEF PackBroadcastAll, PackHeartBeat, BroadcastNull, HeartBeatNull

-----------------------------------------------------------------------------
(* The types of everything else.                                           *)

OtherTypes ==
    /\ clientM \in {"free", "io", "dead"} /\ gprsM \in {"free", "reader"}
    /\ ioC \in Sessions \union {NoSession}
    /\ rdPc \in {"idle", "reject", "all", "all91", "dead"}
    /\ HistoryTypeOK

LEMMA OutcomesTyped ==
  ASSUME NEW g \in Gprs, NEW o \in Outcomes(g), entry[g].clients \subseteq Sessions
  PROVE  o.served \subseteq Sessions
<1> DEFINE gone == {c \in entry[g].clients : exit[c]}
<1>1. CASE gone = {}
  <2>1. o = [served |-> entry[g].clients \ gone, erased |-> {}]
    BY <1>1 DEF Outcomes
  <2> QED
    BY <2>1
<1>2. CASE gone # {}
  <2>1. o \in [served : SUBSET (entry[g].clients \ gone), erased : (SUBSET gone) \ {{}}]
    BY <1>2 DEF Outcomes
  <2>2. o.served \in SUBSET (entry[g].clients \ gone)
    BY <2>1
  <2> QED
    BY <2>2
<1> QED
  BY <1>1, <1>2

LEMMA StepOther == Typed /\ HandlerShape /\ OtherTypes /\ [Step]_vars => OtherTypes'
<1> SUFFICES ASSUME Typed, HandlerShape, OtherTypes, [Step]_vars PROVE OtherTypes'
  OBVIOUS
<1>0. Live \subseteq Sessions /\ With91 \subseteq Gprs /\ todo \in Todos
  BY DEF Live, With91, Typed, HandlerShape
<1>f. todo \in FrameTodos \union {<<"remove">>} => ioC \in Sessions
  BY DEF HandlerShape
<1>1. CASE UNCHANGED vars
  BY <1>1 DEF vars, mutexes, io, reader, history, OtherTypes, HistoryTypeOK
<1>2. ASSUME NEW c \in Sessions, PackSession(c) PROVE OtherTypes'
  <2>1. UNCHANGED <<mutexes, reader, history>> /\ (UNCHANGED ioC \/ ioC' \in {c, NoSession})
    BY <1>2 DEF PackSession, Accept, ReadFrame, ReadError, Written, WriteError, Close, io
  <2> QED
    BY <2>1 DEF mutexes, reader, history, OtherTypes, HistoryTypeOK
<1>3. CASE PackHandle \/ PackRemove
  <2>1. UNCHANGED <<mutexes, reader, history>> /\ ioC' \in {ioC, NoSession}
    BY <1>3 DEF PackHandle, Handle90, HandleF3, HandleOther, PackRemove, RemoveClient, Then
  <2> QED
    BY <2>1 DEF mutexes, reader, history, OtherTypes, HistoryTypeOK
<1>4. CASE AddClient
  <2>1. /\ UNCHANGED <<gprsM, reader, history>> /\ ioC' \in {ioC, NoSession}
        /\ clientM' \in {clientM, "io"}
    BY <1>4 DEF AddClient, Then
  <2> QED
    BY <2>1 DEF mutexes, reader, history, OtherTypes, HistoryTypeOK
<1>5. CASE TellClient
  <2>1. ioC \in Sessions
    BY <1>0, <1>5, <1>f, TodoFacts, TodoDiffer DEF TellClient, Added
  <2>2. /\ UNCHANGED <<mutexes, reader, lastCmd, has90, skipped>> /\ ioC' \in {ioC, NoSession}
        /\ told' = told \union ({ioC} \X With91)
    BY <1>5 DEF TellClient, Then
  <2> QED
    BY <1>0, <2>1, <2>2 DEF mutexes, reader, OtherTypes, HistoryTypeOK
<1>6. CASE QueueStop
  <2>1. /\ UNCHANGED <<mutexes, reader, told, has90, skipped>> /\ ioC' \in {ioC, NoSession}
        /\ lastCmd' = [lastCmd EXCEPT ![ioG] = "92"]
    BY <1>6 DEF QueueStop, Then
  <2> QED
    BY <2>1 DEF mutexes, reader, OtherTypes, HistoryTypeOK
<1>7. ASSUME NEW g \in Gprs, PackStart(g) \/ PackStop(g) PROVE OtherTypes'
  <2>1. At("command")
    BY <1>7 DEF PackStart, PackStop, StartMonitoring, JoinMonitoring, StopForced, StopOnly,
                StopOther
  <2>2. ioC \in Sessions
    BY <1>0, <1>f, <2>1, TodoFacts, TodoDiffer DEF Added
  <2>3. /\ UNCHANGED <<mutexes, reader, skipped>> /\ ioC' \in {ioC, NoSession}
        /\ \/ UNCHANGED lastCmd
           \/ lastCmd' = [lastCmd EXCEPT ![g] = "93"]
           \/ lastCmd' = [lastCmd EXCEPT ![g] = "92"]
        /\ UNCHANGED told \/ told' = told \union ({ioC} \X (With91 \intersect {g}))
        /\ \/ has90' \subseteq has90
           \/ has90' = has90 \union {<<ioC, g>>}
    BY <1>7 DEF PackStart, PackStop, StartMonitoring, JoinMonitoring, StopForced, StopOnly,
                StopOther, Then, Erase
  <2>4. lastCmd' \in [Gprs -> {"none", "92", "93"}]
    BY <2>3 DEF OtherTypes, HistoryTypeOK
  <2>5. told' \subseteq Sessions \X Gprs /\ has90' \subseteq Sessions \X Gprs
    BY <2>2, <2>3 DEF OtherTypes, HistoryTypeOK
  <2> QED
    BY <2>3, <2>4, <2>5 DEF mutexes, reader, OtherTypes, HistoryTypeOK
<1>8. ASSUME NEW g \in Gprs,
             PackReject(g) \/ PackReceive(g) \/ ReceiveData(g) \/ PackReceiveData(g)
      PROVE  OtherTypes'
  <2>1. /\ UNCHANGED <<clientM, ioC, lastCmd>> /\ told' \subseteq told
        /\ gprsM' \in {gprsM, "reader"} /\ rdPc' \in {rdPc, "reject", "all", "all91"}
    BY <1>8 DEF PackReject, PackReceive, Reject, Receive90, Receive91, Receive88, ReceiveEE07,
                ReceiveEE08, ReceiveData, PackReceiveData, mutexes, reader, io, history
  <2>2. entry[g].clients \subseteq Sessions
    BY DEF Typed
  <2>3. \/ has90' \subseteq has90
        \/ \E o \in Outcomes(g) : has90' = {p \in has90 : p[2] # g} \union (o.served \X {g})
    BY <1>8 DEF PackReject, PackReceive, Reject, Receive90, Receive91, Receive88, ReceiveEE07,
                ReceiveEE08, ReceiveData, PackReceiveData, Erase, history
  <2>4. has90' \subseteq Sessions \X Gprs
    BY <2>2, <2>3, OutcomesTyped DEF OtherTypes, HistoryTypeOK
  <2>5. UNCHANGED skipped \/ \E o \in Outcomes(g) : skipped' = (skipped \/ o.erased # {})
    BY <1>8 DEF PackReject, PackReceive, Reject, Receive90, Receive91, Receive88, ReceiveEE07,
                ReceiveEE08, ReceiveData, PackReceiveData, history
  <2>6. skipped' \in BOOLEAN
    BY <2>5 DEF OtherTypes, HistoryTypeOK
  <2> QED
    BY <2>1, <2>4, <2>6 DEF OtherTypes, HistoryTypeOK
<1>9. CASE QueueReject
  BY <1>9 DEF QueueReject, mutexes, io, OtherTypes, HistoryTypeOK
<1>10. CASE BroadcastAll
  <2>1. /\ UNCHANGED <<clientM, ioC, lastCmd, has90, skipped>> /\ gprsM' = "free" /\ rdPc' = "idle"
        /\ told' \in {told, told \union (Live \X {rdG})}
    BY <1>10 DEF BroadcastAll, io
  <2>2. told' \subseteq Sessions \X Gprs
    BY <1>0, <2>1 DEF OtherTypes, HistoryTypeOK, Typed
  <2> QED
    BY <2>1, <2>2 DEF OtherTypes, HistoryTypeOK
<1>11. CASE HeartBeat
  BY <1>11 DEF HeartBeat, mutexes, io, reader, history, OtherTypes, HistoryTypeOK
<1>12. CASE Die
  BY <1>12 DEF Die, history, OtherTypes, HistoryTypeOK
<1> QED
  BY <1>1, <1>2, <1>3, <1>4, <1>5, <1>6, <1>7, <1>8, <1>9, <1>10, <1>11, <1>12, StepCases
     DEF PackAdd, PackBroadcastAll, PackHeartBeat, BroadcastNull, HeartBeatNull

\* Every variable of both programs keeps its type; a client that is dropped after
\* BeatLimit + 1 missed heartbeats is counted at most one more, however often it
\* is saved again by frames it sent before.
THEOREM ServerTypes == Spec \/ PackSpec => []TypeOK
<1> DEFINE Inv == Typed /\ HandlerShape /\ BeatBound /\ OtherTypes
<1>1. Init => Inv
  <2>1. Init => OtherTypes
    BY DEF Init, OtherTypes, HistoryTypeOK
  <2> QED
    BY <2>1, InitTyped, InitShape, InitBeat
<1>2. Inv /\ [Step]_vars => Inv'
  BY NextTyped, StepShape, StepBeat, StepOther
<1>3. Inv => TypeOK
  <2> SUFFICES ASSUME Inv PROVE TypeOK
    OBVIOUS
  <2>1. \A c \in Sessions : beat[c] \in 0 .. BeatLimit + 2
    BY LimitsAssumption DEF BeatBound, HandlerShape, SessionTypes
  <2>2. SessionTypeOK
    BY <2>1 DEF SessionTypeOK, HandlerShape, SessionTypes
  <2> QED
    BY <2>2 DEF TypeOK, MapTypeOK, ThreadTypeOK, OtherTypes, Typed, Words
<1>4. Next \/ PackNext => Step
  BY DEF Step
<1> QED
  BY <1>1, <1>2, <1>3, <1>4, PTL DEF Spec, PackSpec

-----------------------------------------------------------------------------
(* Which clients are in m_clientSession.                                   *)

\* A handler of the session may still run.
Present(c) == Named(c) /\ (~ Ended(c) \/ ioC = c)

\* The session is saved, or one that had its address at the same time is there
\* instead or has been closed since.
Found(c) ==
    \/ saved[srcAddress[c]] = c
    \/ \E d \in Sessions : <<c, d>> \in rivals /\ (saved[srcAddress[c]] = d \/ exit[d])

\* Two sessions that are there together have been noted when the second got its
\* address.
RivalsNoted ==
    \A c, d \in Sessions :
        c # d /\ Present(c) /\ Present(d) /\ srcAddress[c] = srcAddress[d]
            => <<c, d>> \in rivals

\* A NULL entry is that of a client which the heartbeat dropped and whose read
\* chain has not ended, or is just being closed.
NullDropped ==
    \A a \in Addresses : saved[a] = Null =>
        \E d \in Sessions : /\ srcAddress[d] = a /\ exit[d]
                            /\ reads[d] # "done" \/ ioC = d

\* A read chain ends when its session is closed, or with the process.
DoneClosed ==
    \A c \in Sessions :
        Named(c) /\ reads[c] = "done" => exit[c] \/ writes[c] = "done"

\* The session whose frame is handled has been looked for.
AddedFound == todo \in Added /\ ~ exit[ioC] => Found(ioC)

\* With the process its clients are gone.
DeadEmpty == todo = <<"dead">> => \A a \in Addresses : saved[a] = NoSession

ClientsSaved ==
    /\ ConnectedSaved /\ RivalsNoted /\ NullDropped /\ DoneClosed
    /\ AddedFound /\ DeadEmpty

\* AddClientConnection finds room.
LEMMA RoomLeft ==
  ASSUME Room
  PROVE  ~ (Cardinality({a \in Addresses : saved[a] # NoSession}) >= Limit)
<1> DEFINE S == {a \in Addresses : saved[a] # NoSession}
<1>1. S \in SUBSET Addresses
  OBVIOUS
<1>2. /\ Cardinality(S) \in Nat /\ Cardinality(Addresses) \in Nat
      /\ Cardinality(S) <= Cardinality(Addresses)
  BY <1>1, FS_Subset, FS_CardinalityType DEF Room
<1> QED
  BY <1>2, LimitsAssumption DEF Room

\* ConnectedSaved in terms of Found.
LEMMA SavedFound ==
  ConnectedSaved <=>
    \A c \in Sessions : Named(c) /\ ioC # c =>
        /\ reads[c] = "open" /\ ~ exit[c] => Found(c)
        /\ reads[c] = "done" => saved[srcAddress[c]] # c
  BY DEF ConnectedSaved, Found

\* A saved session is there.
LEMMA SavedPresent ==
  ASSUME HandlerShape, ConnectedSaved, NEW a \in Addresses, saved[a] \in Sessions
  PROVE  /\ srcAddress[saved[a]] = a /\ Named(saved[a])
         /\ reads[saved[a]] # "done" \/ ioC = saved[a]
         /\ Present(saved[a])
<1>1. srcAddress[saved[a]] = a /\ Named(saved[a])
  BY AddressAssumption DEF HandlerShape
<1>2. reads[saved[a]] # "done" \/ ioC = saved[a]
  BY <1>1 DEF ConnectedSaved
<1> QED
  BY <1>1, <1>2 DEF Present, Ended

-----------------------------------------------------------------------------
(* What a step may not do to the sessions that are there.                  *)

\* A write is started for a session that is there.
Starts ==
    /\ DOMAIN writes' = Sessions
    /\ \A c \in Sessions : writes'[c] # writes[c] =>
          /\ writes[c] = "idle" /\ writes'[c] = "busy"
          /\ Named(c) => Present(c)

LEMMA StartsHere ==
  ASSUME SessionTypes, NEW S, StartWrite(S),
         \A c \in Sessions : c \in S /\ writes[c] = "idle" /\ Named(c) => Present(c)
  PROVE  Starts
  BY DEF SessionTypes, StartWrite, Starts

LEMMA OutcomesHere ==
  ASSUME DoneClosed, NEW g \in Gprs, NEW o \in Outcomes(g), NEW c \in o.served \intersect Sessions,
         writes[c] = "idle", Named(c)
  PROVE  Present(c)
<1> DEFINE gone == {d \in entry[g].clients : exit[d]}
<1>1. o.served \subseteq entry[g].clients \ gone
  <2>1. CASE gone = {}
    BY <2>1 DEF Outcomes
  <2>2. CASE gone # {}
    <3>1. o \in [served : SUBSET (entry[g].clients \ gone), erased : (SUBSET gone) \ {{}}]
      BY <2>2 DEF Outcomes
    <3>2. o.served \in SUBSET (entry[g].clients \ gone)
      BY <3>1
    <3> QED
      BY <3>2
  <2> QED
    BY <2>1, <2>2
<1>2. ~ exit[c]
  BY <1>1
<1> QED
  BY <1>2 DEF DoneClosed, Present, Ended

LEMMA ReaderStarts ==
  ASSUME Typed, HandlerShape, ClientsSaved,
         \/ \E g \in Gprs : PackReject(g) \/ PackReceive(g) \/ ReceiveData(g) \/ PackReceiveData(g)
         \/ QueueReject \/ BroadcastAll
  PROVE  Starts
<1>0. SessionTypes /\ DoneClosed /\ ConnectedSaved
  BY DEF HandlerShape, ClientsSaved
<1>1. CASE UNCHANGED writes
  BY <1>0, <1>1 DEF Starts, SessionTypes
<1>2. CASE BroadcastAll
  <2>1. StartWrite(Live)
    BY <1>2 DEF BroadcastAll
  <2>2. \A c \in Sessions : c \in Live => Present(c)
    BY <1>0, SavedPresent DEF Live
  <2> QED
    BY <1>0, <2>1, <2>2, StartsHere
<1>3. ASSUME NEW g \in Gprs, NEW o \in Outcomes(g), StartWrite(o.served) PROVE Starts
  BY <1>0, <1>3, OutcomesHere, StartsHere
<1>4. UNCHANGED writes \/ BroadcastAll \/ \E g \in Gprs : \E o \in Outcomes(g) : StartWrite(o.served)
  BY DEF PackReject, PackReceive, Reject, Receive90, Receive91, Receive88, ReceiveEE07,
         ReceiveEE08, ReceiveData, PackReceiveData, QueueReject
<1> QED
  BY <1>1, <1>2, <1>3, <1>4

LEMMA HandlerStarts ==
  ASSUME Typed, HandlerShape,
         \/ PackHandle \/ PackAdd \/ PackRemove \/ QueueStop
         \/ \E g \in Gprs : PackStart(g) \/ PackStop(g)
  PROVE  Starts
<1>0. SessionTypes
  BY DEF HandlerShape
<1>1. CASE UNCHANGED writes
  BY <1>0, <1>1 DEF Starts, SessionTypes
<1>2. CASE StartWrite({ioC})
  BY <1>0, <1>2, StartsHere DEF Present
<1>3. UNCHANGED writes \/ StartWrite({ioC})
  BY DEF PackHandle, Handle90, HandleF3, HandleOther, PackAdd, AddClient, TellClient,
         PackRemove, RemoveClient, QueueStop, PackStart, PackStop, StartMonitoring,
         JoinMonitoring, StopForced, StopOnly, StopOther
<1> QED
  BY <1>1, <1>2, <1>3

\* No session that had gone comes back, but for the one whose handler starts.
LEMMA PresentBefore ==
  ASSUME Starts, UNCHANGED srcAddress, ioC' \in {ioC, NoSession},
         \A c \in Sessions : reads'[c] = "done" <=> reads[c] = "done"
  PROVE  \A c \in Sessions : Present(c)' => Present(c)
<1> SUFFICES ASSUME NEW c \in Sessions, Present(c)' PROVE Present(c)
  OBVIOUS
<1>1. writes'[c] # writes[c] /\ Named(c) => Present(c)
  BY DEF Starts
<1>2. ioC' = c => ioC = c
  BY NoSessionAssumption
<1> QED
  BY <1>1, <1>2 DEF Present, Ended

\* What is kept when the sessions stay as they are but for their closing.
LEMMA RivalsKept ==
  ASSUME RivalsNoted, UNCHANGED <<srcAddress, rivals>>,
         \A c \in Sessions : Present(c)' => Present(c)
  PROVE  RivalsNoted'
  BY DEF RivalsNoted

LEMMA DoneKept ==
  ASSUME DoneClosed, Starts, UNCHANGED srcAddress,
         \A c \in Sessions : /\ reads'[c] = "done" <=> reads[c] = "done"
                             /\ exit[c] => exit'[c]
  PROVE  DoneClosed'
<1>1. \A c \in Sessions : writes[c] = "done" => writes'[c] = "done"
  BY DEF Starts
<1> QED
  BY <1>1 DEF DoneClosed

-----------------------------------------------------------------------------
(* The steps.                                                              *)

\* A step that saves and drops no client, and leaves no handler.
LEMMA KeepsSaved ==
  ASSUME ClientsSaved, UNCHANGED <<conn, saved, todo, ioC>>, Starts
  PROVE  ClientsSaved'
<1>1. RivalsNoted' /\ DoneClosed'
  BY PresentBefore, RivalsKept, DoneKept DEF ClientsSaved, conn
<1>2. \A c \in Sessions : Found(c)' = Found(c)
  BY DEF Found, conn
<1>3. ConnectedSaved'
  BY DEF ClientsSaved, ConnectedSaved, conn
<1>4. NullDropped' /\ AddedFound' /\ DeadEmpty'
  BY DEF ClientsSaved, NullDropped, AddedFound, DeadEmpty, Found, conn
<1> QED
  BY <1>1, <1>3, <1>4 DEF ClientsSaved

\* A step that goes on to what is left of a handler, for a session that has been
\* looked for or is saved now.
LEMMA ThenSaved ==
  ASSUME Typed, HandlerShape, ClientsSaved, Starts, todo \in FrameTodos,
         NEW rest \in Added \union {<< >>}, Then(rest),
         UNCHANGED <<reads, srcAddress, exit, rivals>>,
         \/ UNCHANGED saved /\ (~ exit[ioC] => Found(ioC))
         \/ /\ saved[srcAddress[ioC]] = NoSession
            /\ saved' = [saved EXCEPT ![srcAddress[ioC]] = ioC]
  PROVE  ClientsSaved'
<1> USE NoSessionAssumption
<1>1. /\ ioC \in Sessions /\ srcAddress[ioC] \in Addresses /\ reads[ioC] # "done"
      /\ todo' = rest /\ ioC' \in {ioC, NoSession}
      /\ todo' # << >> => ioC' = ioC
  BY DEF HandlerShape, SessionTypes, Then
<1>2. \A a \in Addresses :
         \/ saved'[a] = saved[a]
         \/ a = srcAddress[ioC] /\ saved[a] = NoSession /\ saved'[a] = ioC
  BY <1>1 DEF Typed
<1>3. \A c \in Sessions : Named(c) => srcAddress[c] \in Addresses
  BY DEF HandlerShape, SessionTypes
<1>4. ASSUME NEW c \in Sessions, Named(c), Found(c) PROVE Found(c)'
  <2>1. CASE saved'[srcAddress[c]] = saved[srcAddress[c]]
    BY <1>4, <2>1 DEF Found
  <2>2. CASE saved[srcAddress[c]] = NoSession
    <3>1. PICK d \in Sessions : <<c, d>> \in rivals /\ exit[d]
      BY <1>4, <2>2 DEF Found
    <3> QED
      BY <3>1 DEF Found
  <2> QED
    BY <1>2, <1>3, <1>4, <2>1, <2>2
<1>5. ASSUME NEW c \in Sessions, c = ioC, ~ exit[c] PROVE Found(c)'
  <2>1. CASE UNCHANGED saved /\ (~ exit[ioC] => Found(ioC))
    BY <1>5, <2>1 DEF Found
  <2>2. CASE saved' = [saved EXCEPT ![srcAddress[ioC]] = ioC]
    <3>1. saved'[srcAddress[c]] = c
      BY <1>1, <1>5, <2>2 DEF Typed
    <3> QED
      BY <3>1 DEF Found
  <2> QED
    BY <2>1, <2>2
<1>6. ConnectedSaved'
  <2> SUFFICES ASSUME NEW c \in Sessions, Named(c)', ioC' # c
               PROVE  /\ reads'[c] = "open" /\ ~ exit'[c] => Found(c)'
                      /\ reads'[c] = "done" => saved'[srcAddress'[c]] # c
    BY SavedFound DEF ConnectedSaved, Found
  <2>1. CASE c = ioC
    <3>1. reads'[c] # "done" /\ (~ exit'[c] => Found(c)')
      BY <1>1, <1>5, <2>1
    <3> QED
      BY <3>1
  <2>2. CASE c # ioC
    <3>1. /\ reads[c] = "open" /\ ~ exit[c] => Found(c)
          /\ reads[c] = "done" => saved[srcAddress[c]] # c
      BY <2>2, SavedFound DEF ClientsSaved
    <3> QED
      BY <1>2, <1>3, <1>4, <2>2, <3>1
  <2> QED
    BY <2>1, <2>2
<1>7. NullDropped'
  BY <1>1, <1>2 DEF ClientsSaved, NullDropped
<1>8. RivalsNoted' /\ DoneClosed'
  BY <1>1, PresentBefore, RivalsKept, DoneKept DEF ClientsSaved
<1>9. AddedFound' /\ DeadEmpty'
  BY <1>1, <1>5, TodoDiffer DEF AddedFound, Added, DeadEmpty
<1> QED
  BY <1>6, <1>7, <1>8, <1>9 DEF ClientsSaved

\* A handler starts: every session that is there was there before.
LEMMA ReadFrameSaved ==
  ASSUME HandlerShape, ClientsSaved, NEW c \in Sessions, ReadFrame(c)
  PROVE  ClientsSaved'
<1> USE NoSessionAssumption, TodoDiffer
<1>1. /\ reads \in [Sessions -> {"none", "open", "last", "done"}] /\ SessionTypes
      /\ ioC = NoSession
  BY ReadFrameFacts DEF HandlerShape, SessionTypes
<1>2. /\ reads[c] = "open" /\ ioC' = c /\ UNCHANGED <<exit, writes, saved>>
      /\ reads' = [reads EXCEPT ![c] = IF exit[c] THEN "last" ELSE "open"]
      /\ rivals \subseteq rivals'
      /\ Named(c) => todo' = <<"command">> /\ UNCHANGED <<srcAddress, rivals>>
  BY <1>1, ReadFrameFacts
<1>3. \A d \in Sessions : d # c => srcAddress'[d] = srcAddress[d] /\ reads'[d] = reads[d]
  BY <1>1, <1>2, ReadFrameFacts
<1>4. reads'[c] \in {"open", "last"} /\ (reads'[c] = "open" => ~ exit[c])
  BY <1>1, <1>2
<1>5. \A d \in Sessions : d # c /\ Present(d)' => Present(d) /\ ~ Ended(d)
  BY <1>1, <1>2, <1>3 DEF Present, Ended
<1>6. RivalsNoted'
  <2> SUFFICES ASSUME NEW d \in Sessions, NEW e \in Sessions, d # e, Present(d)', Present(e)',
                      srcAddress'[d] = srcAddress'[e]
               PROVE  <<d, e>> \in rivals'
    BY DEF RivalsNoted
  <2>1. CASE d # c /\ e # c
    BY <1>2, <1>3, <1>5, <2>1 DEF ClientsSaved, RivalsNoted
  <2>2. CASE Named(c) /\ (d = c \/ e = c)
    <3>1. Present(c)
      BY <1>2, <2>2 DEF Present, Ended
    <3>2. Present(d) /\ Present(e) /\ srcAddress[d] = srcAddress[e]
      BY <1>2, <1>5, <2>2, <3>1
    <3> QED
      BY <1>2, <3>2 DEF ClientsSaved, RivalsNoted
  <2>3. CASE ~ Named(c) /\ d = c
    <3>1. srcAddress[e] = srcAddress'[c] /\ ~ Ended(e)
      BY <1>3, <1>5, <2>3
    <3> QED
      BY <1>1, <2>3, <3>1, ReadFrameFacts
  <2>4. CASE ~ Named(c) /\ e = c
    <3>1. srcAddress[d] = srcAddress'[c] /\ ~ Ended(d)
      BY <1>3, <1>5, <2>4
    <3> QED
      BY <1>1, <2>4, <3>1, ReadFrameFacts
  <2> QED
    BY <2>1, <2>2, <2>3, <2>4
<1>7. ASSUME NEW d \in Sessions, Found(d), srcAddress'[d] = srcAddress[d] PROVE Found(d)'
  BY <1>2, <1>7 DEF Found
<1>8. ConnectedSaved'
  <2> SUFFICES ASSUME NEW d \in Sessions, Named(d)', d # c
               PROVE  /\ reads'[d] = "open" /\ ~ exit'[d] => Found(d)'
                      /\ reads'[d] = "done" => saved'[srcAddress'[d]] # d
    BY <1>2, SavedFound DEF ConnectedSaved, Found
  <2>1. /\ Named(d) /\ ioC # d
        /\ srcAddress'[d] = srcAddress[d] /\ reads'[d] = reads[d] /\ exit'[d] = exit[d]
    BY <1>1, <1>2, <1>3
  <2>2. /\ reads[d] = "open" /\ ~ exit[d] => Found(d)
        /\ reads[d] = "done" => saved[srcAddress[d]] # d
    BY <2>1, SavedFound DEF ClientsSaved
  <2> QED
    BY <1>2, <1>7, <2>1, <2>2
<1>9. NullDropped'
  <2> SUFFICES ASSUME NEW a \in Addresses, saved[a] = Null
               PROVE  \E d \in Sessions : /\ srcAddress'[d] = a /\ exit'[d]
                                          /\ reads'[d] # "done" \/ ioC' = d
    BY <1>2 DEF NullDropped
  <2>1. PICK d \in Sessions : srcAddress[d] = a /\ exit[d] /\ (reads[d] # "done" \/ ioC = d)
    BY DEF ClientsSaved, NullDropped
  <2>2. Named(d)
    BY <2>1 DEF HandlerShape
  <2> QED
    BY <1>1, <1>2, <1>3, <1>4, <2>1, <2>2
<1>10. DoneClosed'
  BY <1>2, <1>3, <1>4 DEF ClientsSaved, DoneClosed
<1>11. AddedFound'
  <2>1. CASE Named(c)
    <3>1. ~ exit[c] => Found(c)
      BY <1>1, <1>2, <2>1, SavedFound DEF ClientsSaved
    <3> QED
      BY <1>2, <1>7, <2>1, <3>1 DEF AddedFound
  <2>2. CASE ~ Named(c)
    BY <1>1, <2>2, ReadFrameFacts DEF AddedFound
  <2> QED
    BY <2>1, <2>2
<1>12. DeadEmpty'
  BY <1>1, ReadFrameFacts DEF DeadEmpty
<1> QED
  BY <1>6, <1>8, <1>9, <1>10, <1>11, <1>12 DEF ClientsSaved

LEMMA CloseSaved ==
  ASSUME HandlerShape, ClientsSaved, NEW c \in Sessions, ReadError(c) \/ WriteError(c)
  PROVE  ClientsSaved'
<1> USE NoSessionAssumption, TodoDiffer
<1>1. /\ reads \in [Sessions -> {"none", "open", "last", "done"}] /\ SessionTypes
      /\ writes \in [Sessions -> {"idle", "busy", "done"}]
      /\ exit \in [Sessions -> BOOLEAN] /\ ioC = NoSession
  BY DEF HandlerShape, SessionTypes, ReadError, WriteError, Idle
<1>2. /\ exit' = [exit EXCEPT ![c] = @ \/ Named(c)] /\ UNCHANGED <<srcAddress, rivals, saved>>
      /\ IF Named(c) THEN todo' = <<"remove">> /\ ioC' = c
         ELSE todo' = << >> /\ ioC' = NoSession
      /\ \/ UNCHANGED writes /\ reads' = [reads EXCEPT ![c] = "done"] /\ reads[c] # "done"
         \/ UNCHANGED reads /\ writes' = [writes EXCEPT ![c] = "done"] /\ writes[c] = "busy"
  BY DEF ReadError, WriteError, Close, maps
<1>3. /\ \A d \in Sessions : d # c => /\ exit'[d] = exit[d] /\ reads'[d] = reads[d]
                                      /\ writes'[d] = writes[d]
      /\ exit'[c] = (exit[c] \/ Named(c))
  BY <1>1, <1>2
<1>4. \A d \in Sessions : Present(d)' => Present(d)
  <2>1. Named(c) => Present(c)
    BY <1>2 DEF Present, Ended
  <2> QED
    BY <1>1, <1>2, <1>3, <2>1 DEF Present, Ended
<1>5. RivalsNoted'
  BY <1>2, <1>4, RivalsKept DEF ClientsSaved
<1>6. ConnectedSaved'
  <2> SUFFICES ASSUME NEW d \in Sessions, Named(d), ioC' # d
               PROVE  /\ reads'[d] = "open" /\ ~ exit'[d] => Found(d)'
                      /\ reads'[d] = "done" => saved'[srcAddress'[d]] # d
    BY <1>2, SavedFound DEF ConnectedSaved, Found
  <2>1. d # c /\ ioC # d
    BY <1>1, <1>2
  <2>2. /\ reads[d] = "open" /\ ~ exit[d] => Found(d)
        /\ reads[d] = "done" => saved[srcAddress[d]] # d
    BY <2>1, SavedFound DEF ClientsSaved
  <2>3. Found(d) => Found(d)'
    BY <1>2, <1>3 DEF Found
  <2> QED
    BY <1>2, <1>3, <2>1, <2>2, <2>3
<1>7. NullDropped'
  <2> SUFFICES ASSUME NEW a \in Addresses, saved[a] = Null
               PROVE  \E d \in Sessions : /\ srcAddress[d] = a /\ exit'[d]
                                          /\ reads'[d] # "done" \/ ioC' = d
    BY <1>2 DEF NullDropped
  <2>1. PICK d \in Sessions : srcAddress[d] = a /\ exit[d] /\ (reads[d] # "done" \/ ioC = d)
    BY DEF ClientsSaved, NullDropped
  <2>2. Named(d)
    BY <2>1 DEF HandlerShape
  <2> QED
    BY <1>1, <1>2, <1>3, <2>1, <2>2
<1>8. DoneClosed'
  BY <1>1, <1>2, <1>3 DEF ClientsSaved, DoneClosed
<1>9. AddedFound' /\ DeadEmpty'
  BY <1>2 DEF AddedFound, Added, DeadEmpty
<1> QED
  BY <1>5, <1>6, <1>7, <1>8, <1>9 DEF ClientsSaved

LEMMA SessionSaved ==
  ASSUME HandlerShape, ClientsSaved, NEW c \in Sessions, PackSession(c)
  PROVE  ClientsSaved'
<1>1. CASE Accept(c)
  <2>1. /\ UNCHANGED <<srcAddress, exit, rivals, writes, saved, todo, ioC>>
        /\ reads[c] = "none" /\ ~ Named(c)
        /\ reads' = [reads EXCEPT ![c] = "open"]
        /\ reads \in [Sessions -> {"none", "open", "last", "done"}]
    BY <1>1 DEF Accept, io, maps, HandlerShape, SessionTypes
  <2>2. \A d \in Sessions : Named(d) => reads'[d] = reads[d]
    BY <2>1
  <2>3. \A d \in Sessions : Present(d)' => Present(d)
    BY <2>1, <2>2 DEF Present, Ended
  <2>4. RivalsNoted'
    BY <2>1, <2>3, RivalsKept DEF ClientsSaved
  <2>5. ConnectedSaved' /\ DoneClosed'
    BY <2>1, <2>2 DEF ClientsSaved, ConnectedSaved, DoneClosed
  <2>6. NullDropped'
    BY <2>1, <2>2 DEF ClientsSaved, NullDropped, HandlerShape
  <2>7. AddedFound' /\ DeadEmpty'
    BY <2>1 DEF ClientsSaved, AddedFound, DeadEmpty, Found
  <2> QED
    BY <2>4, <2>5, <2>6, <2>7 DEF ClientsSaved
<1>2. CASE Written(c)
  <2>1. /\ UNCHANGED <<conn, saved, todo, ioC>>
        /\ writes[c] = "busy" /\ writes' = [writes EXCEPT ![c] = "idle"]
        /\ writes \in [Sessions -> {"idle", "busy", "done"}]
    BY <1>2 DEF Written, io, maps, HandlerShape, SessionTypes
  <2>2. \A d \in Sessions : Present(d)' => Present(d)
    BY <2>1 DEF Present, Ended, conn
  <2>3. RivalsNoted' /\ DoneClosed'
    BY <2>1, <2>2, RivalsKept DEF ClientsSaved, DoneClosed, conn
  <2>4. ConnectedSaved'
    BY <2>1 DEF ClientsSaved, ConnectedSaved, conn
  <2>5. NullDropped' /\ DeadEmpty'
    BY <2>1 DEF ClientsSaved, NullDropped, DeadEmpty, conn
  <2>6. AddedFound'
    BY <2>1 DEF ClientsSaved, AddedFound, Found, conn
  <2> QED
    BY <2>3, <2>4, <2>5, <2>6 DEF ClientsSaved
<1> QED
  BY <1>1, <1>2, ReadFrameSaved, CloseSaved DEF PackSession

LEMMA HandleSaved ==
  ASSUME Room, Typed, HandlerShape, ClientsSaved,
         PackHandle \/ PackAdd \/ PackRemove \/ QueueStop
  PROVE  ClientsSaved'
<1> USE TodoFacts, TodoDiffer
<1>0. todo \in Todos /\ Starts
  BY HandlerStarts DEF HandlerShape
<1>1. CASE PackHandle \/ QueueStop \/ TellClient
  <2>1. /\ todo \in Added /\ UNCHANGED <<saved, reads, srcAddress, exit, rivals>>
        /\ Then(<< >>) \/ Then(<<"add">>) \/ Then(<<"command">>)
    BY <1>0, <1>1 DEF PackHandle, Handle90, HandleF3, HandleOther, QueueStop, TellClient,
                      conn, maps
  <2>2. ~ exit[ioC] => Found(ioC)
    BY <2>1 DEF ClientsSaved, AddedFound
  <2> QED
    BY <1>0, <2>1, <2>2, ThenSaved DEF Added
<1>2. CASE AddClient
  <2>1. /\ todo \in FrameTodos /\ UNCHANGED <<reads, srcAddress, exit, rivals>>
        /\ \/ /\ saved[srcAddress[ioC]] # NoSession /\ UNCHANGED saved
              /\ Then(<<"command">>) \/ Then(<< >>)
           \/ /\ saved[srcAddress[ioC]] = NoSession
              /\ saved' = [saved EXCEPT ![srcAddress[ioC]] = ioC]
              /\ Then(<<"tell", "command">>) \/ Then(<<"tell">>)
    BY <1>0, <1>2, RoomLeft DEF AddClient, conn, Added
  <2>2. /\ ioC \in Sessions /\ srcAddress[ioC] \in Addresses /\ Present(ioC)
    BY <2>1 DEF HandlerShape, SessionTypes, Present
  <2>3. ASSUME saved[srcAddress[ioC]] # NoSession, ~ exit[ioC] PROVE Found(ioC)
    <3>1. CASE saved[srcAddress[ioC]] = Null
      <4>1. PICK d \in Sessions : /\ srcAddress[d] = srcAddress[ioC] /\ exit[d]
                                  /\ reads[d] # "done" \/ ioC = d
        BY <2>2, <3>1 DEF ClientsSaved, NullDropped
      <4>2. d # ioC /\ Present(d)
        BY <2>2, <2>3, <4>1 DEF Present, Ended
      <4> QED
        BY <2>2, <4>1, <4>2 DEF ClientsSaved, RivalsNoted, Found
    <3>2. CASE saved[srcAddress[ioC]] \in Sessions
      <4>1. Present(saved[srcAddress[ioC]])
            /\ srcAddress[saved[srcAddress[ioC]]] = srcAddress[ioC]
        BY <2>2, <3>2, SavedPresent DEF ClientsSaved
      <4> QED
        BY <2>2, <3>2, <4>1 DEF ClientsSaved, RivalsNoted, Found
    <3> QED
      BY <2>2, <2>3, <3>1, <3>2 DEF Typed
  <2> QED
    BY <1>0, <2>1, <2>3, ThenSaved DEF Added
<1>3. CASE RemoveClient
  <2>1. /\ UNCHANGED <<conn, writes>> /\ todo' = << >> /\ ioC' = NoSession
        /\ todo = <<"remove">> /\ saved' = [saved EXCEPT ![srcAddress[ioC]] = NoSession]
    BY <1>0, <1>3 DEF RemoveClient, Then
  <2>2. ioC \in Sessions /\ exit[ioC] /\ srcAddress[ioC] \in Addresses /\ Present(ioC)
    BY <2>1 DEF HandlerShape, SessionTypes, Present
  <2>3. \A a \in Addresses :
           saved'[a] = IF a = srcAddress[ioC] THEN NoSession ELSE saved[a]
    BY <2>1 DEF Typed
  <2>4. \A c \in Sessions : Named(c) => srcAddress[c] \in Addresses
    BY DEF HandlerShape, SessionTypes
  <2>5. ConnectedSaved'
    <3> SUFFICES ASSUME NEW c \in Sessions, Named(c)
                 PROVE  /\ reads[c] = "open" /\ ~ exit[c] => Found(c)'
                        /\ reads[c] = "done" => saved'[srcAddress[c]] # c
      BY <2>1, SavedFound DEF ConnectedSaved, Found, conn
    <3>1. CASE srcAddress[c] = srcAddress[ioC]
      <4>1. saved'[srcAddress[c]] # c
        BY <2>2, <2>3, <3>1, NoSessionAssumption
      <4>2. ASSUME reads[c] = "open", ~ exit[c] PROVE <<c, ioC>> \in rivals
        BY <2>2, <3>1, <4>2 DEF Present, Ended, ClientsSaved, RivalsNoted
      <4>3. <<c, ioC>> \in rivals => Found(c)'
        BY <2>1, <2>2 DEF Found, conn
      <4> QED
        BY <4>1, <4>2, <4>3
    <3>2. CASE srcAddress[c] # srcAddress[ioC]
      <4>1. saved'[srcAddress[c]] = saved[srcAddress[c]] /\ c # ioC
        BY <2>3, <2>4, <3>2
      <4>2. /\ reads[c] = "open" /\ ~ exit[c] => Found(c)
            /\ reads[c] = "done" => saved[srcAddress[c]] # c
        BY <4>1, SavedFound DEF ClientsSaved
      <4>3. Found(c) => Found(c)'
        BY <2>1, <4>1 DEF Found, conn
      <4> QED
        BY <4>1, <4>2, <4>3
    <3> QED
      BY <3>1, <3>2
  <2>6. NullDropped'
    <3> SUFFICES ASSUME NEW a \in Addresses, saved'[a] = Null
                 PROVE  \E d \in Sessions : srcAddress[d] = a /\ exit[d] /\ reads[d] # "done"
      BY <2>1 DEF NullDropped, conn
    <3>1. a # srcAddress[ioC] /\ saved[a] = Null
      BY <2>3, NoSessionAssumption
    <3> QED
      BY <3>1 DEF ClientsSaved, NullDropped
  <2>7. RivalsNoted' /\ DoneClosed'
    BY <1>0, <2>1, PresentBefore, RivalsKept, DoneKept DEF ClientsSaved, conn
  <2>8. AddedFound' /\ DeadEmpty'
    BY <2>1 DEF AddedFound, Added, DeadEmpty
  <2> QED
    BY <2>5, <2>6, <2>7, <2>8 DEF ClientsSaved
<1> QED
  BY <1>1, <1>2, <1>3 DEF PackAdd, PackRemove

LEMMA MonitorSaved ==
  ASSUME Typed, HandlerShape, ClientsSaved, NEW g \in Gprs, PackStart(g) \/ PackStop(g)
  PROVE  ClientsSaved'
<1>1. /\ At("command") /\ UNCHANGED <<saved, conn>>
      /\ Then(<< >>) \/ Then(<<"stop">>)
  BY DEF PackStart, PackStop, StartMonitoring, JoinMonitoring, StopForced, StopOnly,
         StopOther
<1>2. todo \in Added /\ Starts
  BY <1>1, TodoFacts, TodoDiffer, HandlerStarts DEF HandlerShape
<1>3. ~ exit[ioC] => Found(ioC)
  BY <1>2 DEF ClientsSaved, AddedFound
<1> QED
  BY <1>1, <1>2, <1>3, ThenSaved, TodoDiffer DEF Added, conn

LEMMA HeartBeatSaved ==
  ASSUME Typed, HandlerShape, ClientsSaved, HeartBeat
  PROVE  ClientsSaved'
<1>1. /\ UNCHANGED <<todo, ioC, srcAddress, rivals, writes>> /\ SessionTypes
      /\ \A c \in Sessions : /\ exit'[c] = (exit[c] \/ c \in SilentClients)
                             /\ reads'[c] \in {"last", reads[c]}
                             /\ reads'[c] # reads[c] => c = ioC /\ todo # <<"remove">>
  BY HeartBeatFacts DEF HandlerShape
<1>2. \A a \in Addresses :
         \/ saved'[a] = saved[a]
         \/ /\ saved[a] \in SilentClients /\ saved[a] \in Sessions
            /\ saved'[a] \in {NoSession, Null}
  BY HeartBeatFacts
<1>3. \A c \in Sessions : reads'[c] = "done" <=> reads[c] = "done"
  <2> SUFFICES ASSUME NEW c \in Sessions, reads[c] = "done", c = ioC, todo # <<"remove">>
               PROVE  c \notin SilentClients
    BY HeartBeatFacts
  <2>1. todo \notin FrameTodos /\ todo # << >>
    BY NoSessionAssumption DEF HandlerShape
  <2>2. todo = <<"dead">>
    BY <2>1, TodoDiffer DEF HandlerShape
  <2> QED
    BY <2>2 DEF ClientsSaved, DeadEmpty, SilentClients, Live
<1>4. Starts
  BY <1>1 DEF Starts, HandlerShape, SessionTypes
<1>5. RivalsNoted' /\ DoneClosed'
  BY <1>1, <1>3, <1>4, PresentBefore, RivalsKept, DoneKept DEF ClientsSaved
<1>6. ASSUME NEW c \in Sessions, Named(c), Found(c), ~ exit'[c] PROVE Found(c)'
  <2>1. srcAddress[c] \in Addresses
    BY <1>6 DEF HandlerShape, SessionTypes
  <2>2. CASE \E d \in Sessions : <<c, d>> \in rivals /\ exit[d]
    BY <1>1, <2>2 DEF Found
  <2>3. CASE saved'[srcAddress[c]] = saved[srcAddress[c]]
    BY <1>1, <1>6, <2>2, <2>3 DEF Found
  <2>4. CASE saved[srcAddress[c]] \in SilentClients /\ saved[srcAddress[c]] \in Sessions
    <3>1. exit'[saved[srcAddress[c]]]
      BY <1>1, <2>4
    <3>2. saved[srcAddress[c]] # c
      BY <1>6, <3>1
    <3> QED
      BY <1>1, <1>6, <2>2, <2>4, <3>1, <3>2 DEF Found
  <2> QED
    BY <1>2, <2>1, <2>3, <2>4
<1>7. ConnectedSaved'
  <2> SUFFICES ASSUME NEW c \in Sessions, Named(c), ioC # c
               PROVE  /\ reads'[c] = "open" /\ ~ exit'[c] => Found(c)'
                      /\ reads'[c] = "done" => saved'[srcAddress[c]] # c
    BY <1>1, SavedFound DEF ConnectedSaved, Found
  <2>1. srcAddress[c] \in Addresses /\ reads'[c] = reads[c] /\ (exit[c] => exit'[c])
    BY <1>1 DEF HandlerShape, SessionTypes
  <2>2. /\ reads[c] = "open" /\ ~ exit[c] => Found(c)
        /\ reads[c] = "done" => saved[srcAddress[c]] # c
    BY SavedFound DEF ClientsSaved
  <2> QED
    BY <1>2, <1>6, <2>1, <2>2, NoSessionAssumption
<1>8. NullDropped'
  <2> SUFFICES ASSUME NEW a \in Addresses, saved'[a] = Null
               PROVE  \E d \in Sessions : /\ srcAddress[d] = a /\ exit'[d]
                                          /\ reads'[d] # "done" \/ ioC = d
    BY <1>1 DEF NullDropped
  <2>1. CASE saved[a] = Null
    BY <1>1, <1>3, <2>1 DEF ClientsSaved, NullDropped
  <2>2. CASE saved[a] \in SilentClients /\ saved[a] \in Sessions
    <3>1. /\ srcAddress[saved[a]] = a
          /\ reads[saved[a]] # "done" \/ ioC = saved[a]
      BY <2>2, SavedPresent DEF ClientsSaved
    <3> QED
      BY <1>1, <1>3, <2>2, <3>1
  <2> QED
    BY <1>2, <2>1, <2>2
<1>9. AddedFound'
  <2> SUFFICES ASSUME todo \in Added, NEW c \in Sessions, c = ioC, ~ exit'[c]
               PROVE  Found(c)'
    BY <1>1 DEF AddedFound, HandlerShape, Added
  <2>1. Named(c)
    BY DEF HandlerShape, Added
  <2>2. Found(c)
    BY <1>1, <2>1 DEF ClientsSaved, AddedFound
  <2> QED
    BY <1>6, <2>1, <2>2
<1>10. DeadEmpty'
  BY <1>1, <1>2, NoSessionAssumption DEF ClientsSaved, DeadEmpty
<1> QED
  BY <1>5, <1>7, <1>8, <1>9, <1>10 DEF ClientsSaved

LEMMA DieSaved ==
  ASSUME HandlerShape, ClientsSaved, Die
  PROVE  ClientsSaved'
<1>1. /\ todo' = <<"dead">> /\ UNCHANGED <<srcAddress, ioC, rivals>>
      /\ \A a \in Addresses : saved'[a] = NoSession
      /\ \A c \in Sessions : reads'[c] = "done" /\ writes'[c] = "done"
  BY DEF Die
<1>2. \A c \in Sessions : Present(c)' => ioC = c
  BY <1>1 DEF Present, Ended
<1>3. RivalsNoted'
  BY <1>1, <1>2 DEF RivalsNoted
<1>4. todo' \notin Added
  BY <1>1, TodoDiffer DEF Added
<1>5. ConnectedSaved'
  <2>1. \A c \in Sessions : Named(c)' => saved'[srcAddress'[c]] # c
    BY <1>1, NoSessionAssumption DEF HandlerShape, SessionTypes
  <2> QED
    BY <1>1, <2>1 DEF ConnectedSaved
<1> QED
  BY <1>1, <1>3, <1>4, <1>5, NoSessionAssumption
     DEF ClientsSaved, NullDropped, DoneClosed, AddedFound, DeadEmpty

LEMMA StepSaved ==
  ASSUME Room
  PROVE  Typed /\ HandlerShape /\ ClientsSaved /\ [Step]_vars => ClientsSaved'
<1> SUFFICES ASSUME Typed, HandlerShape, ClientsSaved, [Step]_vars PROVE ClientsSaved'
  OBVIOUS
<1>1. CASE UNCHANGED vars
  <2>1. UNCHANGED <<conn, saved, todo, ioC>> /\ Starts
    BY <1>1 DEF vars, maps, io, Starts, HandlerShape, SessionTypes
  <2> QED
    BY <2>1, KeepsSaved
<1>2. ASSUME \/ \E g \in Gprs : \/ PackReject(g) \/ PackReceive(g) \/ ReceiveData(g)
                                \/ PackReceiveData(g)
             \/ QueueReject \/ BroadcastAll
      PROVE  ClientsSaved'
  BY <1>2, ReaderQuiet, ReaderStarts, KeepsSaved
<1> QED
  BY <1>1, <1>2, StepCases, SessionSaved, HandleSaved, MonitorSaved, HeartBeatSaved, DieSaved
     DEF PackBroadcastAll, PackHeartBeat, BroadcastNull, HeartBeatNull

\* With room for every client, m_clientSession holds the connected ones: a session
\* that has sent a frame is found there until it is closed, and not once its
\* connection has ended.  Only a client that shares its address with another
\* session, as one that connects again before its old session has ended, may be
\* missing: while that session is there instead of it, and once it has been closed.
THEOREM ClientsFound ==
  ASSUME Room
  PROVE  Spec \/ PackSpec => []ConnectedSaved
<1> DEFINE Inv == Typed /\ HandlerShape /\ ClientsSaved
<1>1. Init => Inv
  <2>1. ASSUME Init PROVE ClientsSaved
    <3>1. /\ \A c \in Sessions : ~ Named(c)
          /\ todo = << >> /\ \A a \in Addresses : saved[a] = NoSession
      BY <2>1 DEF Init
    <3> QED
      BY <3>1, TodoDiffer, NoSessionAssumption
         DEF ClientsSaved, ConnectedSaved, RivalsNoted, Present, NullDropped, DoneClosed,
             AddedFound, DeadEmpty, Added
  <2> QED
    BY <2>1, InitTyped, InitShape
<1>2. Inv /\ [Step]_vars => Inv'
  BY NextTyped, StepShape, StepSaved
<1>3. Inv => ConnectedSaved
  BY DEF ClientsSaved
<1>4. Next \/ PackNext => Step
  BY DEF Step
<1> QED
  BY <1>1, <1>2, <1>3, <1>4, PTL DEF Spec, PackSpec
=============================================================================
