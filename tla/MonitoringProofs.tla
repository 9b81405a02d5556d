-------------------------- MODULE MonitoringProofs --------------------------
(***************************************************************************)
(* What holds of the two servers together for every set of clients and of  *)
(* gprs and any number of frames under way and of broken links.  The       *)
(* TransmitServer of the composition is the one its own proofs are about;  *)
(* what it believes of the gprs follows from the order of the link.        *)
(***************************************************************************)
EXTENDS Monitoring, TransmitServerProofs

Commands == Frames({"92", "93"})
Notices == Frames({"90", "91", "EE08", "other"})
Rests == Frames({"90", "91", "other", "stop", "relay", "nothing", "wait"})

LEMMA FrameTyped ==
  /\ \A g \in Gprs, cmd \in {"92", "93"} : Frame(cmd, g) \in Commands
  /\ \A g \in Gprs, cmd \in {"90", "91", "EE08", "other"} : Frame(cmd, g) \in Notices
  /\ \A g \in Gprs, cmd \in {"90", "91", "other", "stop", "relay", "nothing", "wait"} :
        Frame(cmd, g) \in Rests
  /\ \A f \in Commands : f.gprs \in Gprs /\ f.cmd \in {"92", "93"}
  /\ \A f \in Notices : f.gprs \in Gprs /\ f = Frame(f.cmd, f.gprs)
  /\ \A f \in Rests : /\ f.gprs \in Gprs /\ f = Frame(f.cmd, f.gprs)
                      /\ f.cmd \in {"90", "91", "other"} => f \in Notices
  /\ \A cmd, g : Frame(cmd, g).cmd = cmd /\ Frame(cmd, g).gprs = g
  BY DEF Frame, Frames, Commands, Notices, Rests

\* The first frame of either direction, the first thing the link thread has left to
\* do, and what is behind it.
LEMMA FirstFrame ==
  ASSUME MonitoringTypeOK
  PROVE  /\ notices # << >> => Head(notices) \in Notices /\ Tail(notices) \in Seq(Notices)
         /\ commands # << >> => Head(commands) \in Commands /\ Tail(commands) \in Seq(Commands)
         /\ rest # << >> => /\ Head(rest) \in Rests /\ Tail(rest) \in Seq(Rests)
                            /\ Head(rest) = rest[1] /\ 1 \in DOMAIN rest
                            /\ \A i \in DOMAIN Tail(rest) :
                                  i + 1 \in DOMAIN rest /\ Tail(rest)[i] = rest[i + 1]
  BY DEF MonitoringTypeOK, Notices, Commands, Rests

-----------------------------------------------------------------------------
(* The TransmitServer of the composition.                                  *)

LEMMA ServerStep ==
  ASSUME MonitoringTypeOK, [MonitoringNext]_all
  PROVE  [PackNext]_vars
<1>1. Clients => PackNext
  BY DEF Clients, Other, Ask, Stop, Answer, PackNext, PackStart, PackStop, PackSession,
         PackHandle, PackAdd, PackRemove, PackHeartBeat
<1>2. ReceiveRest => PackNext
  BY DEF ReceiveRest, PackBroadcastAll, PackNext
<1>3. ASSUME Receive
      PROVE  PackNext
  <2>1. PICK g \in Gprs : /\ Reject(g) \/ Receive90(g) \/ Receive91(g) \/ ReceiveEE08(g)
                             \/ ReceiveOther(g)
    BY <1>3, FirstFrame, FrameTyped DEF Receive, Handles
  <2> QED
    BY <2>1 DEF ReceiveOther, PackNext, PackReject, PackReceive
<1>4. Gprses \/ Timer \/ Handle \/ HandleRest \/ Break \/ Relink => UNCHANGED vars
  BY DEF Gprses, Timer, Handle, HandleRest, Break, Relink
<1>5. UNCHANGED all => UNCHANGED vars
  BY DEF all
<1> QED
  BY <1>1, <1>2, <1>3, <1>4, <1>5 DEF MonitoringNext

-----------------------------------------------------------------------------
(* Types.                                                                  *)

LEMMA MonitoringInitTyped == MonitoringInit => MonitoringTypeOK
  BY MonitoringAssumption DEF MonitoringInit, MonitoringTypeOK, Frames

\* What DataServer says keeps the type of the notices.
LEMMA SayTyped ==
  ASSUME MonitoringTypeOK, NEW frames \in Seq(Notices), Say(frames)
  PROVE  notices' \in Seq(Notices)
  BY DEF MonitoringTypeOK, Say, Notices

LEMMA ClientsTyped ==
  ASSUME Typed, MonitoringTypeOK, Clients \/ ReceiveRest
  PROVE  MonitoringTypeOK'
<1>1. UNCHANGED <<notices, linkUp, breaks, online, relay, waiting, rest, unsaid>>
  BY DEF Clients, ReceiveRest, link, dataServer
<1>2. commands \in Seq(Commands)
  BY DEF MonitoringTypeOK, Commands
<1>3. commands' \in Seq(Commands)
  <2>1. CASE UNCHANGED commands
    BY <1>2, <2>1
  <2>2. ASSUME NEW cmd \in {"92", "93"}, NEW g \in Gprs, Command(cmd, g)
        PROVE  commands' \in Seq(Commands)
    BY <1>2, <2>2, FrameTyped DEF Command
  <2> QED
    BY <2>1, <2>2 DEF Clients, ReceiveRest, Other, Ask, Stop, Answer, Typed
<1>4. unserved' \subseteq Sessions \X Gprs
  <2>1. CASE unserved' \subseteq unserved
    BY <2>1 DEF MonitoringTypeOK
  <2>2. ASSUME NEW g \in Gprs, Ask(g) PROVE unserved' \subseteq Sessions \X Gprs
    <3>1. At("command")
      BY <2>2 DEF Ask, StartMonitoring
    <3>2. ioC \in Sessions
      BY <3>1 DEF Typed, At
    <3> QED
      BY <2>2, <3>2 DEF Ask, MonitoringTypeOK
  <2> QED
    BY <2>1, <2>2 DEF Clients, ReceiveRest, Other, Stop, Answer
<1> QED
  BY <1>1, <1>3, <1>4 DEF MonitoringTypeOK, Commands

LEMMA ReceiveTyped == MonitoringTypeOK /\ Receive => MonitoringTypeOK'
<1> SUFFICES ASSUME MonitoringTypeOK, Receive PROVE MonitoringTypeOK'
  OBVIOUS
<1>1. notices' \in Seq(Notices)
  BY FirstFrame DEF Receive
<1>2. unserved' \subseteq unserved
  BY DEF Receive
<1> QED
  BY <1>1, <1>2 DEF Receive, MonitoringTypeOK, Notices, link, dataServer

LEMMA GprsTyped == MonitoringTypeOK /\ (Gprses \/ Timer) => MonitoringTypeOK'
<1> SUFFICES ASSUME MonitoringTypeOK, NEW g \in Gprs,
                    \/ Login(g) \/ Logout(g) \/ TimeOut(g)
                    \/ \E cmd \in {"91", "other"} : Push(g, cmd),
                    UNCHANGED <<commands, linkUp, breaks, unserved>>
             PROVE  MonitoringTypeOK'
  BY DEF Gprses, Timer, link
<1>0. << >> \in Seq(Notices)
      /\ \A cmd \in {"90", "91", "EE08", "other"} : <<Frame(cmd, g)>> \in Seq(Notices)
  BY FrameTyped
<1>1. CASE Login(g)
  <2>1. /\ <<Frame("90", g), Frame("91", g), Frame("91", g)>> \in Seq(Notices)
    BY FrameTyped
  <2>2. notices' \in Seq(Notices)
    BY <1>0, <1>1, <2>1, SayTyped DEF Login
  <2>3. waiting' \in [Gprs -> Nat]
    BY <1>1 DEF Login, MonitoringTypeOK
  <2> QED
    BY <1>1, <2>2, <2>3 DEF Login, MonitoringTypeOK, Notices
<1>2. CASE Logout(g)
  <2>1. notices' \in Seq(Notices)
    BY <1>0, <1>2, SayTyped DEF Logout
  <2>2. /\ DOMAIN rest' = DOMAIN rest
        /\ \A i \in DOMAIN rest :
              rest'[i] = IF rest[i] \in {Frame("stop", g), Frame("relay", g)}
                         THEN Frame("nothing", g) ELSE rest[i]
    BY <1>2 DEF Logout, Leave
  <2>3. rest \in Seq(Rests)
    BY DEF MonitoringTypeOK, Rests
  <2>4. /\ \E n \in Nat : DOMAIN rest = 1 .. n
        /\ \A i \in DOMAIN rest : rest[i] \in Rests
    <3>1. Len(rest) \in Nat /\ DOMAIN rest = 1 .. Len(rest)
      BY <2>3
    <3>2. \A i \in DOMAIN rest : rest[i] \in Rests
      BY <2>3
    <3> QED
      BY <3>1, <3>2
  <2>5. \A i \in DOMAIN rest : rest'[i] \in Rests
    BY <2>2, <2>4, FrameTyped
  <2>6. rest' \in Seq(Rests)
    <3>1. PICK n \in Nat : DOMAIN rest = 1 .. n
      BY <2>4
    <3>2. rest' = [i \in 1 .. n |-> rest'[i]]
      BY <1>2, <2>2, <3>1 DEF Logout, Leave
    <3> QED
      BY <2>5, <3>1, <3>2
  <2>7. \A i \in DOMAIN rest' : rest'[i].cmd = "relay" => rest'[i].gprs \in online'
    <3> SUFFICES ASSUME NEW i \in DOMAIN rest, rest'[i].cmd = "relay"
                 PROVE  rest'[i].gprs \in online'
      BY <2>2
    <3>1. rest'[i] = rest[i] /\ rest[i] # Frame("relay", g)
      BY <2>2, FrameTyped
    <3>2. rest[i].gprs \in online /\ rest[i] = Frame("relay", rest[i].gprs)
      BY <2>4, <3>1, FrameTyped DEF MonitoringTypeOK
    <3> QED
      BY <1>2, <3>1, <3>2 DEF Logout, Leave
  <2> QED
    BY <1>2, <2>1, <2>6, <2>7 DEF Logout, Leave, MonitoringTypeOK, Notices, Rests
<1>3. CASE TimeOut(g)
  <2>1. notices' \in Seq(Notices)
    BY <1>0, <1>3, SayTyped DEF TimeOut
  <2>2. waiting' \in [Gprs -> Nat]
    BY <1>3 DEF TimeOut, MonitoringTypeOK
  <2> QED
    BY <1>3, <2>1, <2>2 DEF TimeOut, MonitoringTypeOK, Notices
<1>4. ASSUME NEW cmd \in {"91", "other"}, Push(g, cmd) PROVE MonitoringTypeOK'
  <2>1. PICK s \in {<< >>, <<Frame(cmd, g)>>}, t \in {<< >>, <<Frame(cmd, g)>>} : Say(s \o t)
    BY <1>4 DEF Push
  <2>2. s \in Seq(Notices) /\ t \in Seq(Notices)
    BY <1>0
  <2>3. s \o t \in Seq(Notices)
    BY <2>2
  <2>4. notices' \in Seq(Notices)
    BY <2>1, <2>3, SayTyped
  <2> QED
    BY <1>4, <2>4 DEF Push, MonitoringTypeOK, Notices
<1> QED
  BY <1>1, <1>2, <1>3, <1>4

\* What the link thread sets out to do for a gprs.
LEMMA EachTyped ==
  ASSUME NEW g \in Gprs, MonitoringTypeOK, Handle92(g) \/ Handle93(g)
  PROVE  /\ rest' \in Seq(Rests)
         /\ \A i \in DOMAIN rest' : rest'[i].cmd = "relay" => rest'[i].gprs \in online
<1> DEFINE K == {"90", "91", "other", "stop", "relay", "nothing", "wait"}
<1>1. ASSUME NEW cmds \in Seq(K), rest' = Each(cmds, g),
             (\E i \in DOMAIN cmds : cmds[i] = "relay") => g \in online
      PROVE  /\ rest' \in Seq(Rests)
             /\ \A i \in DOMAIN rest' : rest'[i].cmd = "relay" => rest'[i].gprs \in online
  <2>1. Len(cmds) \in Nat /\ DOMAIN cmds = 1 .. Len(cmds)
        /\ \A i \in DOMAIN cmds : cmds[i] \in K
    OBVIOUS
  <2>2. rest' = [i \in 1 .. Len(cmds) |-> Frame(cmds[i], g)]
    BY <1>1, <2>1 DEF Each
  <2>3. \A i \in 1 .. Len(cmds) : Frame(cmds[i], g) \in Rests
    BY <2>1, FrameTyped
  <2>4. rest' \in Seq(Rests)
    BY <2>1, <2>2, <2>3
  <2>5. \A i \in 1 .. Len(cmds) : rest'[i].cmd = cmds[i] /\ rest'[i].gprs = g
    BY <2>2, FrameTyped
  <2> QED
    BY <1>1, <2>1, <2>2, <2>4, <2>5
<1>2. CASE rest' = << >>
  BY <1>2
<1>3. CASE rest' # << >>
  <2>1. PICK cmds \in {<<"stop">>, <<"wait">>, <<"other">>, <<"other", "relay">>,
                       <<"other", "relay", "90", "91">>} :
           rest' = Each(cmds, g) /\ (g \in online \/ cmds = <<"wait">>)
    BY <1>3 DEF Handle92, Handle93
  <2>2. cmds \in Seq(K)
    <3>1. /\ <<"stop">> \in Seq(K) /\ <<"wait">> \in Seq(K) /\ <<"other">> \in Seq(K)
          /\ <<"other", "relay">> \in Seq(K)
      OBVIOUS
    <3>2. <<"other", "relay", "90", "91">> \in Seq(K)
      OBVIOUS
    <3> QED
      BY <3>1, <3>2
  <2>3. cmds = <<"wait">> => \A i \in DOMAIN cmds : cmds[i] # "relay"
    OBVIOUS
  <2> QED
    BY <1>1, <2>1, <2>2, <2>3
<1> QED
  BY <1>2, <1>3

LEMMA LinkThreadTyped ==
  ASSUME MonitoringTypeOK, Handle \/ HandleRest
  PROVE  MonitoringTypeOK'
<1>1. ASSUME Handle PROVE MonitoringTypeOK'
  <2>1. PICK g \in Gprs : Handle92(g) \/ Handle93(g)
    BY <1>1, FirstFrame, FrameTyped DEF Handle
  <2>2. commands' \in Seq(Commands)
    BY <1>1, FirstFrame DEF Handle
  <2> QED
    BY <1>1, <2>1, <2>2, EachTyped DEF Handle, MonitoringTypeOK, Commands, Rests, link
<1>2. ASSUME HandleRest PROVE MonitoringTypeOK'
  <2> DEFINE f == Head(rest)
  <2>1. /\ f \in Rests /\ Tail(rest) \in Seq(Rests) /\ f = rest[1] /\ 1 \in DOMAIN rest
        /\ \A i \in DOMAIN Tail(rest) : i + 1 \in DOMAIN rest /\ Tail(rest)[i] = rest[i + 1]
    BY <1>2, FirstFrame DEF HandleRest
  <2>2. f.gprs \in Gprs /\ (f.cmd \in {"90", "91", "other"} => <<f>> \in Seq(Notices))
    BY <2>1, FrameTyped
  <2>3. notices' \in Seq(Notices)
    <3>1. CASE UNCHANGED notices
      BY <3>1 DEF MonitoringTypeOK, Notices
    <3>2. CASE f.cmd \in {"90", "91", "other"}
      BY <1>2, <2>2, <3>2, SayTyped DEF HandleRest
    <3> QED
      BY <1>2, <3>1, <3>2 DEF HandleRest
  <2>4. waiting' \in [Gprs -> Nat]
    BY <1>2, <2>2 DEF HandleRest, MonitoringTypeOK
  <2>5. relay' \subseteq online /\ unsaid' \subseteq Gprs
    BY <1>2, <2>1, <2>2 DEF HandleRest, MonitoringTypeOK
  <2>6. \A i \in DOMAIN rest' : rest'[i].cmd = "relay" => rest'[i].gprs \in online
    BY <1>2, <2>1 DEF HandleRest, MonitoringTypeOK
  <2>7. UNCHANGED <<commands, linkUp, breaks, online, unserved>> /\ rest' \in Seq(Rests)
    BY <1>2, <2>1 DEF HandleRest, link
  <2> QED
    BY <2>3, <2>4, <2>5, <2>6, <2>7 DEF MonitoringTypeOK, Notices, Rests
<1> QED
  BY <1>1, <1>2

LEMMA LinkTyped == MonitoringTypeOK /\ (Break \/ Relink) => MonitoringTypeOK'
<1> SUFFICES ASSUME MonitoringTypeOK, Break \/ Relink PROVE MonitoringTypeOK'
  OBVIOUS
<1>2. CASE Break
  <2>1. PICK n \in 0 .. Len(commands) : commands' = SubSeq(commands, n + 1, Len(commands))
    BY <1>2 DEF Break
  <2>2. PICK m \in 0 .. Len(notices) :
           /\ notices' = SubSeq(notices, 1, m)
           /\ unsaid' = unsaid \union
                {notices[i].gprs : i \in {j \in m + 1 .. Len(notices) :
                                             notices[j].cmd = "EE08"}}
    BY <1>2 DEF Break
  <2>3. commands \in Seq(Commands) /\ notices \in Seq(Notices)
    BY DEF MonitoringTypeOK, Commands, Notices
  <2>4. commands' \in Seq(Commands) /\ notices' \in Seq(Notices)
    BY <2>1, <2>2, <2>3
  <2>5. unsaid' \subseteq Gprs
    <3>1. \A i \in m + 1 .. Len(notices) : notices[i] \in Notices
      BY <2>2, <2>3
    <3> QED
      BY <2>2, <3>1, FrameTyped DEF MonitoringTypeOK
  <2>6. breaks' \in 0 .. MaxBreaks
    <3>1. breaks < MaxBreaks /\ breaks' = breaks + 1
      BY <1>2 DEF Break
    <3>2. breaks \in 0 .. MaxBreaks
      BY DEF MonitoringTypeOK
    <3> QED
      BY <3>1, <3>2, MonitoringAssumption
  <2> QED
    BY <1>2, <2>4, <2>5, <2>6 DEF Break, MonitoringTypeOK, Commands, Notices, dataServer
<1>3. CASE Relink
  <2>1. PICK order \in [1 .. Cardinality(online) -> online] :
           notices' = notices \o [i \in DOMAIN order |-> Frame("91", order[i])]
    BY <1>3 DEF Relink
  <2>2. Cardinality(online) \in Nat
    BY MonitoringAssumption, FS_Subset, FS_CardinalityType DEF MonitoringTypeOK
  <2>3. \A i \in 1 .. Cardinality(online) : Frame("91", order[i]) \in Notices
    BY <2>1, FrameTyped DEF MonitoringTypeOK
  <2>4. DOMAIN order = 1 .. Cardinality(online)
    BY <2>1
  <2> DEFINE told91 == [i \in DOMAIN order |-> Frame("91", order[i])]
  <2>5. told91 \in Seq(Notices)
    BY <2>2, <2>3, <2>4
  <2>6. notices' \in Seq(Notices)
    <3>1. notices \in Seq(Notices) /\ notices' = notices \o told91
      BY <2>1 DEF MonitoringTypeOK, Notices
    <3> HIDE DEF told91
    <3> QED
      BY <2>5, <3>1
  <2> QED
    BY <1>3, <2>6 DEF Relink, MonitoringTypeOK, Notices, dataServer
<1> QED
  BY <1>2, <1>3

LEMMA MonitoringTypes ==
  Typed /\ MonitoringTypeOK /\ [MonitoringNext]_all => Typed' /\ MonitoringTypeOK'
<1> SUFFICES ASSUME Typed, MonitoringTypeOK, [MonitoringNext]_all
             PROVE  Typed' /\ MonitoringTypeOK'
  OBVIOUS
<1>1. [Step]_vars
  BY ServerStep, MonitoringAssumption DEF Step
<1>2. Typed'
  BY <1>1, NextTyped
<1>3. CASE UNCHANGED all
  BY <1>2, <1>3 DEF all, link, dataServer, MonitoringTypeOK
<1>4. Clients \/ ReceiveRest => MonitoringTypeOK'
  BY ClientsTyped
<1>5. Receive \/ Gprses \/ Timer \/ Handle \/ HandleRest \/ Break \/ Relink
         => MonitoringTypeOK'
  BY ReceiveTyped, GprsTyped, LinkThreadTyped, LinkTyped
<1> QED
  BY <1>2, <1>3, <1>4, <1>5 DEF MonitoringNext

-----------------------------------------------------------------------------
(* What TransmitServer believes.                                           *)

\* An entry with a 91 frame is one: a 90 or EE08 frame of its gprs is not rejected.
Kept == \A g \in Gprs : entry[g].f91 => entry[g].in

\* Only Receive91 gives an entry a 91 frame, and no step leaves one without its
\* entry.
LEMMA EntryStep ==
  ASSUME Typed, Kept, [Step]_vars, NEW h \in Gprs
  PROVE  /\ entry'[h].f91 => entry'[h].in
         /\ entry'[h].f91 => entry[h].f91 \/ Receive91(h)
<1> DEFINE Fine == /\ entry'[h].f91 => entry'[h].in
                   /\ entry'[h].f91 => entry[h].f91 \/ Receive91(h)
<1>0. EntryTypes
  BY DEF Typed, EntryTypes
<1>1. CASE UNCHANGED entry
  BY <1>1 DEF Kept
<1>2. ASSUME NEW g \in Gprs, NEW S,
             \/ Join(g) \/ Erase(g)
             \/ entry' = [entry EXCEPT ![g].clients = S]
             \/ entry' = [entry EXCEPT ![g].clients = S, ![g].f90 = TRUE]
      PROVE  Fine
  <2>1. CASE Join(g)
    BY <1>0, <2>1 DEF Join, EntryTypes, Kept
  <2>2. CASE Erase(g)
    BY <1>0, <2>2 DEF Erase, NoEntry, EntryTypes, Kept
  <2>3. CASE entry' = [entry EXCEPT ![g].clients = S]
    BY <1>0, <2>3 DEF EntryTypes, Kept
  <2>4. CASE entry' = [entry EXCEPT ![g].clients = S, ![g].f90 = TRUE]
    BY <1>0, <2>4 DEF EntryTypes, Kept
  <2> QED
    BY <1>2, <2>1, <2>2, <2>3, <2>4
<1>3. ASSUME NEW g \in Gprs, Receive91(g) PROVE Fine
  BY <1>0, <1>3 DEF Receive91, EntryTypes, Kept
<1>4. CASE Die
  BY <1>4 DEF Die, NoEntry
<1>5. CASE \/ UNCHANGED vars
           \/ \E c \in Sessions : PackSession(c)
           \/ PackHandle \/ PackAdd \/ PackRemove \/ QueueStop
           \/ QueueReject \/ BroadcastAll \/ HeartBeat
  <2>1. UNCHANGED entry
    BY <1>5 DEF vars, maps, PackSession, Accept, ReadFrame, ReadError, Written, WriteError,
                Close, PackHandle, Handle90, HandleF3, HandleOther, PackAdd, AddClient,
                TellClient, PackRemove, RemoveClient, QueueStop, QueueReject, BroadcastAll,
                HeartBeat
  <2> QED
    BY <1>1, <2>1
<1>6. ASSUME NEW g \in Gprs, PackStart(g) \/ PackStop(g) PROVE Fine
  <2>1. Join(g) \/ Erase(g) \/ UNCHANGED entry
    BY <1>6 DEF PackStart, PackStop, StartMonitoring, JoinMonitoring, StopForced, StopOnly,
                StopOther
  <2> QED
    BY <1>1, <1>2, <2>1
<1>7. ASSUME NEW g \in Gprs,
             PackReject(g) \/ PackReceive(g) \/ ReceiveData(g) \/ PackReceiveData(g)
      PROVE  Fine
  <2>1. \/ UNCHANGED entry \/ Erase(g) \/ Receive91(g)
        \/ \E S : \/ entry' = [entry EXCEPT ![g].clients = S]
                  \/ entry' = [entry EXCEPT ![g].clients = S, ![g].f90 = TRUE]
    BY <1>7 DEF PackReject, Reject, PackReceive, Receive90, Receive88, ReceiveEE07,
                ReceiveEE08, ReceiveData, PackReceiveData, maps
  <2> QED
    BY <1>1, <1>2, <1>3, <2>1
<1> QED
  BY StepCases, <1>4, <1>5, <1>6, <1>7
     DEF PackBroadcastAll, PackHeartBeat, BroadcastNull, HeartBeatNull

\* After place n no notice makes TransmitServer believe in g.
Silent(n, g) == \A j \in DOMAIN notices : j > n => notices[j] # Frame("91", g)

\* A gprs that is not connected is not believed in, or will not be any more when the
\* last notice is read.
Doubted(g) ==
    \/ ~ entry[g].f91 /\ Silent(0, g)
    \/ \E i \in DOMAIN notices : notices[i] = Frame("EE08", g) /\ Silent(i, g)

Believed == \A g \in Gprs : g \in online \/ g \in unsaid \/ Doubted(g)

\* Frames said after the others, none of them a 91 frame of g, change nothing; an
\* EE08 frame at the end settles it.
LEMMA SaidOn ==
  ASSUME NEW T, notices \in Seq(T), NEW s \in Seq(T), notices' = notices \o s,
         NEW g \in Gprs, \A j \in DOMAIN s : s[j] # Frame("91", g)
  PROVE  /\ Doubted(g) /\ (entry'[g].f91 => entry[g].f91) => Doubted(g)'
         /\ (s # << >> /\ s[Len(s)] = Frame("EE08", g)) => Doubted(g)'
<1>1. /\ Len(notices') = Len(notices) + Len(s) /\ Len(notices) \in Nat /\ Len(s) \in Nat
      /\ DOMAIN notices = 1 .. Len(notices) /\ DOMAIN s = 1 .. Len(s)
      /\ DOMAIN notices' = 1 .. Len(notices) + Len(s)
      /\ \A j \in DOMAIN notices' : notices'[j] = IF j <= Len(notices) THEN notices[j]
                                                 ELSE s[j - Len(notices)]
  OBVIOUS
<1>2. \A n \in Nat : Silent(n, g) => Silent(n, g)'
  BY <1>1 DEF Silent, Frame
<1>3. Doubted(g) /\ (entry'[g].f91 => entry[g].f91) => Doubted(g)'
  BY <1>1, <1>2 DEF Doubted, Frame
<1>4. ASSUME s # << >>, s[Len(s)] = Frame("EE08", g) PROVE Doubted(g)'
  <2>1. /\ Len(notices') \in DOMAIN notices' /\ notices'[Len(notices')] = Frame("EE08", g)
    BY <1>1, <1>4
  <2>2. \A j \in DOMAIN notices' : ~ (j > Len(notices'))
    BY <1>1
  <2> QED
    BY <2>1, <2>2 DEF Doubted, Silent, Frame
<1> QED
  BY <1>3, <1>4


\* A frame is read: EE08 takes the entry away, a 91 frame is followed by EE08 if its
\* gprs is doubted.
LEMMA ReadOn ==
  ASSUME Typed, MonitoringTypeOK, Kept, Receive, NEW g \in Gprs, Doubted(g),
         entry'[g].f91 => entry[g].f91 \/ Receive91(g)
  PROVE  Doubted(g)'
<1> DEFINE f == Head(notices)
<1>1. /\ notices \in Seq(Notices) /\ notices # << >> /\ notices' = Tail(notices)
  BY DEF Receive, MonitoringTypeOK, Notices
<1>2. /\ Len(notices) \in Nat \ {0} /\ DOMAIN notices = 1 .. Len(notices)
      /\ DOMAIN notices' = 1 .. Len(notices) - 1
      /\ \A j \in DOMAIN notices' : j + 1 \in DOMAIN notices /\ notices'[j] = notices[j + 1]
      /\ f = notices[1]
  BY <1>1
<1>3. f.gprs \in Gprs /\ f = Frame(f.cmd, f.gprs) /\ Handles(f)
  BY FirstFrame, FrameTyped DEF Receive
<1>4. \A n \in Nat : n > 0 /\ Silent(n, g) => \A j \in DOMAIN notices' :
                         j > n - 1 => notices'[j] # Frame("91", g)
  BY <1>2 DEF Silent
<1>5. CASE ~ entry[g].f91 /\ Silent(0, g)
  <2>1. f # Frame("91", g)
    BY <1>2, <1>5 DEF Silent
  <2>2. ~ entry'[g].f91
    <3> SUFFICES ASSUME Receive91(g) PROVE FALSE
      BY <1>5
    <3>1. rdPc = "idle" /\ rdPc' = "all91" /\ rdG' = g
      BY DEF Receive91
    <3>2. f.cmd = "91" /\ Receive91(f.gprs)
      BY <1>3, <3>1 DEF Handles, Reject, Receive90, ReceiveEE08, ReceiveOther, ReceiveData,
                        PackReceiveData, reader
    <3> QED
      BY <1>3, <2>1, <3>1, <3>2 DEF Receive91
  <2> QED
    BY <1>2, <1>5, <2>2 DEF Doubted, Silent, Frame
<1>6. ASSUME NEW i \in DOMAIN notices, notices[i] = Frame("EE08", g), Silent(i, g)
      PROVE  Doubted(g)'
  <2>1. CASE i = 1
    <3>1. f = Frame("EE08", g)
      BY <1>2, <1>6, <2>1
    <3>2. ~ entry'[g].f91
      <4>1. Reject(g) \/ ReceiveEE08(g)
        BY <1>3, <3>1 DEF Handles, Frame
      <4> QED
        BY <4>1 DEF Reject, ReceiveEE08, Erase, NoEntry, Typed, Kept, maps
    <3>3. \A j \in DOMAIN notices' : notices'[j] # Frame("91", g)
      <4>1. 1 \in Nat /\ \A j \in DOMAIN notices' : j > 1 - 1
        BY <1>2
      <4> QED
        BY <1>4, <1>6, <2>1, <4>1
    <3> QED
      BY <3>2, <3>3 DEF Doubted, Silent, Frame
  <2>2. CASE i # 1
    <3>1. i - 1 \in DOMAIN notices' /\ notices'[i - 1] = Frame("EE08", g)
      BY <1>2, <1>6, <2>2
    <3>2. \A j \in DOMAIN notices' : j > i - 1 => notices'[j] # Frame("91", g)
      BY <1>2, <1>4, <1>6
    <3> QED
      BY <3>1, <3>2 DEF Doubted, Silent, Frame
  <2> QED
    BY <2>1, <2>2
<1> QED
  BY <1>5, <1>6 DEF Doubted

\* DataServer says a 91 frame only of a gprs that is connected, unless it left while
\* its 93 frame was answered, and EE08 of one that has left, if there is a link to say
\* it on.
LEMMA SaysBelieved ==
  ASSUME Typed, MonitoringTypeOK, Believed, Gprses \/ Timer \/ Handle \/ HandleRest
  PROVE  Believed'
<1>0. UNCHANGED entry
  BY DEF Gprses, Timer, Handle, HandleRest, vars, maps
<1>1. notices \in Seq(Notices)
  BY DEF MonitoringTypeOK, Notices
<1> SUFFICES ASSUME NEW h \in Gprs, h \notin online', h \notin unsaid' PROVE Doubted(h)'
  BY DEF Believed
<1>2. CASE UNCHANGED <<notices, online, unsaid>>
  BY <1>0, <1>2 DEF Believed, Doubted, Silent, Frame
<1>3. ASSUME NEW s \in Seq(Notices), Say(s), h \notin online, h \notin unsaid,
             \A j \in DOMAIN s : s[j] # Frame("91", h)
      PROVE  Doubted(h)'
  <2>1. Doubted(h)
    BY <1>3 DEF Believed
  <2>2. CASE notices' = notices
    BY <1>0, <2>1, <2>2 DEF Doubted, Silent, Frame
  <2>3. CASE notices' = notices \o s
    BY <1>0, <1>1, <1>3, <2>1, <2>3, SaidOn
  <2> QED
    BY <1>3, <2>2, <2>3 DEF Say
<1>4. ASSUME NEW g \in Gprs, Login(g) PROVE Doubted(h)'
  <2>0. /\ <<Frame("91", g)>> \in Seq(Notices)
        /\ <<Frame("90", g), Frame("91", g), Frame("91", g)>> \in Seq(Notices)
    BY FrameTyped
  <2>1. PICK s \in {<<Frame("91", g)>>, <<Frame("90", g), Frame("91", g), Frame("91", g)>>} :
           Say(s)
    BY <1>4 DEF Login
  <2>2. s \in Seq(Notices)
    BY <2>0
  <2>3. h # g /\ h \notin online /\ h \notin unsaid
    BY <1>4 DEF Login
  <2>4. \A j \in DOMAIN s : s[j] # Frame("91", h)
    BY <2>1, <2>3 DEF Frame
  <2> QED
    BY <1>3, <2>1, <2>2, <2>3, <2>4
<1>5. ASSUME NEW g \in Gprs, Logout(g) PROVE Doubted(h)'
  <2>1. <<Frame("EE08", g)>> \in Seq(Notices) /\ Say(<<Frame("EE08", g)>>)
    BY <1>5, FrameTyped DEF Logout
  <2>2. \A j \in DOMAIN <<Frame("EE08", g)>> : <<Frame("EE08", g)>>[j] # Frame("91", h)
    BY DEF Frame
  <2>3. CASE h = g
    <3>1. notices' = notices \o <<Frame("EE08", g)>>
      BY <1>5, <2>1, <2>3 DEF Logout, Say
    <3> DEFINE s == <<Frame("EE08", g)>>
    <3>2. s # << >> /\ s[Len(s)] = Frame("EE08", g)
      OBVIOUS
    <3>3. s \in Seq(Notices) /\ notices' = notices \o s
          /\ \A j \in DOMAIN s : s[j] # Frame("91", g)
      BY <2>1, <2>2, <2>3, <3>1
    <3> HIDE DEF s
    <3>4. Doubted(g)'
      BY <1>1, <3>2, <3>3, SaidOn
    <3> QED
      BY <2>3, <3>4
  <2>4. CASE h # g
    BY <1>3, <1>5, <2>1, <2>2, <2>4 DEF Logout, Leave
  <2> QED
    BY <2>3, <2>4
<1>6. ASSUME NEW g \in Gprs, NEW cmd \in {"91", "other"}, Push(g, cmd) PROVE Doubted(h)'
  <2>1. PICK s \in {<< >>, <<Frame(cmd, g)>>}, t \in {<< >>, <<Frame(cmd, g)>>} : Say(s \o t)
    BY <1>6 DEF Push
  <2>2. << >> \in Seq(Notices) /\ <<Frame(cmd, g)>> \in Seq(Notices)
    BY FrameTyped
  <2>3. s \in Seq(Notices) /\ t \in Seq(Notices)
    BY <2>2
  <2>4. s \o t \in Seq(Notices)
    BY <2>3
  <2>5. h # g /\ h \notin online /\ h \notin unsaid
    BY <1>6 DEF Push
  <2>6. \A j \in DOMAIN (s \o t) : (s \o t)[j] # Frame("91", h)
    BY <2>1, <2>5 DEF Frame
  <2> DEFINE st == s \o t
  <2>7. st \in Seq(Notices) /\ Say(st) /\ \A j \in DOMAIN st : st[j] # Frame("91", h)
    BY <2>1, <2>4, <2>6
  <2> HIDE DEF st
  <2> QED
    BY <1>3, <2>5, <2>7
<1>7. ASSUME NEW g \in Gprs, TimeOut(g) PROVE Doubted(h)'
  <2>1. <<Frame("other", g)>> \in Seq(Notices) /\ Say(<<Frame("other", g)>>)
    BY <1>7, FrameTyped DEF TimeOut
  <2>2. \A j \in DOMAIN <<Frame("other", g)>> : <<Frame("other", g)>>[j] # Frame("91", h)
    BY DEF Frame
  <2> QED
    BY <1>3, <1>7, <2>1, <2>2 DEF TimeOut
<1>8. CASE Handle
  BY <1>2, <1>8 DEF Handle
<1>9. CASE HandleRest
  <2> DEFINE f == Head(rest)
  <2>1. f \in Rests /\ UNCHANGED online
    BY <1>9, FirstFrame DEF HandleRest
  <2>2. h \notin online /\ h \notin unsaid
    BY <1>9, <2>1 DEF HandleRest
  <2>3. CASE f.cmd \in {"90", "91", "other"}
    <3>1. <<f>> \in Seq(Notices) /\ Say(<<f>>)
      BY <1>9, <2>1, <2>3, FrameTyped DEF HandleRest
    <3>2. f # Frame("91", h)
      BY <1>9, <2>2, FrameTyped DEF HandleRest
    <3>3. \A j \in DOMAIN <<f>> : <<f>>[j] # Frame("91", h)
      BY <3>2
    <3> QED
      BY <1>3, <2>2, <3>1, <3>3
  <2>4. CASE f.cmd \notin {"90", "91", "other"}
    BY <1>2, <1>9, <2>1, <2>4 DEF HandleRest
  <2> QED
    BY <2>3, <2>4
<1> QED
  BY <1>4, <1>5, <1>6, <1>7, <1>8, <1>9 DEF Gprses, Timer

LEMMA LinkBelieved ==
  ASSUME Typed, MonitoringTypeOK, Believed, Break \/ Relink
  PROVE  Believed'
<1>0. UNCHANGED entry /\ UNCHANGED online
  BY DEF Break, Relink, vars, maps, dataServer
<1>1. notices \in Seq(Notices)
  BY DEF MonitoringTypeOK, Notices
<1> SUFFICES ASSUME NEW h \in Gprs, h \notin online, h \notin unsaid' PROVE Doubted(h)'
  BY <1>0 DEF Believed
<1>2. CASE Break
  <2>1. PICK m \in 0 .. Len(notices) :
           /\ notices' = SubSeq(notices, 1, m)
           /\ unsaid' = unsaid \union
                {notices[i].gprs : i \in {j \in m + 1 .. Len(notices) :
                                             notices[j].cmd = "EE08"}}
    BY <1>2 DEF Break
  <2>2. /\ Len(notices) \in Nat /\ DOMAIN notices = 1 .. Len(notices)
        /\ DOMAIN notices' = 1 .. m /\ \A j \in 1 .. m : notices'[j] = notices[j]
    BY <1>1, <2>1
  <2>3. Doubted(h)
    BY <2>1 DEF Believed
  <2>4. CASE ~ entry[h].f91 /\ Silent(0, h)
    BY <1>0, <2>2, <2>4 DEF Doubted, Silent, Frame
  <2>5. ASSUME NEW i \in DOMAIN notices, notices[i] = Frame("EE08", h), Silent(i, h)
        PROVE  Doubted(h)'
    <3>1. i <= m
      BY <2>1, <2>2, <2>5 DEF Frame
    <3> QED
      BY <2>2, <2>5, <3>1 DEF Doubted, Silent, Frame
  <2> QED
    BY <2>3, <2>4, <2>5 DEF Doubted
<1>3. CASE Relink
  <2>1. PICK order \in [1 .. Cardinality(online) -> online] :
           notices' = notices \o [i \in DOMAIN order |-> Frame("91", order[i])]
    BY <1>3 DEF Relink
  <2> DEFINE s == [i \in DOMAIN order |-> Frame("91", order[i])]
  <2>2. Cardinality(online) \in Nat
    BY MonitoringAssumption, FS_Subset, FS_CardinalityType DEF MonitoringTypeOK
  <2>3. \A i \in 1 .. Cardinality(online) : Frame("91", order[i]) \in Notices
    BY <2>1, FrameTyped DEF MonitoringTypeOK
  <2>4. DOMAIN order = 1 .. Cardinality(online)
    BY <2>1
  <2>5. s \in Seq(Notices)
    BY <2>2, <2>3, <2>4
  <2>6. \A j \in DOMAIN s : s[j] # Frame("91", h)
    BY <2>1, <2>4 DEF Frame
  <2>7. Doubted(h)
    BY <1>3 DEF Believed, Relink
  <2>8. notices' = notices \o s
    BY <2>1
  <2> HIDE DEF s
  <2> QED
    BY <1>0, <1>1, <2>5, <2>6, <2>7, <2>8, SaidOn
<1> QED
  BY <1>2, <1>3

LEMMA StepBelieved ==
  Typed /\ MonitoringTypeOK /\ Kept /\ Believed /\ [MonitoringNext]_all => Kept' /\ Believed'
<1> SUFFICES ASSUME Typed, MonitoringTypeOK, Kept, Believed, [MonitoringNext]_all
             PROVE  Kept' /\ Believed'
  OBVIOUS
<1>1. [Step]_vars
  BY ServerStep, MonitoringAssumption DEF Step
<1>2. /\ Kept'
      /\ \A g \in Gprs : entry'[g].f91 => entry[g].f91 \/ Receive91(g)
  BY <1>1, EntryStep DEF Kept
<1>3. CASE UNCHANGED all
  BY <1>2, <1>3 DEF all, vars, maps, dataServer, Believed, Doubted, Silent, Frame
<1>4. CASE Clients \/ ReceiveRest
  <2>1. UNCHANGED <<notices, online, unsaid>>
    BY <1>4 DEF Clients, ReceiveRest, dataServer
  <2>2. rdPc' = rdPc \/ rdPc' \in {"idle", "dead"}
    BY <1>4 DEF Clients, Other, Ask, Stop, Answer, PackSession, Accept, ReadFrame, ReadError,
                Written, WriteError, Close, PackHandle, Handle90, HandleF3, HandleOther,
                PackAdd, AddClient, TellClient, PackRemove, RemoveClient, PackHeartBeat,
                HeartBeat, HeartBeatNull, Die, StartMonitoring, JoinMonitoring, StopForced,
                StopOnly, StopOther, QueueStop, ReceiveRest, QueueReject, PackBroadcastAll,
                BroadcastAll, BroadcastNull, reader
  <2>3. \A g \in Gprs : ~ Receive91(g)
    BY <2>2 DEF Receive91
  <2> QED
    BY <1>2, <2>1, <2>3 DEF Believed, Doubted, Silent, Frame
<1>5. CASE Receive
  <2>1. UNCHANGED <<online, unsaid>>
    BY <1>5 DEF Receive, dataServer
  <2> QED
    BY <1>2, <1>5, <2>1, ReadOn DEF Believed
<1>6. Gprses \/ Timer \/ Handle \/ HandleRest \/ Break \/ Relink => Believed'
  BY SaysBelieved, LinkBelieved
<1> QED
  BY <1>2, <1>3, <1>4, <1>5, <1>6 DEF MonitoringNext

-----------------------------------------------------------------------------
(* The theorems.                                                           *)

\* Every variable of the composition keeps its type, whatever is under way.
THEOREM MonitoringTypeCorrect == MonitoringSpec => []MonitoringTypeOK
<1>1. MonitoringInit => Typed /\ MonitoringTypeOK
  BY MonitoringInitTyped, InitTyped DEF MonitoringInit
<1> QED
  BY <1>1, MonitoringTypes, PTL DEF MonitoringSpec

\* The TransmitServer that receives what DataServer sends is one that may receive
\* anything: all that is proved of the latter holds of the composition.
THEOREM ServerComposed == MonitoringSpec => PackSpec
<1>1. MonitoringInit => Init /\ Typed /\ MonitoringTypeOK
  BY MonitoringInitTyped, InitTyped DEF MonitoringInit
<1>2. MonitoringTypeOK /\ [MonitoringNext]_all => [PackNext]_vars
  BY ServerStep
<1> QED
  BY <1>1, <1>2, MonitoringTypes, PTL DEF MonitoringSpec, PackSpec

\* When TransmitServer has read all that was sent of a gprs, it believes in it only
\* if the gprs is connected, unless the EE08 frame was lost with a link or the gprs
\* left while a 93 frame was answered with its 91 frame.
THEOREM BeliefsTrue == MonitoringSpec => []OnlineAsTold
<1>1. MonitoringInit => Typed /\ MonitoringTypeOK /\ Kept /\ Believed
  <2>1. MonitoringInit => Kept /\ Believed
    BY DEF MonitoringInit, Init, NoEntry, Kept, Believed, Doubted, Silent
  <2> QED
    BY <2>1, MonitoringInitTyped, InitTyped DEF MonitoringInit
<1>2. Believed => OnlineAsTold
  BY DEF Believed, Doubted, OnlineAsTold, Frame
<1> QED
  BY <1>1, <1>2, MonitoringTypes, StepBelieved, PTL DEF MonitoringSpec

\* What the clients are told stays right when DataServer and the link are there, with
\* lost frames and links: they have the last 91 frame of each gprs, a monitor the
\* 90 frame as it is kept, and a broadcast drops no client that has not left.
THEOREM ClientsToldAcrossTheLink ==
  MonitoringSpec => [](ClientsUpToDate /\ MonitorsUpToDate) /\ MonitorsStay
<1>1. MonitoringSpec => [](ClientsUpToDate) /\ [](MonitorsUpToDate) /\ MonitorsStay
  BY ServerComposed, EveryClientTold, EveryMonitorAnswered, NoMonitorDropped
<1> QED
  BY <1>1, PTL

\* With room for all clients, no thread of TransmitServer waits for ever for a mutex
\* and every connected client is found that has not met another session with its
\* address, whatever DataServer and the link do.
THEOREM ClientsFoundAcrossTheLink ==
  ASSUME Room
  PROVE  MonitoringSpec => [](NoThreadStuck /\ ConnectedSaved)
<1>1. MonitoringSpec => [](NoThreadStuck) /\ [](ConnectedSaved)
  BY ServerComposed, NoReaderStuck, ClientsFound
<1> QED
  BY <1>1, PTL
=============================================================================
