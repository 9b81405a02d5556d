---------------------------- MODULE PackRegistry ----------------------------
(***************************************************************************)
(* The DataServer of the release in pack/: Registry, except that the link  *)
(* thread knows 92 and 93 frames only.  It hands no other frame to a gprs, *)
(* so that m_gprsSession never gets an entry without a session.            *)
(*                                                                         *)
(* GuGongServer is that program without the link: tsdb_server::start does  *)
(* not start the link thread, so nobody monitors a gprs and nobody is told *)
(* of one.  Which of the two programs runs is chosen at the start.         *)
(***************************************************************************)
EXTENDS Registry

\* A session's frames and the way it ends.
PackRead(s) ==
    \/ Accept(s) \/ ReadOther(s)
    \/ \E a \in AddressesOf[s] : Read90(s, a) \/ Read91(s, a)

PackClose(s) == ReadError(s) \/ WriteError(s)

\* PushToQueue.
PackPush == Relay \/ (\E b \in BOOLEAN : Store(b)) \/ Forward

\* AddGprsConnection and RemoveGprsConnection with WriteToClientQueue.
PackServer == Register \/ Wake \/ QueueFrame \/ Erase \/ SayEnd

PackTimer == Expire \/ HandleMessageTimeOut

\* The link thread sets up the link, its writer thread begins with the registry.
PackConnection == LinkLost \/ Clear \/ LinkValid
PackSnapshot == Snapshot

PackHandle ==
    Stop \/ Ask \/ Get91 \/ Tell91 \/ \E g \in Asked : Get92(g) \/ Get93(g)

PackPut == PutToMessageQueue

PackNext ==
    \/ PackPush \/ PackServer \/ (\E s \in Sessions : PackRead(s) \/ PackClose(s))
    \/ PackTimer
    \/ PackConnection \/ PackSnapshot \/ PackHandle \/ PackPut

-----------------------------------------------------------------------------
(* GuGongServer.                                                           *)

GuGongRead(s) ==
    \/ Accept(s) \/ ReadOther(s)
    \/ \E a \in AddressesOf[s] : Read90(s, a) \/ Read91(s, a)

GuGongClose(s) == ReadError(s) \/ WriteError(s)

\* PushToQueue: m_isTransmit was never set, m_isClientValid never either.
GuGongPush == Relay \/ Forward

\* AddGprsConnection and RemoveGprsConnection.
GuGongServer == Register \/ Wake \/ Erase \/ SayEnd

GuGongNext == GuGongPush \/ GuGongServer
              \/ \E s \in Sessions : GuGongRead(s) \/ GuGongClose(s)

-----------------------------------------------------------------------------
\* tsdb_server::start of the two programs.
ReleaseInit == StartAt("clear") \/ StartAt("none")

ReleaseNext ==
    /\ ~ dead
    /\ \/ linkPc # "none" /\ PackNext
       \/ linkPc = "none" /\ GuGongNext

ReleaseSpec == ReleaseInit /\ [][ReleaseNext]_vars
=============================================================================
