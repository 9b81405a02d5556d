------------------------------ MODULE MCFrames ------------------------------
(* The small parts that share no state, checked in one run: a behaviour is *)
(* one of FrameStream, of MessageClient or of Config.                      *)
EXTENDS FrameStream, MessageClient, Config, TLC

VARIABLE part

MCAddresses == {<<16, 0, 126, 126, 0, 0, 1>>, <<255, 128, 127, 9, 160, 0, 254>>}
MCMac == <<0, 200, 41, 126, 255, 16, 10>>
MCTimes == {[year |-> 2015, month |-> 12, day |-> 31,
             hour |-> 23, minute |-> 59, second |-> 59]}

MCInit ==
    /\ Init /\ SmsInit /\ ConfigInit
    /\ \/ part = "frames"
       \/ program = "DataServer" /\ part \in {"sms", "config"}

FrameStep ==
    /\ part = "frames" /\ (Reply \/ Tell \/ Read)
    /\ UNCHANGED <<part, smsVars, configVars>>

SmsStep ==
    /\ part = "sms" /\ SmsNext
    /\ UNCHANGED <<part, vars, configVars>>

\* A line is analysed by itself: one is enough.
ConfigStep ==
    /\ part = "config" /\ line = << >> /\ ReadLine
    /\ UNCHANGED <<part, vars, smsVars>>

MCNext == FrameStep \/ SmsStep \/ ConfigStep

MCSpec == MCInit /\ [][MCNext]_<<part, vars, smsVars, configVars>>
=============================================================================
