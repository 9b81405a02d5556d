---------------------------- MODULE FrameStream ----------------------------
(***************************************************************************)
(* One program writes frames to a connection, another reads them: the      *)
(* eighteen bytes of the header, the test of the lead code, then           *)
(* tail_length bytes, in as many reads as it takes.  The reader is the one *)
(* of every connection (handle_read, HandleClientConnection,               *)
(* HandleReceiveFromServer).  All that it knows of a frame is in its       *)
(* bytes; the state keeps what the writer meant next to them.              *)
(***************************************************************************)
EXTENDS Frame

CONSTANTS
    Addresses,  \* addresses of gprs and clients, seven bytes each
    Times,      \* what the clock says
    MaxFrames   \* bound: frames written

ASSUME FrameAssumption ==
    /\ Mac \in Seq(Byte) /\ Len(Mac) = 7 /\ MaxFrames \in Nat
    /\ \A a \in Addresses : a \in Seq(Byte) /\ Len(a) = 7
    /\ \A t \in Times :
          /\ t.year \in Int /\ t.month \in 1 .. 12 /\ t.day \in 1 .. 31
          /\ t.hour \in 0 .. 23 /\ t.minute \in 0 .. 59 /\ t.second \in 0 .. 60

VARIABLES
    program,  \* who writes
    stream,   \* the bytes under way
    meant,    \* history: the messages written
    buffer,   \* header_ of the frame that is read, as far as it is filled
    broken,   \* the reader met a wrong lead code and left
    got       \* history: the frames read

vars == <<program, stream, meant, buffer, broken, got>>

Programs == {"DataServer", "pack/DataServer", "GuGongServer",
             "TransmitServer", "pack/TransmitServer"}

Init ==
    /\ program \in Programs
    /\ stream = << >> /\ meant = << >>
    /\ buffer = << >> /\ broken = FALSE /\ got = << >>

\* The frames of gprs and clients (external, like the simulators'; no program
\* looks at their check sum).
Requests ==
    {Build(LeadCode, Mac, a, <<c, 6>>) :
        a \in Addresses, c \in {144, 137, 145, 243, 244, 150}}

Answers(f, t) ==
    CASE program = "DataServer" -> DataServerAnswers(f, t)
      [] program = "pack/DataServer" -> PackDataServerAnswers(f, t)
      [] program = "GuGongServer" -> GuGongServerAnswers(f, t)
      [] program = "TransmitServer" -> TransmitServerAnswers(f, t)
      [] program = "pack/TransmitServer" -> PackTransmitServerAnswers(f, t)

Tells(a, c) ==
    CASE program = "DataServer" -> DataServerTells(a)
      [] program = "pack/DataServer" -> PackDataServerTells(a)
      [] program = "GuGongServer" -> {}
      [] program = "TransmitServer" ->
            TransmitServerJoins(a) \union TransmitServerStops(a, c)
      [] program = "pack/TransmitServer" ->
            PackTransmitServerJoins(a) \union PackTransmitServerStops(a, c)
                \union PackTransmitServerCloses(a)

Writes(messages) ==
    /\ Len(meant) < MaxFrames
    /\ \E m \in messages : stream' = stream \o m.bytes /\ meant' = Append(meant, m)
    /\ UNCHANGED <<program, buffer, broken, got>>

Reply == \E f \in Requests, t \in Times : Writes(Answers(f, t))
Tell == \E a, c \in Addresses : Writes(Tells(a, c))

\* What is missing of the header, or of the whole frame.
Missing ==
    (IF Len(buffer) < HLEN THEN HLEN ELSE HLEN + TailLength(buffer)) - Len(buffer)

\* A read returns one byte, all that is asked for, or all there is.
Read ==
    /\ ~ broken /\ stream # << >>
    /\ \E k \in {1, Missing, Len(stream)} :
          /\ k <= Missing /\ k <= Len(stream)
          /\ LET read == buffer \o SubSeq(stream, 1, k) IN
             /\ stream' = SubSeq(stream, k + 1, Len(stream))
             /\ broken' = (Len(read) = HLEN /\ Lead(read) # LeadCode)
             /\ IF Len(read) > HLEN /\ k = Missing
                THEN buffer' = << >> /\ got' = Append(got, read)
                ELSE buffer' = read /\ UNCHANGED got
    /\ UNCHANGED <<program, meant>>

Next == Reply \/ Tell \/ Read

Spec == Init /\ [][Next]_vars

-----------------------------------------------------------------------------
\* The frames are read one by one as they were written, however the bytes come,
\* and the reader takes from each the addresses and the command the writer
\* meant, in its own form: strings it can look up in its maps.
Understood ==
    /\ ~ broken
    /\ Len(got) <= Len(meant)
    /\ \A i \in DOMAIN got :
          /\ got[i] = meant[i].bytes /\ Length(got[i]) = Len(got[i])
          /\ ByteToHex(Dst(got[i])) = ByteToHex(meant[i].to)
          /\ ByteToHex(Src(got[i])) = ByteToHex(meant[i].about)
          /\ Cmd(got[i]) = meant[i].cmd
    /\ stream = << >> /\ buffer = << >> => Len(got) = Len(meant)

\* The Dow polynomial x^8 + x^5 + x^4 + 1, lowest bit first, a byte at a time.
Shift == [x \in Byte |-> IF x % 2 = 1 THEN XorOf[x \div 2][140] ELSE x \div 2]
Shift8 == [x \in Byte |->
    Shift[Shift[Shift[Shift[Shift[Shift[Shift[Shift[x]]]]]]]]]

\* The table is the one of the polynomial; TLC evaluates this for every byte.
ASSUME TableAssumption == \A x \in Byte : CrcTable[x + 1] = Shift8[x]

PolynomialStep == [sum \in Byte |-> [b \in Byte |-> Shift8[XorOf[sum][b]]]]
Polynomial(bytes) == OverBytes(PolynomialStep, bytes)

\* Every frame written ends in the check sum gprs and clients expect: the
\* polynomial of all between the lead code and itself, byte by byte of the table.
Checked ==
    meant # << >> /\ got = << >> /\ buffer = << >> =>
        LET f == Last(meant).bytes IN
            Last(f) = Polynomial(SubSeq(f, 3, Len(f) - 1))
=============================================================================
