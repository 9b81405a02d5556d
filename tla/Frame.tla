-------------------------------- MODULE Frame --------------------------------
(***************************************************************************)
(* The frames of the protocol, byte by byte: class data_frame of the       *)
(* programs, with the string helpers of UTIL.cpp it uses.  A frame is      *)
(*                                                                         *)
(*     lead (2)  dst (7)  src (7)  length (2)  cmd and data  crc (1)       *)
(*                                                                         *)
(* and is represented by the length() bytes of header_ that are written.   *)
(* Only the constructors that some program calls are given.                *)
(***************************************************************************)
EXTENDS Integers, Sequences, SequencesExt

CONSTANT Mac  \* data_frame::mac, the seven bytes GetSysMac finds (external)

HLEN == 18
Byte == 0 .. 255
LeadCode == <<126, 126>>
NoAddress == [i \in 1 .. 7 |-> 0]

\* Accessors: what the programs read from a frame.
Lead(f) == SubSeq(f, 1, 2)
Dst(f) == SubSeq(f, 3, 9)
Src(f) == SubSeq(f, 10, 16)
Cmd(f) == f[19]
DataLength(f) == f[17] * 256 + f[18]
Length(f) == (DataLength(f) + HLEN + 1) % 65536

TailLengthNoCrc(f) == DataLength(f)  \* mutant: the crc byte is not counted
TailLength(f) == (DataLength(f) + 1) % 65536

-----------------------------------------------------------------------------
(* UTIL: addresses are hexadecimal strings, the keys of every map.         *)

Digits == <<"0", "1", "2", "3", "4", "5", "6", "7", "8", "9",
            "A", "B", "C", "D", "E", "F">>

ByteToHex(bytes) ==
    [i \in 1 .. 2 * Len(bytes) |->
        LET b == bytes[(i + 1) \div 2] IN
            Digits[1 + IF i % 2 = 1 THEN b \div 16 ELSE b % 16]]

\* A digit read back; a letter is 'A' - 10 above its value.
Value == [ch \in ToSet(Digits) |-> CHOOSE v \in 0 .. 15 : Digits[v + 1] = ch]

\* An odd number of digits or another character gives the empty string.
HexStringToByteString(hex) ==
    IF Len(hex) % 2 = 1 \/ ~ ToSet(hex) \subseteq ToSet(Digits) THEN << >>
    ELSE [i \in 1 .. Len(hex) \div 2 |->
             Value[hex[2 * i - 1]] * 16 + Value[hex[2 * i]]]

\* The bytes of an address string; nothing is copied from the empty one.
AddressBytes(hex) ==
    LET bytes == HexStringToByteString(hex) IN
        IF bytes = << >> THEN NoAddress ELSE bytes

-----------------------------------------------------------------------------
(* Check sums                                                              *)

\* x ^ y, bit by bit; w is the weight of a bit.
XorOf == [x \in Byte |-> [y \in Byte |->
    LET differ(w) == w * ((x \div w + y \div w) % 2)
    IN differ(1) + differ(2) + differ(4) + differ(8)
        + differ(16) + differ(32) + differ(64) + differ(128)]]

CrcTable == <<
    0, 94, 188, 226, 97, 63, 221, 131, 194, 156, 126, 32, 163, 253, 31, 65,
    157, 195, 33, 127, 252, 162, 64, 30, 95, 1, 227, 189, 62, 96, 130, 220,
    35, 125, 159, 193, 66, 28, 254, 160, 225, 191, 93, 3, 128, 222, 60, 98,
    190, 224, 2, 92, 223, 129, 99, 61, 124, 34, 192, 158, 29, 67, 161, 255,
    70, 24, 250, 164, 39, 121, 155, 197, 132, 218, 56, 102, 229, 187, 89, 7,
    219, 133, 103, 57, 186, 228, 6, 88, 25, 71, 165, 251, 120, 38, 196, 154,
    101, 59, 217, 135, 4, 90, 184, 230, 167, 249, 27, 69, 198, 152, 122, 36,
    248, 166, 68, 26, 153, 199, 37, 123, 58, 100, 134, 216, 91, 5, 231, 185,
    140, 210, 48, 110, 237, 179, 81, 15, 78, 16, 242, 172, 47, 113, 147, 205,
    17, 79, 173, 243, 112, 46, 204, 146, 211, 141, 111, 49, 178, 236, 14, 80,
    175, 241, 19, 77, 206, 144, 114, 44, 109, 51, 209, 143, 12, 82, 176, 238,
    50, 108, 142, 208, 83, 13, 239, 177, 240, 174, 76, 18, 145, 207, 45, 115,
    202, 148, 118, 40, 171, 245, 23, 73, 8, 86, 180, 234, 105, 55, 213, 139,
    87, 9, 235, 181, 54, 104, 138, 212, 149, 203, 41, 119, 244, 170, 72, 22,
    233, 183, 85, 11, 136, 214, 52, 106, 43, 117, 151, 201, 74, 20, 246, 168,
    116, 42, 200, 150, 21, 75, 169, 247, 182, 232, 10, 84, 215, 137, 107, 53
>>

\* One turn of the loop, and the loop over some bytes.
CrcStep == [sum \in Byte |-> [b \in Byte |-> CrcTable[XorOf[sum][b] + 1]]]
OverBytes(step, bytes) == FoldLeft(LAMBDA sum, b : step[sum][b], 0, bytes)

CrcOfAll(lead, body) == OverBytes(CrcStep, lead \o body)  \* mutant: the lead code, too

\* crc of everything between the lead code and itself.
Crc(lead, body) == OverBytes(CrcStep, body)

\* char is signed where the programs are built.
Signed(b) == IF b < 128 THEN b ELSE b - 256

\* Two bytes of a weighted sum of an address, modulo 2^16.
CheckCode(mac) ==
    LET s == 3 * Signed(mac[1]) + 6 * Signed(mac[2]) + 9 * Signed(mac[4])
                + 7 * Signed(mac[5]) + 4 * Signed(mac[6]) + 10 * Signed(mac[7])
    IN <<(s % 65536) \div 256, s % 256>>

-----------------------------------------------------------------------------
(* Constructors                                                            *)

Build(lead, dst, src, payload) ==
    LET body == dst \o src \o <<0, Len(payload)>> \o payload
    IN lead \o body \o <<Crc(lead, body)>>

\* A reply goes back to the source of the frame, from the mac of the host.
Answer(f, payload) == Build(Lead(f), Src(f), Mac, payload)

\* A frame about the gprs with address hex, for whom it may concern.
About(hex, payload) == Build(LeadCode, NoAddress, AddressBytes(hex), payload)

Construct90Response(f) == Answer(f, <<144>> \o CheckCode(Mac))
Construct91Response(f) == Answer(f, <<145, 0>>)
Construct96Response(f, result) == Answer(f, <<150, result>>)
ConstructF4Response(f, result) == Answer(f, <<244, result>>)
Construct93Response(hex, result) == About(hex, <<147, result>>)
ConstructEEResponse(hex, result) == About(hex, <<238, result>>)

\* The date in the form of struct tm; t is the local time (external).
ConstructF3Response(f, t) ==
    Answer(f, <<243, (t.year - 1900) % 256, t.month - 1, t.day,
                t.hour, t.minute, t.second>>)

\* GuGongServer counts years from 2014, and months from 1.
GuGongF3Response(f, t) ==
    Answer(f, <<243, (t.year - 2014) % 256, t.month, t.day,
                t.hour, t.minute, t.second>>)

Construct92Frame(src, dst, result) ==
    Build(LeadCode, AddressBytes(dst), AddressBytes(src), <<146, result>>)

-----------------------------------------------------------------------------
(* What each program writes, with what it means by it: the answers to a    *)
(* frame f, and what it tells of the gprs at a.                            *)

Message(to, about, cmd, bytes) ==
    [to |-> to, about |-> about, cmd |-> cmd, bytes |-> bytes]

ToSender(f, cmd, bytes) == {Message(Src(f), Mac, cmd, bytes)}

DataServerAnswers(f, t) ==
    CASE Cmd(f) \in {144, 137} -> ToSender(f, 144, Construct90Response(f))
      [] Cmd(f) = 145 -> ToSender(f, 145, Construct91Response(f))
      [] Cmd(f) = 243 -> ToSender(f, 243, ConstructF3Response(f, t))
      [] Cmd(f) = 244 -> ToSender(f, 244, ConstructF4Response(f, 0))
      [] Cmd(f) = 150 -> ToSender(f, 150, Construct96Response(f, 0))
      [] OTHER -> {}

\* To TransmitServer, for all the clients that monitor a.
DataServerTells(a) ==
    {Message(NoAddress, a, 147, Construct93Response(ByteToHex(a), r)) : r \in 0 .. 4}
        \union
    {Message(NoAddress, a, 238, ConstructEEResponse(ByteToHex(a), r)) : r \in {8, 9}}

\* The class has a copy in each program.  pack/DataServer and GuGongServer know
\* neither F4 nor 96; GuGongServer has no TransmitServer to tell anything.
PackLogin(f) ==
    IF Cmd(f) = 145 THEN ToSender(f, 145, Construct91Response(f))
    ELSE ToSender(f, 144, Construct90Response(f))
PackTime(f, t) == ToSender(f, 243, ConstructF3Response(f, t))
PackDataServerTells(a) == DataServerTells(a)

GuGongLogin(f) == PackLogin(f)
GuGongTime(f, t) == ToSender(f, 243, GuGongF3Response(f, t))

PackDataServerAnswers(f, t) ==
    CASE Cmd(f) \in {144, 137, 145} -> PackLogin(f)
      [] Cmd(f) = 243 -> PackTime(f, t)
      [] OTHER -> {}

GuGongServerAnswers(f, t) ==
    CASE Cmd(f) \in {144, 137, 145} -> GuGongLogin(f)
      [] Cmd(f) = 243 -> GuGongTime(f, t)
      [] OTHER -> {}

\* TransmitServer answers its clients ...
TransmitServerLogin(f) == ToSender(f, 144, Construct90Response(f))
TransmitServerTime(f, t) == ToSender(f, 243, ConstructF3Response(f, t))

TransmitServerAnswers(f, t) ==
    CASE Cmd(f) = 144 -> TransmitServerLogin(f)
      [] Cmd(f) = 243 -> TransmitServerTime(f, t)
      [] OTHER -> {}

\* ... tells one that joins that a is monitored already, ...
TransmitServerJoins(a) ==
    {Message(NoAddress, a, 147, Construct93Response(ByteToHex(a), 0))}

\* ... and sends 92 frames to a itself, by way of DataServer, and to the client at
\* c that stops.
TransmitServerStops(a, c) ==
    {Message(a, NoAddress, 146, Construct92Frame(<< >>, ByteToHex(a), r)) : r \in {0, 1}}
        \union
    {Message(c, a, 146, Construct92Frame(ByteToHex(a), ByteToHex(c), r)) : r \in {0, 1}}

\* So does the one under pack/, which has a 92 frame about a, too, that names no
\* destination.
PackTransmitServerLogin(f) == TransmitServerLogin(f)
PackTransmitServerTime(f, t) == TransmitServerTime(f, t)
PackTransmitServerJoins(a) == TransmitServerJoins(a)
PackTransmitServerStops(a, c) == TransmitServerStops(a, c)

Construct92Response(hex, result) == About(hex, <<146, result>>)
PackTransmitServerCloses(a) ==
    {Message(NoAddress, a, 146, Construct92Response(ByteToHex(a), 1))}

PackTransmitServerAnswers(f, t) ==
    CASE Cmd(f) = 144 -> PackTransmitServerLogin(f)
      [] Cmd(f) = 243 -> PackTransmitServerTime(f, t)
      [] OTHER -> {}
=============================================================================
