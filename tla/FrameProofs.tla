---------------------------- MODULE FrameProofs ----------------------------
(***************************************************************************)
(* What is written to a connection is read as it was meant, for all        *)
(* addresses, times and numbers of frames, however the bytes are cut.      *)
(***************************************************************************)
EXTENDS FrameStream, SequenceTheorems, TLAPS

-----------------------------------------------------------------------------
(* Check sums.  A fold over bytes stays a fold here: what is proved of it  *)
(* is that both tables give the same.                                      *)

LEMMA XorOfBytes ==
  ASSUME NEW x \in Byte, NEW y \in Byte
  PROVE  XorOf[x][y] \in Byte
<1> DEFINE bit(w) == (x \div w + y \div w) % 2
<1>1. XorOf[x][y] = 1 * bit(1) + 2 * bit(2) + 4 * bit(4) + 8 * bit(8)
                    + 16 * bit(16) + 32 * bit(32) + 64 * bit(64) + 128 * bit(128)
  BY DEF XorOf
<1>2. \A w \in 1 .. 128 : bit(w) \in 0 .. 1
  <2> SUFFICES ASSUME NEW w \in 1 .. 128 PROVE bit(w) \in 0 .. 1
    OBVIOUS
  <2>1. x \div w \in Int /\ y \div w \in Int
    BY DEF Byte
  <2> QED
    BY <2>1
<1>3. /\ bit(1) \in 0 .. 1 /\ bit(2) \in 0 .. 1 /\ bit(4) \in 0 .. 1 /\ bit(8) \in 0 .. 1
      /\ bit(16) \in 0 .. 1 /\ bit(32) \in 0 .. 1 /\ bit(64) \in 0 .. 1
      /\ bit(128) \in 0 .. 1
  BY <1>2
<1> HIDE DEF bit
<1> QED
  BY <1>1, <1>3 DEF Byte

LEMMA StepOfPolynomial == CrcStep = PolynomialStep
  BY TableAssumption, XorOfBytes DEF CrcStep, PolynomialStep

-----------------------------------------------------------------------------
(* Addresses as strings.                                                   *)

LEMMA DigitValues ==
  ASSUME NEW v \in 0 .. 15
  PROVE  Digits[v + 1] \in ToSet(Digits) /\ Value[Digits[v + 1]] = v
<1>1. DOMAIN Digits = 1 .. 16
  BY DEF Digits
<1>2. \A i, j \in 1 .. 16 : Digits[i] = Digits[j] => i = j
  BY DEF Digits
<1>3. v + 1 \in 1 .. 16
  OBVIOUS
<1>4. Digits[v + 1] \in ToSet(Digits)
  BY <1>1, <1>3 DEF ToSet
<1>5. Value[Digits[v + 1]] = CHOOSE u \in 0 .. 15 : Digits[u + 1] = Digits[v + 1]
  BY <1>4 DEF Value
<1>6. \A u \in 0 .. 15 : Digits[u + 1] = Digits[v + 1] => u = v
  BY <1>2, <1>3
<1> QED
  BY <1>4, <1>5, <1>6

\* The bytes of the string of an address are the address again.
LEMMA AddressRead ==
  ASSUME NEW a \in Seq(Byte), Len(a) = 7
  PROVE  AddressBytes(ByteToHex(a)) = a
<1> DEFINE hex == ByteToHex(a)
<1>1. hex = [i \in 1 .. 14 |->
               Digits[1 + IF i % 2 = 1 THEN a[(i + 1) \div 2] \div 16 ELSE a[(i + 1) \div 2] % 16]]
  BY DEF ByteToHex
<1>2. Len(hex) = 14 /\ DOMAIN hex = 1 .. 14
  BY <1>1
<1>3. \A i \in 1 .. 7 : a[i] \in Byte /\ a[i] \div 16 \in 0 .. 15 /\ a[i] % 16 \in 0 .. 15
                        /\ (a[i] \div 16) * 16 + (a[i] % 16) = a[i]
  <2> SUFFICES ASSUME NEW i \in 1 .. 7
               PROVE  a[i] \in Byte /\ a[i] \div 16 \in 0 .. 15 /\ a[i] % 16 \in 0 .. 15
                      /\ (a[i] \div 16) * 16 + (a[i] % 16) = a[i]
    OBVIOUS
  <2>1. a[i] \in Byte
    <3>1. i \in 1 .. Len(a)
      OBVIOUS
    <3> QED
      BY <3>1, ElementOfSeq
  <2>2. \A b \in 0 .. 255 : b \div 16 \in 0 .. 15 /\ b % 16 \in 0 .. 15
                           /\ (b \div 16) * 16 + (b % 16) = b
    OBVIOUS
  <2> QED
    BY <2>1, <2>2 DEF Byte
<1>4. \A i \in 1 .. 7 : hex[2 * i - 1] = Digits[a[i] \div 16 + 1]
                        /\ hex[2 * i] = Digits[(a[i] % 16) + 1]
  <2> SUFFICES ASSUME NEW i \in 1 .. 7
               PROVE  hex[2 * i - 1] = Digits[a[i] \div 16 + 1]
                      /\ hex[2 * i] = Digits[(a[i] % 16) + 1]
    OBVIOUS
  <2>1. /\ 2 * i - 1 \in 1 .. 14 /\ (2 * i - 1) % 2 = 1 /\ ((2 * i - 1) + 1) \div 2 = i
        /\ 2 * i \in 1 .. 14 /\ (2 * i) % 2 = 0 /\ (2 * i + 1) \div 2 = i
    OBVIOUS
  <2>2. hex[2 * i - 1] = Digits[1 + a[i] \div 16] /\ hex[2 * i] = Digits[1 + (a[i] % 16)]
    BY <1>1, <2>1
  <2>3. 1 + a[i] \div 16 = a[i] \div 16 + 1 /\ 1 + (a[i] % 16) = (a[i] % 16) + 1
    <3>1. \A n \in 0 .. 15 : 1 + n = n + 1
      OBVIOUS
    <3>2. a[i] \div 16 \in 0 .. 15 /\ a[i] % 16 \in 0 .. 15
      BY <1>3
    <3> QED
      BY <3>1, <3>2
  <2> QED
    BY <2>2, <2>3
<1>5. ToSet(hex) \subseteq ToSet(Digits)
  <2> SUFFICES ASSUME NEW i \in 1 .. 14 PROVE hex[i] \in ToSet(Digits)
    BY <1>2 DEF ToSet
  <2>1. (i + 1) \div 2 \in 1 .. 7 /\ (i = 2 * ((i + 1) \div 2) \/ i = 2 * ((i + 1) \div 2) - 1)
    OBVIOUS
  <2> DEFINE j == (i + 1) \div 2
  <2>2. a[j] \div 16 \in 0 .. 15 /\ a[j] % 16 \in 0 .. 15
    BY <1>3, <2>1
  <2>3. hex[2 * j - 1] = Digits[a[j] \div 16 + 1] /\ hex[2 * j] = Digits[(a[j] % 16) + 1]
    BY <1>4, <2>1
  <2> QED
    BY <2>1, <2>2, <2>3, DigitValues
<1> HIDE DEF hex
<1>6. HexStringToByteString(hex) =
        [i \in 1 .. 7 |-> Value[hex[2 * i - 1]] * 16 + Value[hex[2 * i]]]
  <2>1. ~ (Len(hex) % 2 = 1) /\ Len(hex) \div 2 = 7
    BY <1>2
  <2> QED
    BY <1>5, <2>1 DEF HexStringToByteString
<1>7. \A i \in 1 .. 7 : Value[hex[2 * i - 1]] * 16 + Value[hex[2 * i]] = a[i]
  <2> SUFFICES ASSUME NEW i \in 1 .. 7
               PROVE  Value[hex[2 * i - 1]] * 16 + Value[hex[2 * i]] = a[i]
    OBVIOUS
  <2>1. Value[hex[2 * i - 1]] = a[i] \div 16 /\ Value[hex[2 * i]] = a[i] % 16
    BY <1>3, <1>4, DigitValues
  <2> QED
    BY <1>3, <2>1
<1>8. HexStringToByteString(hex) = a
  <2>1. a = [i \in 1 .. 7 |-> a[i]]
    OBVIOUS
  <2> QED
    BY <1>6, <1>7, <2>1
<1>9. a # << >>
  OBVIOUS
<1> QED
  BY <1>8, <1>9 DEF AddressBytes, hex

LEMMA NoAddressRead == AddressBytes(<< >>) = NoAddress
<1>1. HexStringToByteString(<< >>) = << >>
  <2>1. Len(<< >>) = 0 /\ Len(<< >>) \div 2 = 0 /\ ~ (Len(<< >>) % 2 = 1)
    OBVIOUS
  <2>2. ToSet(<< >>) \subseteq ToSet(Digits)
    BY DEF ToSet
  <2> QED
    BY <2>1, <2>2 DEF HexStringToByteString
<1> QED
  BY <1>1 DEF AddressBytes

LEMMA AddressTypes ==
  /\ Mac \in Seq(Byte) /\ Len(Mac) = 7
  /\ NoAddress \in Seq(Byte) /\ Len(NoAddress) = 7
  /\ \A a \in Addresses : a \in Seq(Byte) /\ Len(a) = 7
  BY FrameAssumption DEF NoAddress, Byte

-----------------------------------------------------------------------------
(* Frames.                                                                 *)

\* The type of a byte under way: the check sum is a fold, of which no type can be
\* proved, and no program looks at it.
Octet == Byte \union {Crc(LeadCode, body) : body \in Seq(Byte)}

Joined(p, q, r, S) ==
  /\ r \in Seq(S) /\ Len(r) = Len(p) + Len(q)
  /\ \A i \in 1 .. Len(p) : r[i] = p[i]
  /\ \A i \in 1 .. Len(q) : r[Len(p) + i] = q[i]

LEMMA JoinedParts ==
  ASSUME NEW S, NEW p \in Seq(S), NEW q \in Seq(S)
  PROVE  Joined(p, q, p \o q, S)
<1>1. /\ p \o q \in Seq(S) /\ Len(p \o q) = Len(p) + Len(q)
      /\ \A i \in 1 .. Len(p) + Len(q) :
            (p \o q)[i] = IF i <= Len(p) THEN p[i] ELSE q[i - Len(p)]
  BY ConcatProperties
<1>2. Len(p) \in Nat /\ Len(q) \in Nat
  OBVIOUS
<1>3. \A i \in 1 .. Len(p) : i \in 1 .. Len(p) + Len(q) /\ i <= Len(p)
  BY <1>2
<1>4. \A i \in 1 .. Len(q) : /\ Len(p) + i \in 1 .. Len(p) + Len(q)
                             /\ ~ (Len(p) + i <= Len(p)) /\ (Len(p) + i) - Len(p) = i
  BY <1>2
<1> QED
  BY <1>1, <1>3, <1>4 DEF Joined

\* A frame, its parts and its check sum.
Framed(f, dst, src, payload) ==
  /\ f \in Seq(Octet) /\ Len(f) = 19 + Len(payload)
  /\ Lead(f) = LeadCode /\ Dst(f) = dst /\ Src(f) = src
  /\ f[17] = 0 /\ f[18] = Len(payload) /\ Cmd(f) = payload[1]
  /\ Last(f) = Polynomial(SubSeq(f, 3, Len(f) - 1))

LEMMA BuiltOfSize ==
  ASSUME NEW dst \in Seq(Byte), Len(dst) = 7, NEW src \in Seq(Byte), Len(src) = 7,
         NEW payload \in Seq(Byte), NEW n \in 1 .. 250, Len(payload) = n
  PROVE  Framed(Build(LeadCode, dst, src, payload), dst, src, payload)
<1> DEFINE head == dst \o src
           size == <<0, n>>
           front == head \o size
           body == front \o payload
           start == LeadCode \o body
           sum == Crc(LeadCode, body)
           f == start \o <<sum>>
<1>0. f = Build(LeadCode, dst, src, payload)
  BY DEF Build
<1>1. /\ head \in Seq(Byte) /\ Len(head) = 14
      /\ \A i \in 1 .. 7 : head[i] = dst[i]
      /\ \A i \in 1 .. 7 : head[7 + i] = src[i]
  <2>1. Joined(dst, src, head, Byte)
    BY JoinedParts
  <2> HIDE DEF head
  <2> QED
    BY <2>1 DEF Joined
<1>2. size \in Seq(Byte) /\ Len(size) = 2 /\ size[1] = 0 /\ size[2] = n
  BY DEF Byte
<1> HIDE DEF head, size
<1>3. /\ front \in Seq(Byte) /\ Len(front) = 16
      /\ \A i \in 1 .. 14 : front[i] = head[i]
      /\ front[15] = 0 /\ front[16] = n
  <2>1. Joined(head, size, front, Byte)
    BY <1>1, <1>2, JoinedParts
  <2> HIDE DEF front
  <2>2. front[14 + 1] = size[1] /\ front[14 + 2] = size[2]
    BY <1>1, <1>2, <2>1 DEF Joined
  <2> QED
    BY <1>1, <1>2, <2>1, <2>2 DEF Joined
<1> HIDE DEF front
<1>4. /\ body \in Seq(Byte) /\ Len(body) = 16 + n
      /\ \A i \in 1 .. 16 : body[i] = front[i]
      /\ body[17] = payload[1]
  <2>1. Joined(front, payload, body, Byte)
    BY <1>3, JoinedParts
  <2> HIDE DEF body
  <2>2. body[16 + 1] = payload[1]
    BY <1>3, <2>1, SMTT(30) DEF Joined
  <2> QED
    BY <1>3, <2>1, <2>2 DEF Joined
<1> HIDE DEF body
<1>5. /\ LeadCode \in Seq(Byte) /\ Len(LeadCode) = 2
  BY DEF LeadCode, Byte
<1>6. /\ start \in Seq(Byte) /\ Len(start) = 18 + n
      /\ start[1] = LeadCode[1] /\ start[2] = LeadCode[2]
      /\ \A i \in 1 .. 16 + n : start[2 + i] = body[i]
  <2>1. Joined(LeadCode, body, start, Byte)
    BY <1>4, <1>5, JoinedParts
  <2> HIDE DEF start
  <2> QED
    BY <1>4, <1>5, <2>1 DEF Joined
<1> HIDE DEF start
<1>7. sum \in Octet /\ <<sum>> \in Seq(Octet) /\ Len(<<sum>>) = 1 /\ <<sum>>[1] = sum
  BY <1>4 DEF Octet
<1>8. start \in Seq(Octet)
  BY <1>6, SeqMonotonic DEF Octet
<1> HIDE DEF sum
<1>9. /\ f \in Seq(Octet) /\ Len(f) = 19 + n
      /\ \A i \in 1 .. 18 + n : f[i] = start[i]
      /\ f[19 + n] = sum
  <2>1. Joined(start, <<sum>>, f, Octet)
    BY <1>7, <1>8, JoinedParts
  <2> HIDE DEF f
  <2>2. f[(18 + n) + 1] = sum
    BY <1>6, <1>7, <2>1 DEF Joined
  <2> QED
    BY <1>6, <1>7, <2>1, <2>2 DEF Joined
<1> HIDE DEF f
<1>10. /\ f[1] = LeadCode[1] /\ f[2] = LeadCode[2]
       /\ \A i \in 1 .. 16 + n : f[2 + i] = body[i]
  <2>1. \A i \in 1 .. 16 + n : 2 + i \in 1 .. 18 + n
    OBVIOUS
  <2>2. 1 \in 1 .. 18 + n /\ 2 \in 1 .. 18 + n
    OBVIOUS
  <2> QED
    BY <1>6, <1>9, <2>1, <2>2, Zenon
<1>11. Lead(f) = LeadCode
  <2>1. /\ SubSeq(f, 1, 2) \in Seq(Octet) /\ Len(SubSeq(f, 1, 2)) = 2
        /\ SubSeq(f, 1, 2)[1] = f[1] /\ SubSeq(f, 1, 2)[2] = f[2]
    BY <1>9
  <2>2. LeadCode \in Seq(Octet)
    BY <1>5, SeqMonotonic DEF Octet
  <2>3. \A i \in 1 .. 2 : SubSeq(f, 1, 2)[i] = LeadCode[i]
    <3> DEFINE u == SubSeq(f, 1, 2)
    <3>1. u[1] = LeadCode[1] /\ u[2] = LeadCode[2]
      BY <1>10, <2>1
    <3> HIDE DEF u
    <3>2. \A i \in 1 .. 2 : i = 1 \/ i = 2
      OBVIOUS
    <3>3. \A i \in 1 .. 2 : u[i] = LeadCode[i]
      BY <3>1, <3>2
    <3> QED
      BY <3>3 DEF u
  <2> QED
    BY <1>5, <2>1, <2>2, <2>3, SeqEqual DEF Lead
<1>12. Dst(f) = dst
  <2>1. /\ SubSeq(f, 3, 9) \in Seq(Octet) /\ Len(SubSeq(f, 3, 9)) = 7
        /\ \A i \in 1 .. 7 : SubSeq(f, 3, 9)[i] = f[2 + i]
    BY <1>9
  <2>4. \A i \in 1 .. 7 : f[2 + i] = body[i] /\ body[i] = front[i] /\ front[i] = head[i]
    <3>1. \A i \in 1 .. 7 : i \in 1 .. 14 /\ i \in 1 .. 16 /\ i \in 1 .. 16 + n
      OBVIOUS
    <3> QED
      BY <1>3, <1>4, <1>10, <3>1, Zenon
  <2>2. dst \in Seq(Octet)
    BY SeqMonotonic DEF Octet
  <2>3. \A i \in 1 .. 7 : SubSeq(f, 3, 9)[i] = dst[i]
    <3>1. \A i \in 1 .. 7 : f[2 + i] = dst[i]
      BY <1>1, <2>4
    <3> QED
      BY <2>1, <3>1
  <2> QED
    BY <2>1, <2>2, <2>3, SeqEqual DEF Dst
<1>13. Src(f) = src
  <2>1. /\ SubSeq(f, 10, 16) \in Seq(Octet) /\ Len(SubSeq(f, 10, 16)) = 7
        /\ \A i \in 1 .. 7 : SubSeq(f, 10, 16)[i] = f[2 + (7 + i)]
    BY <1>9
  <2>2. src \in Seq(Octet)
    BY SeqMonotonic DEF Octet
  <2>3. \A i \in 1 .. 7 : 7 + i \in 1 .. 14 /\ 7 + i \in 1 .. 16 /\ 7 + i \in 1 .. 16 + n
    OBVIOUS
  <2>5. \A i \in 1 .. 7 : f[2 + (7 + i)] = body[7 + i] /\ body[7 + i] = front[7 + i]
                         /\ front[7 + i] = head[7 + i]
    BY <1>3, <1>4, <1>10, <2>3, Zenon
  <2>4. \A i \in 1 .. 7 : SubSeq(f, 10, 16)[i] = src[i]
    <3>1. \A i \in 1 .. 7 : f[2 + (7 + i)] = src[i]
      BY <1>1, <2>5, SMTT(30)
    <3> QED
      BY <2>1, <3>1
  <2> QED
    BY <2>1, <2>2, <2>4, SeqEqual DEF Src
<1>14. f[17] = 0 /\ f[18] = n /\ Cmd(f) = payload[1]
  <2>1. 15 \in 1 .. 16 + n /\ 16 \in 1 .. 16 + n /\ 17 \in 1 .. 16 + n
    OBVIOUS
  <2>2. f[2 + 15] = body[15] /\ f[2 + 16] = body[16] /\ f[2 + 17] = body[17]
    BY <1>10, <2>1
  <2> QED
    BY <1>3, <1>4, <2>2, SMTT(30) DEF Cmd
<1>15. Last(f) = sum
  BY <1>9 DEF Last
<1>16. SubSeq(f, 3, Len(f) - 1) = body
  <2>1. /\ SubSeq(f, 3, 18 + n) \in Seq(Octet) /\ Len(SubSeq(f, 3, 18 + n)) = 16 + n
        /\ \A i \in 1 .. 16 + n : SubSeq(f, 3, 18 + n)[i] = f[2 + i]
    BY <1>9
  <2>2. body \in Seq(Octet)
    BY <1>4, SeqMonotonic DEF Octet
  <2>3. \A i \in 1 .. 16 + n : SubSeq(f, 3, 18 + n)[i] = body[i]
    BY <1>10, <2>1
  <2>4. SubSeq(f, 3, 18 + n) = body
    BY <1>4, <2>1, <2>2, <2>3, SeqEqual
  <2>5. Len(f) - 1 = 18 + n
    BY <1>9
  <2> QED
    BY <2>4, <2>5
<1>17. sum = Polynomial(body)
  BY StepOfPolynomial DEF sum, Crc, Polynomial
<1> QED
  BY <1>0, <1>9, <1>11, <1>12, <1>13, <1>14, <1>15, <1>16, <1>17 DEF Framed

LEMMA BuiltFrame ==
  ASSUME NEW dst \in Seq(Byte), Len(dst) = 7, NEW src \in Seq(Byte), Len(src) = 7,
         NEW payload \in Seq(Byte), Len(payload) \in 1 .. 250
  PROVE  Framed(Build(LeadCode, dst, src, payload), dst, src, payload)
<1>1. \A n \in 1 .. 250 :
         Len(payload) = n => Framed(Build(LeadCode, dst, src, payload), dst, src, payload)
  BY BuiltOfSize
<1> QED
  BY <1>1

-----------------------------------------------------------------------------
(* Messages: a frame says what the writer means.                           *)

Meanings == [to : Seq(Byte), about : Seq(Byte), cmd : Byte, bytes : Seq(Octet)]

WellFormed(m) ==
  /\ m \in Meanings
  /\ Len(m.bytes) \in 20 .. 300
  /\ TailLength(m.bytes) = Len(m.bytes) - HLEN /\ Length(m.bytes) = Len(m.bytes)
  /\ Lead(m.bytes) = LeadCode
  /\ Dst(m.bytes) = m.to /\ Src(m.bytes) = m.about /\ Cmd(m.bytes) = m.cmd
  /\ Last(m.bytes) = Polynomial(SubSeq(m.bytes, 3, Len(m.bytes) - 1))

LEMMA WrittenLength ==
  ASSUME NEW m, WellFormed(m)
  PROVE  /\ m \in Meanings /\ m.bytes \in Seq(Octet)
         /\ Len(m.bytes) \in 20 .. 300 /\ Len(m.bytes) \in Nat
         /\ \A j \in 1 .. Len(m.bytes) : j \in Nat
<1>1. m \in Meanings /\ Len(m.bytes) \in 20 .. 300
  BY DEF WellFormed
<1>2. m.bytes \in Seq(Octet)
  BY <1>1 DEF Meanings
<1>3. \A l \in 20 .. 300 : l \in Nat /\ \A j \in 1 .. l : j \in Nat
  OBVIOUS
<1> QED
  BY <1>1, <1>2, <1>3, Zenon

\* A payload is a command and what belongs to it.
Payload(p, c) == p \in Seq(Byte) /\ Len(p) \in 1 .. 250 /\ p[1] = c

LEMMA BuiltMessage ==
  ASSUME NEW to \in Seq(Byte), Len(to) = 7, NEW about \in Seq(Byte), Len(about) = 7,
         NEW p, NEW c, Payload(p, c)
  PROVE  WellFormed(Message(to, about, c, Build(LeadCode, to, about, p)))
<1> DEFINE f == Build(LeadCode, to, about, p)
<1>1. p \in Seq(Byte) /\ Len(p) \in 1 .. 250 /\ p[1] = c
  BY DEF Payload
<1>2. c \in Byte
  <2>1. \A l \in 1 .. 250 : 1 \in 1 .. l
    OBVIOUS
  <2>2. 1 \in 1 .. Len(p)
    BY <1>1, <2>1, Zenon
  <2> QED
    BY <1>1, <2>2, ElementOfSeq, Zenon
<1>3. /\ f \in Seq(Octet) /\ Len(f) = 19 + Len(p)
      /\ Lead(f) = LeadCode /\ Dst(f) = to /\ Src(f) = about
      /\ f[17] = 0 /\ f[18] = Len(p) /\ Cmd(f) = c
      /\ Last(f) = Polynomial(SubSeq(f, 3, Len(f) - 1))
  BY <1>1, BuiltFrame, ZenonT(40) DEF Framed
<1> HIDE DEF f
<1>4. DataLength(f) = Len(p)
  <2>1. DataLength(f) = 0 * 256 + Len(p)
    BY <1>3 DEF DataLength
  <2>2. \A l \in 1 .. 250 : 0 * 256 + l = l
    OBVIOUS
  <2> QED
    BY <2>1, <2>2, <1>1
<1>5. TailLength(f) = Len(f) - HLEN /\ Length(f) = Len(f) /\ Len(f) \in 20 .. 300
  <2>1. \A n \in 1 .. 250 : /\ (n + 1) % 65536 = 19 + n - 18 /\ (n + 18 + 1) % 65536 = 19 + n
                            /\ 19 + n \in 20 .. 300
    OBVIOUS
  <2>2. PICK n \in 1 .. 250 : Len(p) = n
    BY <1>1
  <2>3. Len(f) = 19 + n /\ DataLength(f) = n
    BY <1>3, <1>4, <2>2
  <2> HIDE DEF f
  <2>4. TailLength(f) = (n + 1) % 65536 /\ Length(f) = (n + 18 + 1) % 65536 /\ HLEN = 18
    BY <2>3 DEF TailLength, Length, HLEN
  <2>5. Len(f) - HLEN = 19 + n - 18
    BY <2>3, <2>4
  <2> QED
    BY <2>1, <2>3, <2>4, <2>5, SMTT(30)
<1>6. Message(to, about, c, f) \in Meanings
  BY <1>2, <1>3 DEF Message, Meanings
<1> QED
  BY <1>3, <1>5, <1>6 DEF Message, WellFormed, f

LEMMA ShortPayloads ==
  /\ Payload(<<144>> \o CheckCode(Mac), 144)
  /\ Payload(<<145, 0>>, 145) /\ Payload(<<150, 0>>, 150) /\ Payload(<<244, 0>>, 244)
  /\ \A r \in 0 .. 9 :
        Payload(<<146, r>>, 146) /\ Payload(<<147, r>>, 147) /\ Payload(<<238, r>>, 238)
<1>1. ASSUME NEW x \in Byte, NEW y \in Byte PROVE Payload(<<x, y>>, x)
  BY DEF Payload
<1>2. Payload(<<144>> \o CheckCode(Mac), 144)
  <2>1. \A i \in 1 .. 7 : Signed(Mac[i]) \in Int
    <3>1. \A i \in 1 .. 7 : i \in 1 .. Len(Mac)
      BY FrameAssumption
    <3>2. \A i \in 1 .. 7 : Mac[i] \in Byte
      BY <3>1, FrameAssumption, ElementOfSeq
    <3>3. \A b \in Byte : Signed(b) \in Int
      BY DEF Signed, Byte
    <3> QED
      BY <3>2, <3>3
  <2> DEFINE u == 3 * Signed(Mac[1]) + 6 * Signed(Mac[2]) + 9 * Signed(Mac[4])
                    + 7 * Signed(Mac[5]) + 4 * Signed(Mac[6]) + 10 * Signed(Mac[7])
  <2>u. u \in Int
    BY <2>1
  <2>v. CheckCode(Mac) = <<(u % 65536) \div 256, u % 256>>
    BY DEF CheckCode
  <2> HIDE DEF u
  <2>2. PICK s \in Int : CheckCode(Mac) = <<(s % 65536) \div 256, s % 256>>
    BY <2>u, <2>v
  <2>3. (s % 65536) \div 256 \in 0 .. 255 /\ s % 256 \in 0 .. 255
    OBVIOUS
  <2> DEFINE a == (s % 65536) \div 256  b == s % 256
  <2>5. a \in Byte /\ b \in Byte /\ 144 \in Byte
    BY <2>3 DEF Byte
  <2>6. CheckCode(Mac) = <<a, b>>
    BY <2>2
  <2> HIDE DEF a, b
  <2> DEFINE q == <<144>> \o <<a, b>>
  <2>7. /\ <<144>> \in Seq(Byte) /\ Len(<<144>>) = 1
        /\ <<a, b>> \in Seq(Byte) /\ Len(<<a, b>>) = 2
    BY <2>5
  <2>8. Joined(<<144>>, <<a, b>>, q, Byte)
    BY <2>7, JoinedParts
  <2> HIDE DEF q
  <2>9. q \in Seq(Byte) /\ Len(q) = 3 /\ q[1] = 144
    BY <2>7, <2>8 DEF Joined
  <2> QED
    BY <2>6, <2>9 DEF Payload, q
<1>3. \A r \in 0 .. 9 : r \in Byte
  BY DEF Byte
<1>4. 145 \in Byte /\ 150 \in Byte /\ 244 \in Byte /\ 146 \in Byte /\ 147 \in Byte
      /\ 238 \in Byte /\ 243 \in Byte /\ 0 \in Byte
  BY DEF Byte
<1>7. Payload(<<145, 0>>, 145) /\ Payload(<<150, 0>>, 150) /\ Payload(<<244, 0>>, 244)
  BY <1>1, <1>4
<1>8. \A r \in 0 .. 9 :
         Payload(<<146, r>>, 146) /\ Payload(<<147, r>>, 147) /\ Payload(<<238, r>>, 238)
  BY <1>1, <1>3, <1>4
<1> QED
  BY <1>2, <1>7, <1>8

LEMMA TimePayloads ==
  ASSUME NEW t \in Times
  PROVE  /\ Payload(<<243, (t.year - 1900) % 256, t.month - 1, t.day,
                      t.hour, t.minute, t.second>>, 243)
         /\ Payload(<<243, (t.year - 2014) % 256, t.month, t.day,
                      t.hour, t.minute, t.second>>, 243)
<1>1. ASSUME NEW a \in Byte, NEW b \in Byte, NEW c \in Byte,
             NEW d \in Byte, NEW e \in Byte, NEW g \in Byte
      PROVE  Payload(<<243, a, b, c, d, e, g>>, 243)
  <2>1. 243 \in Byte
    BY DEF Byte
  <2> QED
    BY <2>1 DEF Payload
<1> DEFINE year == (t.year - 1900) % 256  since == (t.year - 2014) % 256
           m0 == t.month - 1
<1>2. /\ year \in Byte /\ since \in Byte /\ m0 \in Byte /\ t.month \in Byte
      /\ t.day \in Byte /\ t.hour \in Byte /\ t.minute \in Byte /\ t.second \in Byte
  <2>1. /\ t.year \in Int /\ t.month \in 1 .. 12 /\ t.day \in 1 .. 31
        /\ t.hour \in 0 .. 23 /\ t.minute \in 0 .. 59 /\ t.second \in 0 .. 60
    BY FrameAssumption
  <2>2. \A y \in Int : (y - 1900) % 256 \in 0 .. 255 /\ (y - 2014) % 256 \in 0 .. 255
    OBVIOUS
  <2>3. /\ (t.year - 1900) % 256 \in 0 .. 255 /\ (t.year - 2014) % 256 \in 0 .. 255
    BY <2>1, <2>2, SMTT(30)
  <2>4. t.month \in 0 .. 255 /\ t.month - 1 \in 0 .. 255
    BY <2>1
  <2>5. t.day \in 0 .. 255 /\ t.hour \in 0 .. 255 /\ t.minute \in 0 .. 255 /\ t.second \in 0 .. 255
    BY <2>1
  <2> QED
    BY <2>3, <2>4, <2>5 DEF Byte
<1> HIDE DEF year, since, m0
<1>3. /\ Payload(<<243, year, m0, t.day, t.hour, t.minute, t.second>>, 243)
      /\ Payload(<<243, since, t.month, t.day, t.hour, t.minute, t.second>>, 243)
  BY <1>1, <1>2, ZenonT(40)
<1> QED
  BY <1>3 DEF year, since, m0

\* The requests of gprs and clients, as the programs that answer see them.
LEMMA RequestParts ==
  ASSUME NEW f \in Requests
  PROVE  Lead(f) = LeadCode /\ Src(f) \in Seq(Byte) /\ Len(Src(f)) = 7
<1>1. PICK a \in Addresses, c \in {144, 137, 145, 243, 244, 150} :
         f = Build(LeadCode, Mac, a, <<c, 6>>)
  BY DEF Requests
<1>2. <<c, 6>> \in Seq(Byte) /\ Len(<<c, 6>>) = 2 /\ 2 \in 1 .. 250
  BY DEF Byte
<1> QED
  <2>1. Framed(f, Mac, a, <<c, 6>>)
    BY <1>1, <1>2, AddressTypes, BuiltFrame
  <2> QED
    BY <2>1, AddressTypes DEF Framed

\* What the programs answer, and what they tell, is well formed.
LEMMA AnswersWellFormed ==
  ASSUME program \in Programs, NEW f \in Requests, NEW t \in Times, NEW m \in Answers(f, t)
  PROVE  WellFormed(m)
<1>1. ASSUME NEW p, NEW c, Payload(p, c) PROVE WellFormed(Message(Src(f), Mac, c, Answer(f, p)))
  BY <1>1, RequestParts, AddressTypes, BuiltMessage DEF Answer
<1>2. /\ WellFormed(Message(Src(f), Mac, 144, Construct90Response(f)))
      /\ WellFormed(Message(Src(f), Mac, 145, Construct91Response(f)))
      /\ WellFormed(Message(Src(f), Mac, 150, Construct96Response(f, 0)))
      /\ WellFormed(Message(Src(f), Mac, 244, ConstructF4Response(f, 0)))
      /\ WellFormed(Message(Src(f), Mac, 243, ConstructF3Response(f, t)))
      /\ WellFormed(Message(Src(f), Mac, 243, GuGongF3Response(f, t)))
  <2>1. /\ Payload(<<144>> \o CheckCode(Mac), 144)
        /\ Payload(<<145, 0>>, 145) /\ Payload(<<150, 0>>, 150) /\ Payload(<<244, 0>>, 244)
    BY ShortPayloads
  <2>2. /\ WellFormed(Message(Src(f), Mac, 144, Construct90Response(f)))
        /\ WellFormed(Message(Src(f), Mac, 145, Construct91Response(f)))
        /\ WellFormed(Message(Src(f), Mac, 150, Construct96Response(f, 0)))
        /\ WellFormed(Message(Src(f), Mac, 244, ConstructF4Response(f, 0)))
    BY <1>1, <2>1 DEF Construct90Response, Construct91Response, Construct96Response,
       ConstructF4Response
  <2>3. /\ WellFormed(Message(Src(f), Mac, 243, ConstructF3Response(f, t)))
        /\ WellFormed(Message(Src(f), Mac, 243, GuGongF3Response(f, t)))
    BY <1>1, TimePayloads DEF ConstructF3Response, GuGongF3Response
  <2> QED
    BY <2>2, <2>3
<1>3. \/ m \in DataServerAnswers(f, t) \/ m \in PackDataServerAnswers(f, t)
      \/ m \in GuGongServerAnswers(f, t) \/ m \in TransmitServerAnswers(f, t)
      \/ m \in PackTransmitServerAnswers(f, t)
  BY DEF Answers, Programs
<1>4. CASE m \in DataServerAnswers(f, t)
  BY <1>2, <1>4 DEF DataServerAnswers, ToSender
<1>5. CASE m \in PackDataServerAnswers(f, t)
  BY <1>2, <1>5 DEF PackDataServerAnswers, PackLogin, PackTime, ToSender
<1>6. CASE m \in GuGongServerAnswers(f, t)
  BY <1>2, <1>6 DEF GuGongServerAnswers, GuGongLogin, GuGongTime, PackLogin, ToSender
<1>7. CASE m \in TransmitServerAnswers(f, t)
  BY <1>2, <1>7 DEF TransmitServerAnswers, TransmitServerLogin, TransmitServerTime, ToSender
<1>8. CASE m \in PackTransmitServerAnswers(f, t)
  BY <1>2, <1>8 DEF PackTransmitServerAnswers, PackTransmitServerLogin,
     PackTransmitServerTime, TransmitServerLogin, TransmitServerTime, ToSender
<1> QED
  BY <1>3, <1>4, <1>5, <1>6, <1>7, <1>8

LEMMA TellsWellFormed ==
  ASSUME program \in Programs, NEW a \in Addresses, NEW c \in Addresses, NEW m \in Tells(a, c)
  PROVE  WellFormed(m)
<1>1. ASSUME NEW p, NEW x, Payload(p, x)
      PROVE  WellFormed(Message(NoAddress, a, x, About(ByteToHex(a), p)))
  BY <1>1, AddressTypes, AddressRead, BuiltMessage DEF About
<1>2. \A r \in 0 .. 9 :
         /\ WellFormed(Message(NoAddress, a, 147, Construct93Response(ByteToHex(a), r)))
         /\ WellFormed(Message(NoAddress, a, 238, ConstructEEResponse(ByteToHex(a), r)))
         /\ WellFormed(Message(NoAddress, a, 146, Construct92Response(ByteToHex(a), r)))
  <2> SUFFICES ASSUME NEW r \in 0 .. 9
               PROVE  /\ WellFormed(Message(NoAddress, a, 147, Construct93Response(ByteToHex(a), r)))
                      /\ WellFormed(Message(NoAddress, a, 238, ConstructEEResponse(ByteToHex(a), r)))
                      /\ WellFormed(Message(NoAddress, a, 146, Construct92Response(ByteToHex(a), r)))
    OBVIOUS
  <2>1. Payload(<<147, r>>, 147) /\ Payload(<<238, r>>, 238) /\ Payload(<<146, r>>, 146)
    <3>1. Payload(<<146, r>>, 146) /\ Payload(<<147, r>>, 147) /\ Payload(<<238, r>>, 238)
      BY ShortPayloads, SMTT(30)
    <3> QED
      BY <3>1
  <2> QED
    BY <1>1, <2>1 DEF Construct93Response, ConstructEEResponse, Construct92Response
<1>3. \A r \in 0 .. 9 :
         /\ WellFormed(Message(a, NoAddress, 146, Construct92Frame(<< >>, ByteToHex(a), r)))
         /\ WellFormed(Message(c, a, 146, Construct92Frame(ByteToHex(a), ByteToHex(c), r)))
  <2> SUFFICES ASSUME NEW r \in 0 .. 9
               PROVE  /\ WellFormed(Message(a, NoAddress, 146,
                                       Construct92Frame(<< >>, ByteToHex(a), r)))
                      /\ WellFormed(Message(c, a, 146,
                                       Construct92Frame(ByteToHex(a), ByteToHex(c), r)))
    OBVIOUS
  <2>1. Payload(<<146, r>>, 146)
    <3>1. Payload(<<146, r>>, 146) /\ Payload(<<147, r>>, 147) /\ Payload(<<238, r>>, 238)
      BY ShortPayloads, SMTT(30)
    <3> QED
      BY <3>1
  <2>2. /\ Construct92Frame(<< >>, ByteToHex(a), r) = Build(LeadCode, a, NoAddress, <<146, r>>)
        /\ Construct92Frame(ByteToHex(a), ByteToHex(c), r) = Build(LeadCode, c, a, <<146, r>>)
    BY AddressTypes, AddressRead, NoAddressRead DEF Construct92Frame
  <2> QED
    BY <2>1, <2>2, AddressTypes, BuiltMessage
<1>4. \A m1 \in DataServerTells(a) : WellFormed(m1)
  <2>1. \A r \in 0 .. 4 : r \in 0 .. 9
    OBVIOUS
  <2>2. 8 \in 0 .. 9 /\ 9 \in 0 .. 9
    OBVIOUS
  <2> QED
    BY <1>2, <2>1, <2>2 DEF DataServerTells
<1>5. \A m1 \in TransmitServerJoins(a) \union TransmitServerStops(a, c)
                 \union PackTransmitServerCloses(a) : WellFormed(m1)
  <2>1. 0 \in 0 .. 9 /\ 1 \in 0 .. 9
    OBVIOUS
  <2> QED
    BY <1>2, <1>3, <2>1 DEF TransmitServerJoins, TransmitServerStops, PackTransmitServerCloses
<1>6. \/ m \in DataServerTells(a)
      \/ m \in TransmitServerJoins(a) \union TransmitServerStops(a, c)
              \union PackTransmitServerCloses(a)
  BY DEF Tells, Programs, PackDataServerTells, PackTransmitServerJoins,
     PackTransmitServerStops
<1> QED
  BY <1>4, <1>5, <1>6

-----------------------------------------------------------------------------
(* The connection.  What is under way are the frames not yet read, one     *)
(* after the other; where each begins is a function, since the lengths     *)
(* cannot be added up without induction.                                   *)

Wire == buffer \o stream

FrameTypes ==
  /\ program \in Programs /\ ~ broken
  /\ stream \in Seq(Octet) /\ buffer \in Seq(Octet) /\ got \in Seq(Seq(Octet))
  /\ meant \in Seq(Meanings) /\ \A i \in 1 .. Len(meant) : WellFormed(meant[i])

\* The frames read are the first ones written.
ReadInOrder ==
  /\ Len(got) <= Len(meant)
  /\ \A i \in 1 .. Len(got) : got[i] = meant[i].bytes

\* end[i] is where the i-th frame written ends, counted from the first byte.
Ends(end) ==
  /\ end \in [0 .. Len(meant) -> Nat]
  /\ \A i \in 1 .. Len(meant) : end[i] = end[i - 1] + Len(meant[i].bytes)
  /\ \A i, j \in 0 .. Len(meant) : i <= j => end[i] <= end[j]

Carries(end) ==
  /\ end[Len(meant)] = end[Len(got)] + Len(Wire)
  /\ \A i \in Len(got) + 1 .. Len(meant) : \A k \in 1 .. Len(meant[i].bytes) :
        Wire[(end[i - 1] - end[Len(got)]) + k] = meant[i].bytes[k]

\* What is in the buffer does not make the next frame.
Unfinished ==
  buffer # << >> =>
    Len(got) < Len(meant) /\ Len(buffer) < Len(meant[Len(got) + 1].bytes)

FrameInv ==
  FrameTypes /\ ReadInOrder /\ Unfinished /\ \E end : Ends(end) /\ Carries(end)

LEMMA FrameInitially == Init => FrameInv
<1> SUFFICES ASSUME Init PROVE FrameInv
  OBVIOUS
<1> DEFINE end == [i \in 0 .. 0 |-> 0]
<1>1. Len(meant) = 0 /\ Len(got) = 0 /\ Wire = << >> /\ Len(Wire) = 0
  BY DEF Init, Wire
<1>2. Ends(end) /\ Carries(end)
  BY <1>1 DEF Ends, Carries
<1>3. FrameTypes /\ ReadInOrder /\ Unfinished
  BY DEF Init, FrameTypes, ReadInOrder, Unfinished
<1> QED
  BY <1>2, <1>3 DEF FrameInv

\* What a read of k bytes makes of the buffer b and leaves of the stream s: nothing
\* is lost or moved.
Cut(b, s, k, r, t) ==
  /\ r \in Seq(Octet) /\ Len(r) = Len(b) + k
  /\ t \in Seq(Octet) /\ Len(t) = Len(s) - k
  /\ \A i \in 1 .. Len(r) : r[i] = (b \o s)[i]
  /\ \A i \in 1 .. Len(t) : t[i] = (b \o s)[Len(r) + i]
  /\ r \o t = b \o s

LEMMA ReadCuts ==
  ASSUME NEW b \in Seq(Octet), NEW s \in Seq(Octet), NEW k \in 1 .. Len(s), NEW r, NEW t,
         r = b \o SubSeq(s, 1, k), t = SubSeq(s, k + 1, Len(s))
  PROVE  Cut(b, s, k, r, t)
<1> DEFINE S == Octet
<1> DEFINE c == SubSeq(s, 1, k)  w == b \o s
<1>1. /\ Len(b) \in Nat /\ Len(s) \in Nat /\ k <= Len(s)
  OBVIOUS
<1>2. c \in Seq(S) /\ Len(c) = k /\ \A i \in 1 .. k : c[i] = s[i]
  BY <1>1
<1>3. t \in Seq(S) /\ Len(t) = Len(s) - k /\ \A i \in 1 .. Len(t) : t[i] = s[k + i]
  BY <1>1
<1> HIDE DEF c
<1>4. Joined(b, c, r, S)
  BY <1>2, JoinedParts DEF c
<1>5. Joined(b, s, w, S)
  BY JoinedParts
<1> HIDE DEF w
<1>6. r \in Seq(S) /\ Len(r) = Len(b) + k
  BY <1>2, <1>4 DEF Joined
<1>7. \A i \in 1 .. Len(r) : r[i] = w[i]
  <2> SUFFICES ASSUME NEW i \in 1 .. Len(r) PROVE r[i] = w[i]
    OBVIOUS
  <2>1. CASE i \in 1 .. Len(b)
    BY <2>1, <1>4, <1>5 DEF Joined
  <2>2. CASE i \notin 1 .. Len(b)
    <3>1. PICK j \in 1 .. k : i = Len(b) + j
      <4>1. i - Len(b) \in 1 .. k /\ i = Len(b) + (i - Len(b))
        BY <2>2, <1>1, <1>6
      <4> QED
        BY <4>1
    <3>2. j \in 1 .. Len(c) /\ j \in 1 .. Len(s)
      BY <1>1, <1>2
    <3> QED
      BY <3>1, <3>2, <1>2, <1>4, <1>5 DEF Joined
  <2> QED
    BY <2>1, <2>2
<1>8. \A i \in 1 .. Len(t) : t[i] = w[Len(r) + i]
  <2> SUFFICES ASSUME NEW i \in 1 .. Len(t) PROVE t[i] = w[Len(r) + i]
    OBVIOUS
  <2>1. k + i \in 1 .. Len(s) /\ Len(b) + (k + i) = Len(r) + i
    BY <1>1, <1>3, <1>6
  <2>2. w[Len(b) + (k + i)] = s[k + i]
    BY <2>1, <1>5 DEF Joined
  <2> QED
    BY <2>1, <2>2, <1>3
<1>9. r \o t = w
  <2> DEFINE x == r \o t
  <2>1. Joined(r, t, x, S)
    BY <1>3, <1>6, JoinedParts
  <2> HIDE DEF x
  <2>2. x \in Seq(S) /\ w \in Seq(S) /\ Len(x) = Len(r) + Len(t) /\ Len(w) = Len(b) + Len(s)
    BY <2>1, <1>5 DEF Joined
  <2>3. Len(x) = Len(w)
    <3>1. \A p, q, u \in Nat : u <= q => (p + u) + (q - u) = p + q
      OBVIOUS
    <3>2. Len(r) + Len(t) = (Len(b) + k) + (Len(s) - k) /\ k \in Nat
      <4>1. k \in Nat
        BY <1>1
      <4> QED
        BY <4>1, <1>3, <1>6, Zenon
    <3>3. k <= Len(s) /\ Len(b) \in Nat /\ Len(s) \in Nat
      BY <1>1
    <3>4. (Len(b) + k) + (Len(s) - k) = Len(b) + Len(s)
      BY <3>1, <3>2, <3>3
    <3> QED
      BY <3>2, <3>4, <2>2, Zenon
  <2>4. \A i \in 1 .. Len(x) : x[i] = w[i]
    <3> SUFFICES ASSUME NEW i \in 1 .. Len(x) PROVE x[i] = w[i]
      OBVIOUS
    <3>1. CASE i \in 1 .. Len(r)
      BY <3>1, <2>1, <1>7 DEF Joined
    <3>2. CASE i \notin 1 .. Len(r)
      <4>1. i - Len(r) \in 1 .. Len(t) /\ Len(r) + (i - Len(r)) = i
        <5>1. \A p, q, u \in Nat : u \in 1 .. p + q /\ u \notin 1 .. p =>
                                  u - p \in 1 .. q /\ p + (u - p) = u
          OBVIOUS
        <5>2. Len(r) \in Nat /\ Len(t) \in Nat /\ Len(x) = Len(r) + Len(t)
              /\ i \in 1 .. Len(x) /\ i \in Nat
          <6>1. r \in Seq(S) /\ t \in Seq(S) /\ x \in Seq(S)
            BY <2>2, <1>3, <1>6
          <6>2. Len(r) \in Nat /\ Len(t) \in Nat /\ Len(x) \in Nat
            BY <6>1, LenProperties
          <6>3. \A q \in Nat : \A j \in 1 .. q : j \in Nat
            OBVIOUS
          <6>4. i \in Nat
            BY <6>2, <6>3
          <6> QED
            BY <6>2, <6>4, <2>2, Zenon
        <5> QED
          BY <3>2, <5>1, <5>2, ZenonT(40)
      <4>2. x[Len(r) + (i - Len(r))] = t[i - Len(r)]
        BY <4>1, <2>1 DEF Joined
      <4>3. t[i - Len(r)] = w[Len(r) + (i - Len(r))]
        BY <4>1, <1>8
      <4> QED
        BY <4>1, <4>2, <4>3
    <3> QED
      BY <3>1, <3>2
  <2>5. x = w
    BY <2>2, <2>3, <2>4, SeqEqual
  <2> QED
    BY <2>5 DEF x
<1> QED
  BY <1>3, <1>6, <1>7, <1>8, <1>9 DEF w, Cut

LEMMA FrameWritten ==
  ASSUME FrameInv, NEW messages, \A m \in messages : WellFormed(m), Writes(messages)
  PROVE  FrameInv'
<1>1. PICK m \in messages :
         /\ stream' = stream \o m.bytes /\ meant' = Append(meant, m)
         /\ program' = program /\ buffer' = buffer /\ broken' = broken /\ got' = got
  BY DEF Writes
<1>2. PICK end : Ends(end) /\ Carries(end)
  BY DEF FrameInv
<1> DEFINE N == Len(meant)  n == Len(got)  f == m.bytes  L == Len(f)
<1>e. PICK end2 :
        end2 = [i \in 0 .. N + 1 |-> IF i = N + 1 THEN end[N] + L ELSE end[i]]
  OBVIOUS
<1>3. WellFormed(m) /\ m \in Meanings /\ f \in Seq(Octet) /\ L \in 20 .. 300
  BY WrittenLength
<1>4. /\ stream \in Seq(Octet) /\ buffer \in Seq(Octet) /\ got \in Seq(Seq(Octet))
      /\ meant \in Seq(Meanings) /\ N \in Nat /\ n \in Nat /\ n <= N
  BY DEF FrameInv, FrameTypes, ReadInOrder
<1>5. /\ meant' \in Seq(Meanings) /\ Len(meant') = N + 1 /\ meant'[N + 1] = m
      /\ \A i \in 1 .. N : meant'[i] = meant[i]
  <2>1. meant' = Append(meant, m) /\ meant \in Seq(Meanings) /\ m \in Meanings
    BY <1>1, <1>3, <1>4
  <2> QED
    BY <2>1, AppendProperties
<1>6. stream' \in Seq(Octet)
  BY <1>1, <1>3, <1>4, ConcatProperties
<1>7. Wire \in Seq(Octet) /\ Wire' = Wire \o f
  <2>1. Wire' = buffer \o (stream \o m.bytes)
    BY <1>1 DEF Wire
  <2>2. buffer \o (stream \o m.bytes) = (buffer \o stream) \o m.bytes
    <3>1. \A p, q, r \in Seq(Octet) : p \o (q \o r) = (p \o q) \o r
      BY ConcatAssociative, SMTT(30)
    <3>2. m.bytes \in Seq(Octet) /\ stream \in Seq(Octet) /\ buffer \in Seq(Octet)
      BY <1>3, <1>4
    <3> QED
      BY <3>1, <3>2
  <2>3. Wire \in Seq(Octet)
    BY <1>4, ConcatProperties DEF Wire
  <2> QED
    BY <2>1, <2>2, <2>3 DEF Wire
<1>8. Joined(Wire, f, Wire', Octet)
  BY <1>3, <1>7, JoinedParts
<1> HIDE DEF f, L, N, n
<1>9. FrameTypes'
  <2>1. \A i \in 1 .. N + 1 : WellFormed(meant'[i])
    <3> SUFFICES ASSUME NEW i \in 1 .. N + 1 PROVE WellFormed(meant'[i])
      OBVIOUS
    <3>1. i = N + 1 \/ i \in 1 .. N
      BY <1>4
    <3>2. \A j \in 1 .. N : WellFormed(meant[j])
      BY DEF FrameInv, FrameTypes, N
    <3> QED
      BY <3>1, <3>2, <1>3, <1>5
  <2>2. FrameTypes
    BY DEF FrameInv
  <2> QED
    BY <2>1, <2>2, <1>1, <1>4, <1>5, <1>6 DEF FrameTypes
<1>10. ReadInOrder'
  <2>1. \A i \in 1 .. n : got[i] = meant[i].bytes /\ i \in 1 .. N
    BY <1>4 DEF FrameInv, ReadInOrder, n
  <2> QED
    BY <2>1, <1>1, <1>4, <1>5 DEF ReadInOrder, n
<1>11. Unfinished'
  <2> SUFFICES ASSUME buffer # << >> PROVE n < N + 1 /\ Len(buffer) < Len(meant'[n + 1].bytes)
    BY <1>1, <1>5 DEF Unfinished, n
  <2>1. n < N /\ Len(buffer) < Len(meant[n + 1].bytes)
    BY DEF FrameInv, Unfinished, n, N
  <2>2. n + 1 \in 1 .. N
    BY <2>1, <1>4
  <2> QED
    BY <2>1, <2>2, <1>4, <1>5
<1>12. /\ end \in [0 .. N -> Nat]
       /\ \A i \in 1 .. N : end[i] = end[i - 1] + Len(meant[i].bytes)
       /\ \A i, j \in 0 .. N : i <= j => end[i] <= end[j]
       /\ end[N] = end[n] + Len(Wire)
       /\ \A i \in n + 1 .. N : \A k \in 1 .. Len(meant[i].bytes) :
             Wire[(end[i - 1] - end[n]) + k] = meant[i].bytes[k]
  BY <1>2 DEF Ends, Carries, N, n
<1>13. /\ \A i \in 0 .. N : end2[i] = end[i] /\ end[i] \in Nat
       /\ end2[N + 1] = end[N] + L /\ end2 \in [0 .. N + 1 -> Nat]
  <2>1. end[N] \in Nat /\ end[N] + L \in Nat
    <3>1. N \in 0 .. N
      BY <1>4
    <3> QED
      BY <3>1, <1>3, <1>12
  <2>2. \A i \in 0 .. N : i \in 0 .. N + 1 /\ i # N + 1 /\ end[i] \in Nat
    BY <1>4, <1>12
  <2>3. \A i \in 0 .. N + 1 : i = N + 1 \/ i \in 0 .. N
    BY <1>4
  <2>4. N + 1 \in 0 .. N + 1
    BY <1>4
  <2>5. \A i \in 0 .. N + 1 : end2[i] \in Nat
    BY <1>e, <2>1, <2>2, <2>3
  <2> QED
    BY <1>e, <2>2, <2>4, <2>5
<1>14. Ends(end2)'
  <2>1. \A i \in 1 .. N + 1 : end2[i] = end2[i - 1] + Len(meant'[i].bytes)
    <3> SUFFICES ASSUME NEW i \in 1 .. N + 1
                 PROVE  end2[i] = end2[i - 1] + Len(meant'[i].bytes)
      OBVIOUS
    <3>1. CASE i = N + 1
      <4>1. i - 1 = N /\ N \in 0 .. N
        BY <3>1, <1>4
      <4> QED
        BY <3>1, <4>1, <1>5, <1>13 DEF L, f
    <3>2. CASE i \in 1 .. N
      <4>1. i \in 0 .. N /\ i - 1 \in 0 .. N
        BY <3>2, <1>4
      <4> QED
        BY <3>2, <4>1, <1>5, <1>12, <1>13
    <3> QED
      BY <3>1, <3>2, <1>4
  <2>2. \A i, j \in 0 .. N + 1 : i <= j => end2[i] <= end2[j]
    <3> SUFFICES ASSUME NEW i \in 0 .. N + 1, NEW j \in 0 .. N + 1, i <= j
                 PROVE  end2[i] <= end2[j]
      OBVIOUS
    <3>1. CASE j \in 0 .. N
      <4>1. i \in 0 .. N
        BY <3>1, <1>4
      <4> QED
        BY <3>1, <4>1, <1>12, <1>13
    <3>2. CASE j = N + 1 /\ i \in 0 .. N
      <4>1. end[i] <= end[N]
        <5>1. N \in 0 .. N /\ i \in 0 .. N /\ i <= N
          BY <3>2, <1>4
        <5> QED
          BY <5>1, <1>12
      <4>2. end2[i] = end[i] /\ end[i] \in Nat /\ end[N] \in Nat /\ end2[j] = end[N] + L
        BY <3>2, <1>4, <1>13
      <4> QED
        BY <4>1, <4>2, <1>3
    <3>3. CASE j = N + 1 /\ i = N + 1
      <4>1. end2[j] \in Nat /\ end2[i] = end2[j]
        BY <3>3, <1>13
      <4> QED
        BY <4>1
    <3> QED
      BY <3>1, <3>2, <3>3, <1>4
  <2>3. end2 \in [0 .. N + 1 -> Nat]
    BY <1>13
  <2> QED
    BY <2>1, <2>2, <2>3, <1>5 DEF Ends
<1>15. Carries(end2)'
  <2>1. Len(Wire') = Len(Wire) + L /\ \A i \in 1 .. L : Wire'[Len(Wire) + i] = f[i]
    BY <1>8 DEF Joined, L
  <2>2. \A i \in 1 .. Len(Wire) : Wire'[i] = Wire[i]
    BY <1>8 DEF Joined
  <2>3. Len(Wire) \in Nat /\ end[n] \in Nat /\ end[N] \in Nat /\ end2[n] = end[n] /\ end2[N] = end[N]
    BY <1>4, <1>7, <1>13
  <2>4. end2[N + 1] = end2[n] + Len(Wire')
    BY <2>1, <2>3, <1>3, <1>12, <1>13
  <2>5. ASSUME NEW i \in n + 1 .. N + 1, NEW k \in 1 .. Len(meant'[i].bytes)
        PROVE  Wire'[(end2[i - 1] - end2[n]) + k] = meant'[i].bytes[k]
    <3>1. CASE i = N + 1
      <4>1. i - 1 = N /\ meant'[i].bytes = f /\ k \in 1 .. L
        BY <3>1, <1>4, <1>5 DEF f, L
      <4>2. end2[N] - end2[n] = Len(Wire)
        BY <2>3, <1>12
      <4> QED
        BY <2>1, <4>1, <4>2
    <3>2. CASE i \in n + 1 .. N
      <4> DEFINE g == meant[i].bytes
      <4>1. i \in 1 .. N /\ i \in 0 .. N /\ i - 1 \in 0 .. N /\ N \in 0 .. N /\ n \in 0 .. N
            /\ n <= i - 1 /\ i <= N
        BY <3>2, <1>4
      <4>2. meant'[i].bytes = g /\ end2[i - 1] = end[i - 1]
        BY <4>1, <1>5, <1>13
      <4>3. Wire[(end[i - 1] - end[n]) + k] = g[k]
        BY <3>2, <4>2, <1>12
      <4>4. end[i] = end[i - 1] + Len(g) /\ end[n] <= end[i - 1] /\ end[i] <= end[N]
        BY <4>1, <1>12
      <4>5. end[i] \in Nat /\ end[i - 1] \in Nat
        BY <4>1, <1>13
      <4>6. Len(g) \in Nat /\ k \in 1 .. Len(g)
        <5>1. WellFormed(meant[i])
          BY <4>1 DEF FrameInv, FrameTypes, N
        <5>2. Len(meant[i].bytes) \in Nat
          BY <5>1, WrittenLength
        <5> QED
          BY <5>2, <4>2, Zenon
      <4> HIDE DEF g
      <4>7. (end[i - 1] - end[n]) + k \in 1 .. Len(Wire)
        <5>1. \A e, h, o, p, l, w, x \in Nat :
                 /\ e = h + l /\ o <= h /\ e <= p /\ p = o + w /\ x \in 1 .. l
                 => (h - o) + x \in 1 .. w
          OBVIOUS
        <5>2. end[N] = end[n] + Len(Wire) /\ k \in Nat
          BY <4>6, <1>12
        <5> QED
          BY <2>3, <4>4, <4>5, <4>6, <5>1, <5>2
      <4> QED
        BY <2>2, <2>3, <4>2, <4>3, <4>7
    <3> QED
      BY <3>1, <3>2, <1>4
  <2>6. \A i \in n + 1 .. N + 1 : \A k \in 1 .. Len(meant'[i].bytes) :
           Wire'[(end2[i - 1] - end2[n]) + k] = meant'[i].bytes[k]
    BY <2>5
  <2>7. Len(got') = n /\ Len(meant') = N + 1
    BY <1>1, <1>5 DEF n
  <2> QED
    BY <2>4, <2>6, <2>7 DEF Carries
<1> QED
  BY <1>9, <1>10, <1>11, <1>14, <1>15 DEF FrameInv

\* The frame that is read next is the beginning of what is under way.
LEMMA NextFrame ==
  ASSUME FrameInv, NEW end, Ends(end), Carries(end), stream # << >>
  PROVE  /\ Len(got) + 1 \in 1 .. Len(meant)
         /\ WellFormed(meant[Len(got) + 1])
         /\ Len(buffer) < Len(meant[Len(got) + 1].bytes)
         /\ Len(meant[Len(got) + 1].bytes) <= Len(Wire)
         /\ \A k \in 1 .. Len(meant[Len(got) + 1].bytes) :
               Wire[k] = meant[Len(got) + 1].bytes[k]
<1> DEFINE N == Len(meant)  n == Len(got)
<1>1. /\ stream \in Seq(Octet) /\ buffer \in Seq(Octet) /\ got \in Seq(Seq(Octet))
      /\ meant \in Seq(Meanings) /\ N \in Nat /\ n \in Nat /\ n <= N
  BY DEF FrameInv, FrameTypes, ReadInOrder
<1>2. Len(Wire) \in Nat /\ Len(Wire) > 0
  <2>1. Joined(buffer, stream, Wire, Octet)
    BY <1>1, JoinedParts DEF Wire
  <2>2. Len(stream) \in Nat /\ Len(stream) > 0 /\ Len(buffer) \in Nat
    BY <1>1
  <2>3. Len(Wire) = Len(buffer) + Len(stream)
    BY <2>1 DEF Joined
  <2> QED
    BY <2>2, <2>3
<1> HIDE DEF N, n
<1>3. /\ end \in [0 .. N -> Nat]
      /\ \A i \in 1 .. N : end[i] = end[i - 1] + Len(meant[i].bytes)
      /\ \A i, j \in 0 .. N : i <= j => end[i] <= end[j]
      /\ end[N] = end[n] + Len(Wire)
      /\ \A i \in n + 1 .. N : \A k \in 1 .. Len(meant[i].bytes) :
            Wire[(end[i - 1] - end[n]) + k] = meant[i].bytes[k]
  BY DEF Ends, Carries, N, n
<1>4. n # N /\ end[n] \in Nat /\ end[N] \in Nat
  <2>1. n \in 0 .. N /\ N \in 0 .. N
    BY <1>1
  <2>2. end[n] \in Nat /\ end[N] \in Nat
    BY <2>1, <1>3
  <2> QED
    BY <2>2, <1>2, <1>3
<1>5. n + 1 \in 1 .. N /\ n + 1 \in n + 1 .. N /\ n + 1 \in 0 .. N /\ N \in 0 .. N
      /\ (n + 1) - 1 = n /\ n + 1 <= N
  BY <1>1, <1>4
<1> DEFINE m == meant[n + 1]  f == m.bytes  L == Len(f)
<1>6. WellFormed(m)
  BY <1>5 DEF FrameInv, FrameTypes, N
<1>7. L \in 20 .. 300
  BY <1>6 DEF WellFormed
<1> HIDE DEF L, f, m
<1>8. Len(buffer) < L
  <2>1. CASE buffer = << >>
    BY <2>1, <1>7
  <2>2. CASE buffer # << >>
    BY <2>2 DEF FrameInv, Unfinished, L, f, m, n
  <2> QED
    BY <2>1, <2>2
<1>9. L <= Len(Wire)
  <2>1. end[n + 1] = end[n] + L /\ end[n + 1] <= end[N]
    BY <1>3, <1>5 DEF L, f, m
  <2> QED
    BY <2>1, <1>2, <1>3, <1>4, <1>7
<1>10. \A k \in 1 .. L : Wire[k] = f[k]
  <2> SUFFICES ASSUME NEW k \in 1 .. L PROVE Wire[k] = f[k]
    OBVIOUS
  <2>1. Wire[(end[n] - end[n]) + k] = f[k]
    BY <1>3, <1>5 DEF L, f, m
  <2>2. \A o, x \in Nat : (o - o) + x = x
    OBVIOUS
  <2>3. k \in Nat
    BY <1>7
  <2>4. (end[n] - end[n]) + k = k
    BY <2>2, <2>3, <1>4
  <2> QED
    BY <2>1, <2>4
<1> QED
  BY <1>5, <1>6, <1>8, <1>9, <1>10 DEF L, f, m, n, N

\* The reader looks at the lead code when it has as many bytes as the header.
LEMMA SameLead ==
  ASSUME NEW p \in Seq(Octet), NEW q \in Seq(Octet), NEW n \in Nat, NEW o \in Nat,
         Len(p) = n, Len(q) = o, n >= 2, o >= 2, p[1] = q[1], p[2] = q[2]
  PROVE  Lead(p) = Lead(q)
<1>1. ASSUME NEW s \in Seq(Octet), NEW m \in Nat, Len(s) = m, m >= 2
      PROVE  /\ SubSeq(s, 1, 2) \in Seq(Octet) /\ Len(SubSeq(s, 1, 2)) = 2
             /\ \A i \in 1 .. 2 : SubSeq(s, 1, 2)[i] = s[i]
  <2>1. \A i \in 1 .. 2 : i \in 1 .. m
    BY <1>1
  <2>2. \A i \in 1 .. 2 : s[i] \in Octet
    BY <1>1, <2>1, ElementOfSeq, Zenon
  <2>0. 1 \in Int /\ 2 \in Int
    OBVIOUS
  <2>3. \A i \in 1 .. 2 - 1 + 1 : SubSeq(s, 1, 2)[i] = s[1 + i - 1]
    BY <2>0, <2>2, SubSeqProperties, SMTT(30)
  <2>4. SubSeq(s, 1, 2) \in Seq(Octet)
        /\ Len(SubSeq(s, 1, 2)) = IF 1 <= 2 THEN 2 - 1 + 1 ELSE 0
    BY <2>0, <2>2, SubSeqProperties, SMTT(30)
  <2>5. 2 - 1 + 1 = 2 /\ 1 <= 2 /\ \A i \in 1 .. 2 : 1 + i - 1 = i
    OBVIOUS
  <2> QED
    BY <2>3, <2>4, <2>5, Zenon
<1> DEFINE u == SubSeq(p, 1, 2)  v == SubSeq(q, 1, 2)
<1>2. u \in Seq(Octet) /\ Len(u) = 2 /\ \A i \in 1 .. 2 : u[i] = p[i]
  BY <1>1, Zenon
<1>3. v \in Seq(Octet) /\ Len(v) = 2 /\ \A i \in 1 .. 2 : v[i] = q[i]
  BY <1>1, Zenon
<1> HIDE DEF u, v
<1>4. \A i \in 1 .. 2 : i = 1 \/ i = 2
  OBVIOUS
<1>5. \A i \in 1 .. Len(u) : u[i] = v[i]
  BY <1>2, <1>3, <1>4, Zenon
<1>6. u = v
  BY <1>2, <1>3, <1>5, SeqEqual, Zenon
<1> QED
  BY <1>6 DEF Lead, u, v

\* What the reader asks for, and what it makes of the answer: r is what it has
\* then, a beginning of the frame f.
LEMMA AskedFor ==
  ASSUME NEW m, WellFormed(m), buffer \in Seq(Octet), Len(buffer) < Len(m.bytes),
         NEW k \in Nat, k >= 1, k <= Missing,
         NEW r \in Seq(Octet), Len(r) = Len(buffer) + k,
         \A i \in 1 .. Len(r) : i <= Len(m.bytes) => r[i] = m.bytes[i],
         \A i \in 1 .. Len(buffer) : r[i] = buffer[i]
  PROVE  /\ ~ (Len(r) = HLEN /\ Lead(r) # LeadCode)
         /\ Len(r) > HLEN /\ k = Missing => r = m.bytes
         /\ ~ (Len(r) > HLEN /\ k = Missing) => Len(r) < Len(m.bytes)
<1> DEFINE f == m.bytes  L == Len(f)  b == Len(buffer)
<1>1. f \in Seq(Octet) /\ L \in 20 .. 300 /\ TailLength(f) = L - HLEN /\ Lead(f) = LeadCode
  BY DEF WellFormed, Meanings
<1>2. b \in Nat /\ b < L /\ Len(r) = b + k
  OBVIOUS
<1>3. \A i \in 1 .. Len(r) : i <= L => r[i] = f[i]
  OBVIOUS
<1> HIDE DEF f, L, b
<1>4. CASE b < HLEN
  <2>1. Missing = HLEN - b
    BY <1>4 DEF Missing, b
  <2>2. Len(r) <= HLEN /\ HLEN = 18 /\ Len(r) \in Nat
    BY <2>1, <1>2, <1>4 DEF HLEN
  <2>3. Len(r) < L /\ ~ (Len(r) > HLEN)
    <3>1. \A x \in Nat : \A y \in 20 .. 300 : x <= 18 => x < y /\ ~ (x > 18)
      OBVIOUS
    <3> QED
      BY <3>1, <2>2, <1>1
  <2>4. ASSUME Len(r) = HLEN PROVE Lead(r) = LeadCode
    <3>1. Len(r) \in Nat /\ Len(r) >= 2 /\ L \in Nat /\ L >= 2
      <4>1. \A x \in Nat : x = 18 => x >= 2
        OBVIOUS
      <4>2. \A y \in 20 .. 300 : y \in Nat /\ y >= 2
        OBVIOUS
      <4>3. Len(r) = 18
        BY <2>2, <2>4, Zenon
      <4> QED
        BY <4>1, <4>2, <4>3, <2>2, <1>1, Zenon
    <3>2. r[1] = f[1] /\ r[2] = f[2]
      <4>1. \A x \in Nat : x >= 2 => 1 \in 1 .. x /\ 2 \in 1 .. x /\ 1 <= x /\ 2 <= x
        OBVIOUS
      <4> QED
        BY <4>1, <3>1, <1>3, Zenon
    <3>3. Len(f) = L
      BY DEF L
    <3>4. Lead(r) = Lead(f)
      BY <3>1, <3>2, <3>3, <1>1, SameLead, Zenon
    <3> QED
      BY <3>4, <1>1
  <2> QED
    BY <2>3, <2>4 DEF f, L
<1>5. CASE ~ (b < HLEN)
  <2>1. b >= 18 /\ HLEN = 18
    BY <1>2, <1>5 DEF HLEN
  <2>2. buffer[17] = f[17] /\ buffer[18] = f[18]
    <3>1. 17 \in 1 .. b /\ 18 \in 1 .. b /\ 17 <= L /\ 18 <= L
          /\ 17 \in 1 .. Len(r) /\ 18 \in 1 .. Len(r)
      BY <2>1, <1>1, <1>2
    <3> QED
      BY <3>1, <1>3 DEF b
  <2>3. TailLength(buffer) = TailLength(f)
    BY <2>2 DEF TailLength, DataLength
  <2>4. Missing = (HLEN + (L - HLEN)) - b
    BY <2>3, <1>1, <1>5 DEF Missing, b
  <2>5. Missing = L - b
    BY <2>1, <2>4, <1>1, <1>2
  <2>6. Len(r) > HLEN
    BY <2>1, <1>2
  <2>7. ASSUME k = Missing PROVE r = f
    <3>1. Len(r) = L
      BY <2>5, <2>7, <1>1, <1>2
    <3>2. \A i \in 1 .. Len(r) : i <= L
      BY <3>1, <1>1
    <3>3. \A i \in 1 .. Len(r) : r[i] = f[i]
      BY <3>2, <1>3
    <3> QED
      BY <3>1, <3>3, <1>1, SeqEqual DEF L
  <2>8. ASSUME k # Missing PROVE Len(r) < L
    BY <2>5, <2>8, <1>1, <1>2
  <2> QED
    BY <2>1, <2>6, <2>7, <2>8 DEF f, L
<1> QED
  BY <1>4, <1>5

LEMMA FrameRead == FrameInv /\ Read => FrameInv'
<1> SUFFICES ASSUME FrameInv, Read PROVE FrameInv'
  OBVIOUS
<1>1. PICK k \in {1, Missing, Len(stream)} :
         /\ k <= Missing /\ k <= Len(stream)
         /\ LET read == buffer \o SubSeq(stream, 1, k) IN
            /\ stream' = SubSeq(stream, k + 1, Len(stream))
            /\ broken' = (Len(read) = HLEN /\ Lead(read) # LeadCode)
            /\ IF Len(read) > HLEN /\ k = Missing
               THEN buffer' = << >> /\ got' = Append(got, read)
               ELSE buffer' = read /\ UNCHANGED got
  BY DEF Read
<1>2. stream # << >> /\ program' = program /\ meant' = meant
  BY DEF Read
<1>3. PICK end : Ends(end) /\ Carries(end)
  BY DEF FrameInv
<1>4. /\ stream \in Seq(Octet) /\ buffer \in Seq(Octet) /\ got \in Seq(Seq(Octet))
      /\ meant \in Seq(Meanings) /\ Len(meant) \in Nat /\ Len(got) \in Nat
  BY DEF FrameInv, FrameTypes
<1> DEFINE n == Len(got)  m == meant[n + 1]  f == m.bytes  L == Len(f)
           r == buffer \o SubSeq(stream, 1, k)
           t == SubSeq(stream, k + 1, Len(stream))
<1>5. /\ n + 1 \in 1 .. Len(meant) /\ WellFormed(m)
      /\ Len(buffer) < L /\ L <= Len(Wire)
      /\ \A i \in 1 .. L : Wire[i] = f[i]
  BY <1>2, <1>3, NextFrame
<1>6. f \in Seq(Octet) /\ L \in 20 .. 300 /\ n \in Nat
  BY <1>4, <1>5 DEF WellFormed, Meanings
<1>7. k \in 1 .. Len(stream) /\ k \in Nat
  <2>1. Len(stream) \in Nat /\ Len(stream) >= 1
    BY <1>2, <1>4
  <2>2. Missing \in Nat /\ Missing >= 1
    <3>1. CASE Len(buffer) < HLEN
      BY <3>1, <1>4 DEF Missing, HLEN
    <3>2. CASE ~ (Len(buffer) < HLEN)
      <4> DEFINE b == Len(buffer)
      <4>1. b \in Nat /\ b >= 18 /\ HLEN = 18 /\ b < L
        BY <3>2, <1>4, <1>5 DEF HLEN
      <4>2. 17 \in 1 .. b /\ 18 \in 1 .. b /\ 17 \in 1 .. L /\ 18 \in 1 .. L
        <5>1. \A x \in Nat : x >= 18 => 17 \in 1 .. x /\ 18 \in 1 .. x
          OBVIOUS
        <5>2. L \in Nat /\ L >= 18
          <6>1. \A x \in 20 .. 300 : x \in Nat /\ x >= 18
            OBVIOUS
          <6> QED
            BY <6>1, <1>6, Zenon
        <5> QED
          BY <5>1, <5>2, <4>1, Zenon
      <4>3. \A i \in 1 .. b : Wire[i] = buffer[i]
        BY <1>4, JoinedParts DEF Joined, Wire
      <4>4. buffer[17] = f[17] /\ buffer[18] = f[18]
        BY <4>2, <4>3, <1>5
      <4> HIDE DEF b, L, f, m
      <4>5. TailLength(buffer) = TailLength(f)
        BY <4>4 DEF TailLength, DataLength
      <4>6. TailLength(f) = L - HLEN
        BY <1>5 DEF WellFormed, L, f
      <4>7. Missing = (HLEN + (L - HLEN)) - b
        BY <4>5, <4>6, <3>2 DEF Missing, b
      <4> QED
        BY <4>1, <4>7, <1>6
    <3> QED
      BY <3>1, <3>2
  <2> QED
    BY <2>1, <2>2, <1>1
<1> HIDE DEF r, t, L, f, m, n
<1>8. /\ r \in Seq(Octet) /\ Len(r) = Len(buffer) + k
      /\ t \in Seq(Octet) /\ Len(t) = Len(stream) - k
      /\ \A i \in 1 .. Len(r) : r[i] = Wire[i]
      /\ \A i \in 1 .. Len(t) : t[i] = Wire[Len(r) + i]
      /\ r \o t = Wire
  <2>1. r = buffer \o SubSeq(stream, 1, k) /\ t = SubSeq(stream, k + 1, Len(stream))
    BY DEF r, t
  <2>2. Cut(buffer, stream, k, r, t)
    BY <2>1, <1>4, <1>7, ReadCuts
  <2> QED
    BY <2>2 DEF Wire, Cut
<1>9. /\ ~ (Len(r) = HLEN /\ Lead(r) # LeadCode)
      /\ Len(r) > HLEN /\ k = Missing => r = f
      /\ ~ (Len(r) > HLEN /\ k = Missing) => Len(r) < L
  <2>1. \A i \in 1 .. Len(r) : i <= Len(m.bytes) => r[i] = m.bytes[i]
    <3> SUFFICES ASSUME NEW i \in 1 .. Len(r), i <= L PROVE r[i] = f[i]
      BY DEF L, f
    <3>1. i \in 1 .. L
      BY <1>6, <1>8
    <3> QED
      BY <3>1, <1>5, <1>8
  <2>2. \A i \in 1 .. Len(buffer) : r[i] = buffer[i]
    <3> SUFFICES ASSUME NEW i \in 1 .. Len(buffer) PROVE r[i] = buffer[i]
      OBVIOUS
    <3>1. Wire[i] = buffer[i]
      BY <1>4, JoinedParts DEF Joined, Wire
    <3>2. i \in 1 .. Len(r)
      BY <1>4, <1>7, <1>8
    <3> QED
      BY <3>1, <3>2, <1>8
  <2>3. k >= 1 /\ k <= Missing /\ Len(buffer) < Len(m.bytes)
    BY <1>1, <1>5, <1>7 DEF L, f
  <2> QED
    BY <2>1, <2>2, <2>3, <1>4, <1>5, <1>7, <1>8, AskedFor DEF L, f
<1>10. stream' = t /\ ~ broken'
  BY <1>1, <1>9 DEF r, t
<1>11. Ends(end)'
  BY <1>2, <1>3 DEF Ends
<1>12. CASE Len(r) > HLEN /\ k = Missing
  <2>1. buffer' = << >> /\ got' = Append(got, f) /\ r = f
    BY <1>1, <1>9, <1>12 DEF r
  <2>2. /\ got' \in Seq(Seq(Octet)) /\ Len(got') = n + 1 /\ got'[n + 1] = f
        /\ \A i \in 1 .. n : got'[i] = got[i]
    BY <2>1, <1>4, <1>6 DEF n
  <2>3. Wire' = t
    BY <2>1, <1>8, <1>10 DEF Wire
  <2>4. FrameTypes'
    BY <2>1, <2>2, <1>2, <1>8, <1>10, SMTT(30) DEF FrameTypes, FrameInv
  <2>5. ReadInOrder'
    <3>1. \A i \in 1 .. n : got[i] = meant[i].bytes
      BY DEF FrameInv, ReadInOrder, n
    <3>2. \A i \in 1 .. n + 1 : i \in 1 .. n \/ i = n + 1
      BY <1>6
    <3>3. \A i \in 1 .. n + 1 : got'[i] = meant[i].bytes
      BY <3>1, <3>2, <2>2 DEF f, m
    <3>4. n + 1 <= Len(meant)
      BY <1>5, <1>6
    <3> QED
      BY <3>3, <3>4, <2>2, <1>2 DEF ReadInOrder
  <2>6. Unfinished'
    BY <2>1 DEF Unfinished
  <2>7. Carries(end)'
    <3> DEFINE N == Len(meant)
    <3>1. /\ end \in [0 .. N -> Nat]
          /\ \A i \in 1 .. N : end[i] = end[i - 1] + Len(meant[i].bytes)
          /\ \A i, j \in 0 .. N : i <= j => end[i] <= end[j]
          /\ end[N] = end[n] + Len(Wire)
          /\ \A i \in n + 1 .. N : \A j \in 1 .. Len(meant[i].bytes) :
                Wire[(end[i - 1] - end[n]) + j] = meant[i].bytes[j]
      BY <1>3 DEF Ends, Carries, n
    <3>2. N \in Nat /\ n + 1 \in 1 .. N
      BY <1>4, <1>5
    <3>3. n \in 0 .. N /\ n + 1 \in 0 .. N /\ N \in 0 .. N /\ (n + 1) - 1 = n
      BY <3>2, <1>6
    <3>4. end[n] \in Nat /\ end[n + 1] \in Nat /\ end[N] \in Nat
      BY <3>1, <3>3
    <3>5. end[n + 1] = end[n] + L
      BY <3>1, <3>2, <3>3 DEF L, f, m
    <3>6. Len(Wire) = L + Len(t) /\ Len(t) \in Nat
      <4>1. Joined(r, t, Wire, Octet)
        BY <1>8, JoinedParts
      <4>2. Len(Wire) = Len(r) + Len(t)
        BY <4>1 DEF Joined
      <4> QED
        BY <4>2, <2>1, <1>8 DEF L
    <3> HIDE DEF N
    <3>7. end[N] = end[n + 1] + Len(t)
      <4>1. \A a, b, c, l, x \in Nat : c = a + (l + x) /\ b = a + l => c = b + x
        OBVIOUS
      <4>2. end[N] = end[n] + (L + Len(t)) /\ L \in Nat
        BY <3>1, <3>6, <1>6
      <4> QED
        BY <4>1, <4>2, <3>4, <3>5, <3>6
    <3>8. ASSUME NEW i \in (n + 1) + 1 .. N, NEW j \in 1 .. Len(meant[i].bytes)
          PROVE  t[(end[i - 1] - end[n + 1]) + j] = meant[i].bytes[j]
      <4> DEFINE g == meant[i].bytes  p == (end[i - 1] - end[n + 1]) + j
      <4>1. i \in 1 .. N /\ i \in 0 .. N /\ i - 1 \in 0 .. N /\ i \in n + 1 .. N
            /\ n + 1 <= i - 1 /\ i <= N
        BY <3>2, <1>6
      <4>2. end[i] = end[i - 1] + Len(g) /\ end[n + 1] <= end[i - 1] /\ end[i] <= end[N]
            /\ end[i] \in Nat /\ end[i - 1] \in Nat
        BY <3>1, <3>3, <4>1
      <4>3. Len(g) \in Nat /\ j \in 1 .. Len(g) /\ j \in Nat
        <5>1. WellFormed(meant[i])
          BY <4>1 DEF FrameInv, FrameTypes, N
        <5>2. Len(meant[i].bytes) \in Nat /\ \A x \in 1 .. Len(meant[i].bytes) : x \in Nat
          BY <5>1, WrittenLength
        <5> QED
          BY <5>2
      <4>4. Wire[(end[i - 1] - end[n]) + j] = g[j]
        BY <3>1, <4>1
      <4> HIDE DEF g
      <4>5. p \in 1 .. Len(t)
        <5>1. \A e, h, o, q, l, w, x \in Nat :
                 /\ e = h + l /\ o <= h /\ e <= q /\ q = o + w /\ x \in 1 .. l
                 => (h - o) + x \in 1 .. w
          OBVIOUS
        <5> QED
          BY <5>1, <3>4, <3>6, <3>7, <4>2, <4>3
      <4>6. L + p = (end[i - 1] - end[n]) + j
        <5>1. \A h, o, l, x, a \in Nat : a = o + l => l + ((h - a) + x) = (h - o) + x
          OBVIOUS
        <5>2. L \in Nat
          BY <1>6
        <5> QED
          BY <5>1, <5>2, <3>4, <3>5, <4>2, <4>3, SMTT(30)
      <4> HIDE DEF p
      <4>7. t[p] = Wire[L + p]
        BY <4>5, <1>8, <2>1 DEF L
      <4>8. t[p] = g[j]
        BY <4>4, <4>6, <4>7
      <4> QED
        BY <4>8 DEF p, g
    <3>9. \A i \in (n + 1) + 1 .. N : \A j \in 1 .. Len(meant[i].bytes) :
             t[(end[i - 1] - end[n + 1]) + j] = meant[i].bytes[j]
      BY <3>8
    <3> QED
      BY <3>7, <3>9, <2>2, <2>3, <1>2 DEF Carries, N
  <2> QED
    BY <2>4, <2>5, <2>6, <2>7, <1>11 DEF FrameInv
<1>13. CASE ~ (Len(r) > HLEN /\ k = Missing)
  <2>1. buffer' = r /\ got' = got /\ Len(r) < L
    BY <1>1, <1>9, <1>13 DEF r
  <2>2. Wire' = Wire
    BY <2>1, <1>8, <1>10 DEF Wire
  <2>3. FrameTypes'
    BY <2>1, <1>2, <1>8, <1>10 DEF FrameTypes, FrameInv
  <2>4. ReadInOrder'
    BY <2>1, <1>2 DEF FrameInv, ReadInOrder
  <2>5. Unfinished'
    <3>1. n < Len(meant)
      BY <1>4, <1>5, <1>6
    <3> QED
      BY <3>1, <2>1, <1>2 DEF Unfinished, L, f, m, n
  <2>6. Carries(end)'
    BY <2>1, <2>2, <1>2, <1>3 DEF Carries
  <2> QED
    BY <2>3, <2>4, <2>5, <2>6, <1>11 DEF FrameInv
<1> QED
  BY <1>12, <1>13

LEMMA FrameInductive == FrameInv /\ [Next]_vars => FrameInv'
<1> SUFFICES ASSUME FrameInv, [Next]_vars PROVE FrameInv'
  OBVIOUS
<1>0. program \in Programs
  BY DEF FrameInv, FrameTypes
<1>1. CASE Reply
  BY <1>0, <1>1, AnswersWellFormed, FrameWritten DEF Reply
<1>2. CASE Tell
  BY <1>0, <1>2, TellsWellFormed, FrameWritten DEF Tell
<1>3. CASE Read
  BY <1>3, FrameRead
<1>4. CASE UNCHANGED vars
  <2>1. UNCHANGED <<FrameTypes, ReadInOrder, Unfinished>>
    BY <1>4 DEF vars, FrameTypes, ReadInOrder, Unfinished
  <2>2. ASSUME NEW end, Ends(end), Carries(end) PROVE Ends(end)' /\ Carries(end)'
    BY <1>4, <2>2 DEF vars, Ends, Carries, Wire
  <2> QED
    BY <2>1, <2>2 DEF FrameInv
<1> QED
  BY <1>1, <1>2, <1>3, <1>4 DEF Next

LEMMA FrameCorrect == Spec => []FrameInv
<1>1. Init => FrameInv
  BY FrameInitially
<1>2. FrameInv /\ [Next]_vars => FrameInv'
  BY FrameInductive
<1> QED
  BY <1>1, <1>2, PTL DEF Spec

LEMMA InvUnderstood == FrameInv => Understood
<1> SUFFICES ASSUME FrameInv PROVE Understood
  OBVIOUS
<1>1. /\ stream \in Seq(Octet) /\ buffer \in Seq(Octet) /\ got \in Seq(Seq(Octet))
      /\ meant \in Seq(Meanings) /\ Len(meant) \in Nat /\ Len(got) \in Nat
      /\ ~ broken /\ Len(got) <= Len(meant) /\ DOMAIN got = 1 .. Len(got)
  BY DEF FrameInv, FrameTypes, ReadInOrder
<1>2. ASSUME NEW i \in DOMAIN got
      PROVE  /\ got[i] = meant[i].bytes /\ Length(got[i]) = Len(got[i])
             /\ ByteToHex(Dst(got[i])) = ByteToHex(meant[i].to)
             /\ ByteToHex(Src(got[i])) = ByteToHex(meant[i].about)
             /\ Cmd(got[i]) = meant[i].cmd
  <2>1. i \in 1 .. Len(got) /\ i \in 1 .. Len(meant)
    BY <1>1
  <2>2. got[i] = meant[i].bytes
    BY <2>1 DEF FrameInv, ReadInOrder
  <2>3. WellFormed(meant[i])
    BY <2>1 DEF FrameInv, FrameTypes
  <2> QED
    BY <2>2, <2>3 DEF WellFormed
<1>3. ASSUME stream = << >>, buffer = << >>, Len(got) # Len(meant)
      PROVE  FALSE
  <2>1. PICK end : Ends(end) /\ Carries(end)
    BY DEF FrameInv
  <2> DEFINE N == Len(meant)  n == Len(got)  L == Len(meant[n + 1].bytes)
  <2>2. Len(Wire) = 0
    BY <1>3 DEF Wire
  <2>3. n + 1 \in 1 .. N /\ n + 1 \in 0 .. N /\ N \in 0 .. N /\ n \in 0 .. N
        /\ (n + 1) - 1 = n /\ n + 1 <= N
    BY <1>1, <1>3
  <2>4. L \in 20 .. 300
    <3>1. WellFormed(meant[n + 1])
      BY <2>3 DEF FrameInv, FrameTypes
    <3> QED
      BY <3>1 DEF WellFormed
  <2> HIDE DEF L
  <2>5. end[n + 1] = end[n] + L /\ end[n + 1] <= end[N] /\ end[N] = end[n] + 0
        /\ end[n] \in Nat /\ end[N] \in Nat
    BY <2>1, <2>2, <2>3 DEF Ends, Carries, L
  <2> QED
    BY <2>4, <2>5
<1> QED
  BY <1>1, <1>2, <1>3 DEF Understood

LEMMA InvChecked == FrameInv => Checked
<1> SUFFICES ASSUME FrameInv, meant # << >>
             PROVE  LET f == Last(meant).bytes IN
                      Last(f) = Polynomial(SubSeq(f, 3, Len(f) - 1))
  BY DEF Checked
<1>1. meant \in Seq(Meanings)
  BY DEF FrameInv, FrameTypes
<1>2. Len(meant) \in 1 .. Len(meant)
  BY <1>1
<1>3. WellFormed(Last(meant))
  BY <1>2 DEF FrameInv, FrameTypes, Last
<1> QED
  BY <1>3 DEF WellFormed

\* A reader gets the frames a program writes to it one by one, each whole and with
\* the addresses and the command the writer meant, however the bytes are cut: for
\* all addresses, times and numbers of frames.  handle_read, HandleClientConnection
\* and HandleReceiveFromServer never lose their place in the stream.
THEOREM ReadAsWritten == Spec => []Understood
<1>1. FrameInv => Understood
  BY InvUnderstood
<1> QED
  BY <1>1, FrameCorrect, PTL

\* Every frame that data_frame constructs ends in the check sum of the polynomial:
\* the table, the turn of the loop over it and the bytes it is taken of are right.
THEOREM CheckSumsRight == Spec => []Checked
<1>1. FrameInv => Checked
  BY InvChecked
<1> QED
  BY <1>1, FrameCorrect, PTL
=============================================================================
