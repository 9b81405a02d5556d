-------------------------- MODULE SmallPartsProofs --------------------------
(***************************************************************************)
(* The parts that share no state with the rest: the SMS client of          *)
(* DataServer, for every set of requests and whatever the connection to    *)
(* the SMS server does, and the configuration, for a line of any length.   *)
(***************************************************************************)
EXTENDS MessageClient, Config, FiniteSetTheorems, SequenceTheorems, WellFoundedInduction,
        TLAPS

-----------------------------------------------------------------------------
(* MessageClient: a request is in one place only.                          *)

\* Nothing is waiting, in hand or sent that was not asked for; so the request that is
\* asked for is in no other place.  The set is finite, so that it has an order, and the
\* thread writes only when it has something to write.
Places ==
    /\ IsFiniteSet(writeQueue) /\ (at = "send" => list # << >>)
    /\ writeQueue \in SUBSET asked /\ sent \in SUBSET asked /\ list \in Seq(asked)
    /\ OnePlace

\* What the thread does to its list: it appends other requests, in any order, and
\* takes the first.
LEMMA AppendsOnce ==
  ASSUME NEW S, NEW q \in Seq(S), NEW W \in SUBSET S, IsFiniteSet(W), NEW order \in SetToSeqs(W),
         IsInjective(q), W \intersect ToSet(q) = {}
  PROVE  /\ q \o order \in Seq(S) /\ IsInjective(q \o order)
         /\ ToSet(q \o order) \subseteq ToSet(q) \union W
<1>1. Cardinality(W) \in Nat
  BY FS_CardinalityType
<1>2. PICK n \in Nat : /\ order \in [1 .. n -> W]
                       /\ \A i, j \in 1 .. n : i # j => order[i] # order[j]
  BY <1>1 DEF SetToSeqs
<1>3. /\ order \in Seq(S) /\ Len(order) = n /\ DOMAIN order = 1 .. n
      /\ Len(q) \in Nat /\ DOMAIN q = 1 .. Len(q)
  BY <1>2
<1>4. /\ q \o order \in Seq(S) /\ DOMAIN (q \o order) = 1 .. Len(q) + n
      /\ \A i \in 1 .. Len(q) + n :
            (q \o order)[i] = IF i <= Len(q) THEN q[i] ELSE order[i - Len(q)]
  BY <1>3
<1>5. \A i \in 1 .. Len(q) + n : i <= Len(q) => i \in 1 .. Len(q) /\ q[i] \in ToSet(q)
  BY <1>3 DEF ToSet
<1>6. \A i \in 1 .. Len(q) + n : ~ (i <= Len(q)) => i - Len(q) \in 1 .. n
  BY <1>3
<1>7. ToSet(q \o order) \subseteq ToSet(q) \union W
  BY <1>2, <1>4, <1>5, <1>6 DEF ToSet
<1>8. IsInjective(q \o order)
  <2> SUFFICES ASSUME NEW i \in 1 .. Len(q) + n, NEW j \in 1 .. Len(q) + n,
                      (q \o order)[i] = (q \o order)[j]
               PROVE  i = j
    BY <1>4 DEF IsInjective
  <2>1. CASE i <= Len(q) /\ j <= Len(q)
    BY <1>3, <1>4, <1>5, <2>1 DEF IsInjective
  <2>2. CASE i <= Len(q) /\ ~ (j <= Len(q))
    BY <1>2, <1>4, <1>5, <1>6, <2>2
  <2>3. CASE ~ (i <= Len(q)) /\ j <= Len(q)
    BY <1>2, <1>4, <1>5, <1>6, <2>3
  <2>4. CASE ~ (i <= Len(q)) /\ ~ (j <= Len(q))
    <3>1. i - Len(q) = j - Len(q)
      BY <1>2, <1>4, <1>6, <2>4
    <3> QED
      BY <1>3, <3>1
  <2> QED
    BY <2>1, <2>2, <2>3, <2>4
<1> QED
  BY <1>4, <1>7, <1>8

LEMMA TailInjective ==
  ASSUME NEW S, NEW q \in Seq(S), q # << >>, IsInjective(q)
  PROVE  /\ Tail(q) \in Seq(S) /\ Head(q) \in ToSet(q) /\ IsInjective(Tail(q))
         /\ ToSet(Tail(q)) \subseteq ToSet(q) /\ Head(q) \notin ToSet(Tail(q))
<1>1. /\ Tail(q) \in Seq(S) /\ Len(q) \in Nat /\ Len(q) > 0
      /\ Head(q) = q[1] /\ 1 \in DOMAIN q
      /\ DOMAIN q = 1 .. Len(q) /\ DOMAIN Tail(q) = 1 .. Len(q) - 1
      /\ \A i \in 1 .. Len(q) - 1 : Tail(q)[i] = q[i + 1]
  OBVIOUS
<1>2. \A i \in 1 .. Len(q) - 1 : i + 1 \in 1 .. Len(q) /\ i + 1 # 1
  BY <1>1
<1>3. Head(q) \in ToSet(q) /\ ToSet(Tail(q)) \subseteq ToSet(q)
  BY <1>1, <1>2 DEF ToSet
<1>4. IsInjective(Tail(q))
  BY <1>1, <1>2 DEF IsInjective
<1>5. Head(q) \notin ToSet(Tail(q))
  BY <1>1, <1>2 DEF ToSet, IsInjective
<1> QED
  BY <1>1, <1>3, <1>4, <1>5

LEMMA InitPlaces == SmsInit => Places
  BY FS_EmptySet DEF SmsInit, Places, OnePlace, IsInjective, ToSet

LEMMA NextPlaces == Places /\ [SmsNext]_smsVars => Places'
<1> SUFFICES ASSUME Places, [SmsNext]_smsVars PROVE Places'
  OBVIOUS
<1> USE DEF Places, OnePlace
<1>1. ASSUME NEW r \in SmsRequests, SendMessage(r) PROVE Places'
  <2>1. list \in Seq(asked') /\ ToSet(list) \subseteq asked
    BY <1>1 DEF SendMessage, ToSet
  <2> QED
    BY <1>1, <2>1, FS_AddElement DEF SendMessage
<1>2. CASE Connect
  BY <1>2, FS_EmptySet DEF Connect
<1>3. CASE Collect
  <2>1. PICK order \in SetToSeqs(writeQueue) : list' = list \o order
    BY <1>3 DEF Collect
  <2>2. writeQueue' = {} /\ UNCHANGED <<sent, asked>>
    BY <1>3 DEF Collect
  <2>3. /\ list' \in Seq(asked) /\ IsInjective(list')
        /\ ToSet(list') \subseteq ToSet(list) \union writeQueue
    BY <2>1, AppendsOnce
  <2>4. at' = "send" => list' # << >>
    BY <1>3 DEF Collect
  <2> QED
    BY <2>2, <2>3, <2>4, FS_EmptySet
<1>4. CASE Send
  <2>1. /\ list # << >> /\ sent' = sent \union {Head(list)} /\ list' = Tail(list)
        /\ (at' = "send" => list' # << >>) /\ UNCHANGED <<writeQueue, asked>>
    BY <1>4 DEF Send
  <2>2. ToSet(list) \subseteq asked
    BY DEF ToSet
  <2> QED
    BY <2>1, <2>2, TailInjective
<1>5. CASE SendFails
  BY <1>5 DEF SendFails
<1>6. CASE UNCHANGED smsVars
  BY <1>6 DEF smsVars
<1> QED
  BY <1>1, <1>2, <1>3, <1>4, <1>5, <1>6 DEF SmsNext, WriteMessageT

\* The variables of the SMS client keep their types, for any requests.
THEOREM SmsTypeCorrect == SmsSpec => []SmsTypeOK
<1> DEFINE Types == asked \in SUBSET SmsRequests /\ at \in {"connect", "collect", "send"}
<1>1. SmsInit => Types
  BY DEF SmsInit
<1>2. Types /\ [SmsNext]_smsVars => Types'
  BY DEF SmsNext, SendMessage, Connect, Collect, Send, SendFails, WriteMessageT, smsVars
<1>3. Places /\ Types => SmsTypeOK
  BY SeqMonotonic DEF Places, SmsTypeOK
<1> QED
  BY <1>1, <1>2, <1>3, InitPlaces, NextPlaces, PTL DEF SmsSpec

\* A request waits, is in hand or was sent, and is in the list once: so it is written
\* once at most, though the list survives a failed write and is written again.
THEOREM RequestInOnePlace == SmsSpec => []OnePlace
<1>1. Places => OnePlace
  BY DEF Places
<1> QED
  BY InitPlaces, NextPlaces, <1>1, PTL DEF SmsSpec

-----------------------------------------------------------------------------
(* Config: positions in a line.                                            *)

\* A set of positions has a first and a last one.
LEMMA FirstPosition ==
  ASSUME NEW n \in Nat, NEW I \in SUBSET (1 .. n), I # {}
  PROVE  \E i \in I : \A j \in I : i <= j
<1>1. I \subseteq Nat
  OBVIOUS
<1>2. PICK i \in I : \A j \in I : ~ (<<j, i>> \in OpToRel(<, Nat))
  BY <1>1, NatLessThanWellFounded, WFMin
<1>3. \A j \in I : ~ (j < i)
  BY <1>1, <1>2 DEF OpToRel
<1> QED
  BY <1>1, <1>3

LEMMA LastPosition ==
  ASSUME NEW n \in Nat, NEW I \in SUBSET (1 .. n), I # {}
  PROVE  \E i \in I : \A j \in I : j <= i
<1> DEFINE J == {n + 1 - i : i \in I}
<1>1. J \in SUBSET (1 .. n)
  <2>1. \A i \in I : n + 1 - i \in 1 .. n
    OBVIOUS
  <2> QED
    BY <2>1
<1>0. J # {}
  <2>1. PICK i \in I : TRUE
    OBVIOUS
  <2>2. n + 1 - i \in J
    OBVIOUS
  <2> QED
    BY <2>2
<1> HIDE DEF J
<1>2. PICK a \in J : \A b \in J : a <= b
  BY <1>0, <1>1, FirstPosition
<1>3. PICK i \in I : a = n + 1 - i
  BY <1>2 DEF J
<1>4. \A j \in I : n + 1 - j \in J
  BY DEF J
<1>5. \A j \in I : a <= n + 1 - j
  BY <1>2, <1>4
<1>6. \A j \in I : j <= i
  <2>1. I \subseteq Int /\ n \in Int
    OBVIOUS
  <2> QED
    BY <1>3, <1>5, <2>1
<1> QED
  BY <1>6

\* Find gives the first position of a character, or 0.
LEMMA FindFirst ==
  ASSUME NEW str \in Seq(Chars), NEW ch
  PROVE  \/ Find(str, ch) = 0 /\ \A i \in 1 .. Len(str) : str[i] # ch
         \/ /\ Find(str, ch) \in 1 .. Len(str) /\ str[Find(str, ch)] = ch
            /\ \A i \in 1 .. Len(str) : i < Find(str, ch) => str[i] # ch
<1> DEFINE I == {i \in 1 .. Len(str) : str[i] = ch}
<1>1. Find(str, ch) = IF I # {} THEN Min(I) ELSE 0
  BY DEF Find, SelectInSeq
<1>2. CASE I = {}
  BY <1>1, <1>2
<1>3. CASE I # {}
  <2>0. Len(str) \in Nat /\ I \in SUBSET (1 .. Len(str))
    OBVIOUS
  <2> HIDE DEF I
  <2>1. \E i \in I : \A j \in I : i <= j
    BY <2>0, <1>3, FirstPosition
  <2>2. Min(I) \in I /\ \A j \in I : Min(I) <= j
    BY <2>1 DEF Min
  <2>3. Find(str, ch) \in I /\ \A j \in I : Find(str, ch) <= j
    BY <1>1, <1>3, <2>2
  <2>4. \A i \in 1 .. Len(str) : i \in I <=> str[i] = ch
    BY DEF I
  <2>5. Find(str, ch) \in 1 .. Len(str) /\ str[Find(str, ch)] = ch
    BY <2>3 DEF I
  <2> QED
    BY <2>3, <2>4, <2>5
<1> QED
  BY <1>2, <1>3

-----------------------------------------------------------------------------
(* Parts of a line.                                                        *)

\* What stands in a part of a line that starts inside it.
LEMMA PartOfLine ==
  ASSUME NEW str \in Seq(Chars), NEW a \in Nat \ {0}, NEW b \in Int, b <= Len(str)
  PROVE  /\ SubSeq(str, a, b) \in Seq(Chars)
         /\ Len(SubSeq(str, a, b)) = IF a <= b THEN b - a + 1 ELSE 0
         /\ \A i \in 1 .. b - a + 1 : SubSeq(str, a, b)[i] = str[a + i - 1]
<1>1. \A i \in a .. b : str[i] \in Chars
  <2>1. \A i \in a .. b : i \in 1 .. Len(str)
    OBVIOUS
  <2> QED
    BY <2>1
<1> QED
  BY <1>1, SubSeqProperties

\* A part of the beginning of a line is that part of the line.
LEMMA PartOfBeginning ==
  ASSUME NEW str \in Seq(Chars), NEW l \in 0 .. Len(str),
         NEW a \in Nat \ {0}, NEW b \in Int, b <= l
  PROVE  SubSeq(SubSeq(str, 1, l), a, b) = SubSeq(str, a, b)
<1> DEFINE t == SubSeq(str, 1, l)
<1>1. /\ t \in Seq(Chars) /\ Len(t) = l
      /\ \A i \in 1 .. l : t[i] = str[i]
  BY PartOfLine
<1> HIDE DEF t
<1>2. /\ SubSeq(t, a, b) \in Seq(Chars)
      /\ Len(SubSeq(t, a, b)) = IF a <= b THEN b - a + 1 ELSE 0
      /\ \A i \in 1 .. b - a + 1 : SubSeq(t, a, b)[i] = t[a + i - 1]
  BY <1>1, PartOfLine
<1>3. /\ SubSeq(str, a, b) \in Seq(Chars)
      /\ Len(SubSeq(str, a, b)) = IF a <= b THEN b - a + 1 ELSE 0
      /\ \A i \in 1 .. b - a + 1 : SubSeq(str, a, b)[i] = str[a + i - 1]
  BY PartOfLine
<1>4. \A i \in 1 .. b - a + 1 : a + i - 1 \in 1 .. l
  OBVIOUS
<1>5. \A i \in 1 .. Len(SubSeq(t, a, b)) : SubSeq(t, a, b)[i] = SubSeq(str, a, b)[i]
  BY <1>1, <1>2, <1>3, <1>4
<1>6. SubSeq(t, a, b) = SubSeq(str, a, b)
  BY <1>2, <1>3, <1>5, SeqEqual
<1> QED
  BY <1>6 DEF t

\* Nothing is left of a part that holds no character.
LEMMA TrimEmpty ==
  Trim(<< >>) = << >>
<1>1. {i \in DOMAIN << >> : ~ IsSpace(<< >>[i])} = {}
  OBVIOUS
<1> QED
  BY <1>1 DEF Trim

\* What is left of one character is at most that.
LEMMA TrimShort ==
  ASSUME NEW str \in Seq(Chars), Len(str) = 1
  PROVE  Len(Trim(str)) <= 1
<1> DEFINE text == {j \in DOMAIN str : ~ IsSpace(str[j])}
<1>1. CASE text = {}
  <2>1. Trim(str) = << >>
    BY <1>1 DEF Trim
  <2>2. Len(<< >>) = 0
    BY EmptySeq
  <2> QED
    BY <2>1, <2>2
<1>2. CASE text # {}
  <2>1. text = {1}
    BY <1>2
  <2> DEFINE a == CHOOSE x \in text : \A j \in text : x <= j
             b == CHOOSE x \in text : \A j \in text : j <= x
  <2>2. Trim(str) = SubSeq(str, a, b)
    BY <1>2 DEF Trim
  <2> HIDE DEF text
  <2>3. a = 1 /\ b = 1
    BY <2>1
  <2> HIDE DEF a, b
  <2>4. Len(SubSeq(str, 1, 1)) = 1
    BY PartOfLine
  <2> QED
    BY <2>2, <2>3, <2>4
<1> QED
  BY <1>1, <1>2

\* A character other than a space is not lost at the ends.
LEMMA TrimKeeps ==
  ASSUME NEW str \in Seq(Chars), NEW i \in 1 .. Len(str), NEW ch,
         str[i] = ch, ~ IsSpace(ch)
  PROVE  Contains(Trim(str), ch)
<1> DEFINE text == {j \in DOMAIN str : ~ IsSpace(str[j])}
<1> DEFINE a == CHOOSE x \in text : \A j \in text : x <= j
<1> DEFINE b == CHOOSE x \in text : \A j \in text : j <= x
<1>1. i \in text
  OBVIOUS
<1>2. text \in SUBSET (1 .. Len(str)) /\ Len(str) \in Nat
  OBVIOUS
<1>3. Trim(str) = SubSeq(str, a, b)
  BY <1>1 DEF Trim
<1> HIDE DEF text
<1>4. a \in text /\ \A j \in text : a <= j
  <2>1. \E x \in text : \A j \in text : x <= j
    BY <1>1, <1>2, FirstPosition
  <2> QED
    BY <2>1
<1>5. b \in text /\ \A j \in text : j <= b
  <2>1. \E x \in text : \A j \in text : j <= x
    BY <1>1, <1>2, LastPosition
  <2> QED
    BY <2>1
<1> HIDE DEF a, b
<1>6. a \in 1 .. Len(str) /\ b \in 1 .. Len(str) /\ a <= i /\ i <= b
  BY <1>1, <1>2, <1>4, <1>5
<1>7. /\ Len(Trim(str)) = b - a + 1
      /\ \A k \in 1 .. b - a + 1 : Trim(str)[k] = str[a + k - 1]
  BY <1>2, <1>3, <1>6, PartOfLine
<1>8. i - a + 1 \in 1 .. b - a + 1 /\ a + (i - a + 1) - 1 = i
  BY <1>6
<1>9. Trim(str)[i - a + 1] = ch
  BY <1>7, <1>8
<1> QED
  BY <1>7, <1>8, <1>9 DEF Contains

-----------------------------------------------------------------------------
(* A line that is analysed as it was meant.                                *)

\* The text of a line is its first EndPos + 1 characters.
LEMMA TextOfLine ==
  ASSUME NEW str \in Seq(Chars)
  PROVE  /\ EndPos(str) \in Int
         /\ EndPos(str) + 1 \in 0 .. Len(str)
         /\ Text(str) = SubSeq(str, 1, EndPos(str) + 1)
         /\ \/ Find(str, "#") = 0 /\ EndPos(str) + 1 = Len(str)
            \/ Find(str, "#") = EndPos(str) + 2
  BY FindFirst, SubSeqFull DEF EndPos, Text

\* The first '=' of the text is that of the line, unless a comment begins before.
LEMMA FindInText ==
  ASSUME NEW str \in Seq(Chars), NEW ch, NEW l \in 0 .. Len(str)
  PROVE  Find(SubSeq(str, 1, l), ch) = IF Find(str, ch) <= l THEN Find(str, ch) ELSE 0
<1> DEFINE t == SubSeq(str, 1, l)
<1>1. /\ t \in Seq(Chars) /\ Len(t) = l
      /\ \A i \in 1 .. l : t[i] = str[i]
  BY PartOfLine
<1> HIDE DEF t
<1> DEFINE p == Find(t, ch)  q == Find(str, ch)
<1>2. \/ p = 0 /\ \A i \in 1 .. l : t[i] # ch
      \/ p \in 1 .. l /\ t[p] = ch /\ \A i \in 1 .. l : i < p => t[i] # ch
  BY <1>1, FindFirst
<1>3. \/ q = 0 /\ \A i \in 1 .. Len(str) : str[i] # ch
      \/ /\ q \in 1 .. Len(str) /\ str[q] = ch
         /\ \A i \in 1 .. Len(str) : i < q => str[i] # ch
  BY FindFirst
<1> HIDE DEF p, q
<1>4. p = IF q <= l THEN q ELSE 0
  <2>1. CASE q = 0
    BY <1>1, <1>2, <1>3, <2>1
  <2>2. CASE q # 0 /\ q <= l
    <3>1. q \in 1 .. l /\ t[q] = ch
      BY <1>1, <1>3, <2>2
    <3>2. p \in 1 .. l /\ p <= q
      BY <1>2, <3>1
    <3>3. ~ (p < q)
      BY <1>1, <1>2, <1>3, <3>2
    <3> QED
      BY <2>2, <3>1, <3>2, <3>3
  <2>3. CASE ~ (q <= l)
    <3>1. \A i \in 1 .. l : t[i] # ch
      BY <1>1, <1>3, <2>3
    <3> QED
      BY <1>2, <2>3, <3>1
  <2> QED
    BY <1>3, <2>1, <2>2, <2>3
<1> QED
  BY <1>4 DEF p, q, t

\* A text of at most two characters holds no key of two, and the code reads nothing
\* from it.
LEMMA ShortText ==
  ASSUME NEW str \in Seq(Chars), EndPos(str) < 2
  PROVE  Used(Entry(str)) = Nothing /\ Used(Meant(str)) = Nothing
<1> DEFINE l == EndPos(str) + 1  text == Text(str)  pos == Find(text, "=")
<1>1. /\ EndPos(str) \in Int /\ l \in 0 .. Len(str) /\ l <= 2
      /\ text = SubSeq(str, 1, l)
      /\ \/ Find(str, "#") = 0 /\ l = Len(str)
         \/ Find(str, "#") = l + 1
  BY TextOfLine
<1>0. EndPos(str) \in Int /\ Len(str) \in Nat /\ l <= Len(str)
  <2>1. EndPos(str) \in Int /\ l \in 0 .. Len(str)
    BY <1>1
  <2>2. Len(str) \in Nat
    OBVIOUS
  <2> QED
    BY <2>1, <2>2
<1>2. text \in Seq(Chars) /\ Len(text) = l
  BY <1>1, PartOfLine
<1> HIDE DEF text
<1>3. pos \in 0 .. l
  BY <1>2, FindFirst
<1>4. Used(Nothing) = Nothing
  BY DEF Used
<1>5. Used(Meant(str)) = Nothing
  <2> DEFINE key == Trim(SubSeq(text, 1, pos - 1))
             value == Trim(SubSeq(text, pos + 1, Len(text)))
  <2>1. Meant(str) = IF pos = 0 \/ key = << >> THEN Nothing ELSE <<key, value>>
    BY DEF Meant, text
  <2>2. CASE pos = 0
    BY <1>4, <2>1, <2>2
  <2>3. CASE pos = 1
    <3>1. SubSeq(text, 1, pos - 1) = << >>
      BY <2>3, SubSeqEmpty
    <3> QED
      BY <1>4, <2>1, <3>1, TrimEmpty
  <2>4. CASE pos = 2
    <3>1. SubSeq(text, 1, pos - 1) \in Seq(Chars) /\ Len(SubSeq(text, 1, pos - 1)) = 1
      <4>1. 1 \in Int /\ pos - 1 = 1 /\ 1 <= Len(text)
        BY <1>2, <1>3, <2>4
      <4>2. SubSeq(text, 1, 1) \in Seq(Chars) /\ Len(SubSeq(text, 1, 1)) = 1
        BY <1>2, <4>1, PartOfLine
      <4> QED
        BY <4>1, <4>2
    <3>2. Len(key) <= 1
      BY <3>1, TrimShort
    <3> HIDE DEF key, value
    <3>3. ~ (Len(key) > 1)
      BY <3>2
    <3>4. Meant(str) # Nothing => Meant(str)[1] = key
      BY <2>1
    <3> QED
      BY <1>4, <2>1, <3>3, <3>4 DEF Used
  <2> QED
    BY <1>1, <1>3, <2>2, <2>3, <2>4
<1>6. Used(Entry(str)) = Nothing
  <2>1. CASE l = 0
    <3>1. ~ NotComment(str)
      BY <1>1, <2>1, EmptySeq DEF NotComment
    <3> QED
      BY <1>4, <3>1 DEF Entry, AnalyseLine
  <2>2. CASE l = 1
    <3>1. NewLine(str) = SubSeq(str, 1, 1)
      <4>1. 1 - EndPos(str) = 1 /\ ~ (1 < 0) /\ ~ (0 + 1 > Len(str)) /\ 0 + 1 = 1
        BY <1>0, <2>2
      <4> QED
        BY <4>1 DEF NewLine, Substr
    <3>2. NewLine(str) \in Seq(Chars) /\ Len(NewLine(str)) = 1
      <4>1. 1 \in Int /\ 1 \in Nat \ {0} /\ 1 <= Len(str)
        BY <1>0, <2>2
      <4>2. /\ SubSeq(str, 1, 1) \in Seq(Chars)
            /\ Len(SubSeq(str, 1, 1)) = IF 1 <= 1 THEN 1 - 1 + 1 ELSE 0
        BY <4>1, PartOfLine
      <4> QED
        BY <3>1, <4>2
    <3>3. Find(NewLine(str), "=") \in {0, 1}
      BY <3>2, FindFirst
    <3>4. Find(NewLine(str), "=") = 1 => Key(str) = << >>
      <4>1. SubSeq(NewLine(str), 1, 1 - 1) = << >>
        BY SubSeqEmpty
      <4> QED
        BY <4>1, TrimEmpty DEF Key
    <3> QED
      BY <1>4, <3>3, <3>4 DEF Entry, AnalyseLine
  <2>3. CASE l = 2
    <3>1. NewLine(str) = SubSeq(str, 1, 0)
      <4>1. 1 - EndPos(str) = 0 /\ ~ (0 < 0) /\ ~ (0 + 0 > Len(str)) /\ 0 + 0 = 0 /\ 0 + 1 = 1
        BY <1>0, <2>3
      <4> QED
        BY <4>1 DEF NewLine, Substr
    <3>2. NewLine(str) \in Seq(Chars) /\ Len(NewLine(str)) = 0
      BY <1>1, <3>1, PartOfLine
    <3>3. Find(NewLine(str), "=") = 0
      <4>1. 1 .. Len(NewLine(str)) = {}
        BY <3>2
      <4> QED
        BY <3>2, <4>1, FindFirst
    <3> QED
      BY <1>4, <3>3 DEF Entry, AnalyseLine
  <2> QED
    BY <1>1, <2>1, <2>2, <2>3
<1> QED
  BY <1>5, <1>6

\* A longer text is searched together with its comment, and sets the same.
LEMMA LongText ==
  ASSUME NEW str \in Seq(Chars), EndPos(str) >= 2
  PROVE  Used(Entry(str)) = Used(Meant(str))
<1> DEFINE l == EndPos(str) + 1  text == Text(str)  q == Find(str, "=")
<1>1. /\ EndPos(str) \in Int /\ l \in 0 .. Len(str) /\ l >= 3
      /\ text = SubSeq(str, 1, l)
      /\ \/ Find(str, "#") = 0 /\ l = Len(str)
         \/ Find(str, "#") = l + 1
  BY TextOfLine
<1>2. text \in Seq(Chars) /\ Len(text) = l
  BY <1>1, PartOfLine
<1>3. q \in 0 .. Len(str)
  BY FindFirst
<1>4. Used(Nothing) = Nothing
  BY DEF Used
<1>5. NewLine(str) = str
  <2>1. Substr(str, 0, 1 - EndPos(str)) = SubSeq(str, 1, Len(str))
    <3>1. 1 - EndPos(str) < 0
      BY <1>1
    <3> QED
      BY <3>1 DEF Substr
  <2> QED
    BY <2>1, SubSeqFull DEF NewLine
<1>6. NotComment(str)
  BY <1>1, EmptySeq DEF NotComment
<1>7. Find(text, "=") = IF q <= l THEN q ELSE 0
  BY <1>1, FindInText
<1>8. Key(str) = Trim(SubSeq(str, 1, q - 1))
  BY <1>5 DEF Key
<1>9. Entry(str) = IF q = 0 \/ Key(str) = << >> THEN Nothing
                   ELSE <<Key(str), ValueOf(str)>>
  BY <1>5, <1>6 DEF Entry, AnalyseLine
<1>10. Meant(str) =
         IF Find(text, "=") = 0 \/ Trim(SubSeq(text, 1, Find(text, "=") - 1)) = << >>
         THEN Nothing
         ELSE <<Trim(SubSeq(text, 1, Find(text, "=") - 1)),
                Trim(SubSeq(text, Find(text, "=") + 1, Len(text)))>>
  BY DEF Meant
<1>11. CASE q = 0
  BY <1>1, <1>7, <1>9, <1>10, <1>11
<1>12. CASE q # 0 /\ q <= l
  <2>1. Find(text, "=") = q
    BY <1>7, <1>12
  <2>2. SubSeq(text, 1, q - 1) = SubSeq(str, 1, q - 1)
    BY <1>1, <1>3, <1>12, PartOfBeginning
  <2>3. SubSeq(text, q + 1, Len(text)) = SubSeq(str, q + 1, l)
    <3>1. q + 1 \in Nat \ {0} /\ l \in Int /\ l <= l
      BY <1>1, <1>3
    <3>2. SubSeq(SubSeq(str, 1, l), q + 1, l) = SubSeq(str, q + 1, l)
      BY <1>1, <3>1, PartOfBeginning
    <3> QED
      BY <1>1, <1>2, <3>2
  <2>4. ValueOf(str) = Trim(SubSeq(str, q + 1, l))
    <3>1. Substr(str, q, EndPos(str) + 1 - q) = SubSeq(str, q + 1, l)
      <4>1. ~ (l - q < 0) /\ q + (l - q) = l /\ ~ (l > Len(str))
        BY <1>1, <1>3, <1>12
      <4>2. Substr(str, q, l - q) = SubSeq(str, q + 1, q + (l - q))
        BY <4>1 DEF Substr
      <4>3. EndPos(str) + 1 - q = l - q
        BY <1>1, <1>3
      <4> QED
        BY <4>1, <4>2, <4>3
    <3> QED
      BY <1>5, <3>1 DEF ValueOf
  <2>5. Entry(str) = Meant(str)
    BY <1>8, <1>9, <1>10, <1>12, <2>1, <2>2, <2>3, <2>4
  <2> QED
    BY <2>5
<1>13. CASE ~ (q <= l)
  <2>1. Used(Meant(str)) = Nothing
    BY <1>4, <1>7, <1>10, <1>13
  <2>2. Find(str, "#") = l + 1 /\ l + 1 \in 1 .. Len(str) /\ str[l + 1] = "#"
    BY <1>1, <1>3, <1>13, FindFirst
  <2>3. l + 1 # q
    <3>1. str[q] = "="
      BY <1>1, <1>3, <1>13, FindFirst
    <3> QED
      BY <2>2, <3>1
  <2> DEFINE before == SubSeq(str, 1, q - 1)
  <2>4. before \in Seq(Chars) /\ l + 1 \in 1 .. Len(before) /\ before[l + 1] = "#"
    <3>1. l + 1 \in 1 .. q - 1 /\ q - 1 \in Nat /\ q - 1 <= Len(str)
      BY <1>1, <1>3, <1>13, <2>2, <2>3
    <3>2. /\ before \in Seq(Chars) /\ Len(before) = q - 1
          /\ \A i \in 1 .. q - 1 : before[i] = str[i]
      BY <3>1, PartOfLine
    <3> QED
      BY <2>2, <3>1, <3>2
  <2> HIDE DEF before
  <2>5. Contains(Trim(before), "#")
    BY <2>4, TrimKeeps DEF IsSpace
  <2>6. Contains(Key(str), "#")
    BY <1>8, <2>5 DEF before
  <2>7. Used(Entry(str)) = Nothing
    BY <1>4, <1>9, <2>6 DEF Used
  <2> QED
    BY <2>1, <2>7
<1> QED
  BY <1>1, <1>3, <1>11, <1>12, <1>13

-----------------------------------------------------------------------------
(* The reader.                                                             *)

\* Every line that ReadConfig takes sets what its text was meant to set, however
\* long it is: AnalyseLine (getConfit.cpp) searches a line with its comment, but no
\* value comes from a comment and no key that the programs ask for.
THEOREM LineReadAsMeant == ConfigSpec => []ReadAsMeant
<1> DEFINE Inv == line \in Seq(Chars) /\ entry = Entry(line)
<1>1. ConfigInit => Inv
  <2> SUFFICES ASSUME ConfigInit PROVE Inv
    OBVIOUS
  <2>1. << >> \in Seq(Chars)
    OBVIOUS
  <2>2. Entry(<< >>) = Nothing
    BY DEF Entry, AnalyseLine, NotComment
  <2> QED
    BY <2>1, <2>2 DEF ConfigInit
<1>2. Inv /\ [ReadLine]_configVars => Inv'
  <2> SUFFICES ASSUME Inv, [ReadLine]_configVars PROVE Inv'
    OBVIOUS
  <2>1. CASE ReadLine
    <3>1. PICK str \in Lines : line' = str /\ entry' = Entry(str)
      BY <2>1 DEF ReadLine
    <3>2. Lines \subseteq Seq(Chars)
      BY DEF Lines, BoundedSeq, SeqOf
    <3> QED
      BY <3>1, <3>2
  <2>2. CASE UNCHANGED configVars
    BY <2>2 DEF configVars
  <2> QED
    BY <2>1, <2>2
<1>3. Inv => ReadAsMeant
  <2> SUFFICES ASSUME Inv PROVE Used(entry) = Used(Meant(line))
    BY DEF ReadAsMeant
  <2>1. EndPos(line) \in Int
    BY TextOfLine
  <2>2. CASE EndPos(line) < 2
    BY <2>2, ShortText
  <2>3. CASE EndPos(line) >= 2
    BY <2>3, LongText
  <2> QED
    BY <2>1, <2>2, <2>3
<1> QED
  BY <1>1, <1>2, <1>3, PTL DEF ConfigSpec
=============================================================================
