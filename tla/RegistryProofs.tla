--------------------------- MODULE RegistryProofs ---------------------------
(***************************************************************************)
(* What holds of Registry and of PackRegistry for every set of sessions,   *)
(* of gprs and of addresses, and for every interleaving of the io thread,  *)
(* the link thread and the writer thread of the link.                      *)
(***************************************************************************)
EXTENDS PackRegistry, SequenceTheorems, TLAPS

-----------------------------------------------------------------------------
(* What is left of a handler of the io thread.                             *)

\* After a 91 frame, ...
Registering == <<"register", "wake", "relay", "forward">>
Waking      == <<"wake", "relay", "forward">>
Relaying    == <<"relay", "forward">>
Storing1    == <<"storeTrue", "forward">>
Storing0    == <<"storeFalse", "forward">>
Forwarding  == <<"forward">>
Queueing    == <<"queue91">>
\* ... after any other frame, ...
RelayOnly   == <<"relay">>
StoreOnly1  == <<"storeTrue">>
StoreOnly0  == <<"storeFalse">>
\* ... and when the session is closed.
Erasing     == <<"erase", "sayEnd">>
Ending      == <<"sayEnd">>
QueueingEnd == <<"queueEE08">>

Telling == {Registering, Waking, Relaying, Storing1, Storing0, Forwarding, Queueing}
Closing == {Erasing, Ending, QueueingEnd}
Handlers == Telling \union Closing \union {<< >>, RelayOnly, StoreOnly1, StoreOnly0}

LEMMA Heads ==
  /\ Head(Registering) = "register" /\ Head(Waking) = "wake"
  /\ Head(Relaying) = "relay" /\ Head(RelayOnly) = "relay"
  /\ Head(Storing1) = "storeTrue" /\ Head(StoreOnly1) = "storeTrue"
  /\ Head(Storing0) = "storeFalse" /\ Head(StoreOnly0) = "storeFalse"
  /\ Head(Forwarding) = "forward" /\ Head(Queueing) = "queue91"
  /\ Head(Erasing) = "erase" /\ Head(Ending) = "sayEnd"
  /\ Head(QueueingEnd) = "queueEE08"
  BY DEF Registering, Waking, Relaying, Storing1, Storing0, Forwarding, Queueing,
         RelayOnly, StoreOnly1, StoreOnly0, Erasing, Ending, QueueingEnd

LEMMA Tails ==
  /\ Tail(Registering) = Waking /\ Tail(Waking) = Relaying
  /\ Tail(Relaying) = Forwarding /\ Tail(RelayOnly) = << >>
  /\ Tail(Storing1) = Forwarding /\ Tail(StoreOnly1) = << >>
  /\ Tail(Storing0) = Forwarding /\ Tail(StoreOnly0) = << >>
  /\ Tail(Forwarding) = << >> /\ Tail(Queueing) = << >>
  /\ Tail(Erasing) = Ending /\ Tail(Ending) = << >>
  /\ Tail(QueueingEnd) = << >>
<1>1. Tail(Registering) = Waking
  BY DEF Registering, Waking
<1>2. Tail(Waking) = Relaying
  BY DEF Waking, Relaying
<1>3. Tail(Relaying) = Forwarding
  BY DEF Relaying, Forwarding
<1>4. Tail(RelayOnly) = << >>
  BY DEF RelayOnly
<1>5. Tail(Storing1) = Forwarding
  BY DEF Storing1, Forwarding
<1>6. Tail(StoreOnly1) = << >>
  BY DEF StoreOnly1
<1>7. Tail(Storing0) = Forwarding
  BY DEF Storing0, Forwarding
<1>8. Tail(StoreOnly0) = << >>
  BY DEF StoreOnly0
<1>9. Tail(Forwarding) = << >>
  BY DEF Forwarding
<1>10. Tail(Queueing) = << >>
  BY DEF Queueing
<1>11. Tail(Erasing) = Ending
  BY DEF Erasing, Ending
<1>12. Tail(Ending) = << >>
  BY DEF Ending
<1>13. Tail(QueueingEnd) = << >>
  BY DEF QueueingEnd
<1> QED
  BY <1>1, <1>2, <1>3, <1>4, <1>5, <1>6, <1>7, <1>8, <1>9, <1>10, <1>11, <1>12, <1>13

LEMMA Replaced ==
  /\ [Relaying EXCEPT ![1] = "storeTrue"] = Storing1
  /\ [Relaying EXCEPT ![1] = "storeFalse"] = Storing0
  /\ [RelayOnly EXCEPT ![1] = "storeTrue"] = StoreOnly1
  /\ [RelayOnly EXCEPT ![1] = "storeFalse"] = StoreOnly0
  /\ [Forwarding EXCEPT ![1] = "queue91"] = Queueing
  /\ [Ending EXCEPT ![1] = "queueEE08"] = QueueingEnd
<1>1. [Relaying EXCEPT ![1] = "storeTrue"] = Storing1
  BY DEF Relaying, Storing1
<1>2. [Relaying EXCEPT ![1] = "storeFalse"] = Storing0
  BY DEF Relaying, Storing0
<1>3. [RelayOnly EXCEPT ![1] = "storeTrue"] = StoreOnly1
  BY DEF RelayOnly, StoreOnly1
<1>4. [RelayOnly EXCEPT ![1] = "storeFalse"] = StoreOnly0
  BY DEF RelayOnly, StoreOnly0
<1>5. [Forwarding EXCEPT ![1] = "queue91"] = Queueing
  BY DEF Forwarding, Queueing
<1>6. [Ending EXCEPT ![1] = "queueEE08"] = QueueingEnd
  BY DEF Ending, QueueingEnd
<1> QED
  BY <1>1, <1>2, <1>3, <1>4, <1>5, <1>6

LEMMA NotEmpty ==
  /\ \A t \in Telling \union Closing \union {RelayOnly, StoreOnly1, StoreOnly0} :
        t # << >>
  /\ Relaying # RelayOnly /\ Storing1 # StoreOnly1 /\ Storing0 # StoreOnly0
  BY DEF Telling, Closing,
         Registering, Waking, Relaying, Storing1, Storing0, Forwarding, Queueing,
         RelayOnly, StoreOnly1, StoreOnly0, Erasing, Ending, QueueingEnd

LEMMA StepAt ==
  ASSUME todo \in Handlers
  PROVE  /\ At("register") => todo = Registering
         /\ At("wake") => todo = Waking
         /\ At("relay") => todo = Relaying \/ todo = RelayOnly
         /\ At("storeTrue") => todo = Storing1 \/ todo = StoreOnly1
         /\ At("storeFalse") => todo = Storing0 \/ todo = StoreOnly0
         /\ At("forward") => todo = Forwarding
         /\ At("queue91") => todo = Queueing
         /\ At("erase") => todo = Erasing
         /\ At("sayEnd") => todo = Ending
         /\ At("queueEE08") => todo = QueueingEnd
  BY Heads DEF Handlers, Telling, Closing, At

\* How each step of a handler goes on.
LEMMA Moves ==
  ASSUME todo \in Handlers
  PROVE  /\ Register => todo = Registering /\ todo' \in {<< >>, Waking}
         /\ Wake => todo = Waking /\ todo' = Relaying
         /\ Relay => \/ todo = Relaying /\ todo' \in {Forwarding, Storing1, Storing0}
                     \/ todo = RelayOnly /\ todo' \in {<< >>, StoreOnly1, StoreOnly0}
         /\ \A b \in BOOLEAN : Store(b) =>
               \/ todo \in {Storing1, Storing0} /\ todo' = Forwarding
               \/ todo \in {StoreOnly1, StoreOnly0} /\ todo' = << >>
         /\ Forward => todo = Forwarding /\ todo' = IF isClientValid THEN Queueing ELSE << >>
         /\ SayEnd => todo = Ending /\ todo' = IF isClientValid THEN QueueingEnd ELSE << >>
         /\ QueueFrame => todo \in {Queueing, QueueingEnd} /\ todo' = << >>
         /\ Erase => todo = Erasing /\ todo' = Ending
<1>1. Register => todo = Registering /\ todo' \in {<< >>, Waking}
  BY StepAt, Tails DEF Register, Then
<1>2. Wake => todo = Waking /\ todo' = Relaying
  BY StepAt, Tails DEF Wake, Then
<1>3. ASSUME Relay
      PROVE  \/ todo = Relaying /\ todo' \in {Forwarding, Storing1, Storing0}
             \/ todo = RelayOnly /\ todo' \in {<< >>, StoreOnly1, StoreOnly0}
  <2>1. todo = Relaying \/ todo = RelayOnly
    BY <1>3, StepAt DEF Relay
  <2>2. \/ todo' = Tail(todo)
        \/ todo' = [todo EXCEPT ![1] = "storeTrue"]
        \/ todo' = [todo EXCEPT ![1] = "storeFalse"]
    BY <1>3 DEF Relay, Then
  <2> QED
    BY <2>1, <2>2, Tails, Replaced
<1>4. \A b \in BOOLEAN : Store(b) =>
         \/ todo \in {Storing1, Storing0} /\ todo' = Forwarding
         \/ todo \in {StoreOnly1, StoreOnly0} /\ todo' = << >>
  BY StepAt, Tails DEF Store, Then
<1>5. Forward => todo = Forwarding /\ todo' = IF isClientValid THEN Queueing ELSE << >>
  BY StepAt, Tails, Replaced DEF Forward, Test, Then
<1>6. SayEnd => todo = Ending /\ todo' = IF isClientValid THEN QueueingEnd ELSE << >>
  BY StepAt, Tails, Replaced DEF SayEnd, Test, Then
<1>7. QueueFrame => todo \in {Queueing, QueueingEnd} /\ todo' = << >>
  BY StepAt, Tails DEF QueueFrame, Then
<1>8. Erase => todo = Erasing /\ todo' = Ending
  BY StepAt, Tails DEF Erase, Then
<1> QED
  BY <1>1, <1>2, <1>3, <1>4, <1>5, <1>6, <1>7, <1>8

-----------------------------------------------------------------------------
(* Type correctness.                                                       *)

Entries == [gprs : Gprs, no : 1 .. MaxPuts]

ConnTypes ==
    /\ reads \in [Sessions -> {"none", "open", "done"}]
    /\ writes \in [Sessions -> {"idle", "busy", "done"}]
    /\ isLogin \in [Sessions -> BOOLEAN] /\ isTransmit \in [Sessions -> BOOLEAN]
    /\ srcAddress \in [Sessions -> Keys] /\ frame91 \in [Sessions -> Keys]

IoTypes ==
    /\ todo \in Handlers /\ ioS \in Sessions \union {None}
    /\ (ioS = None) <=> (todo = << >>)
    /\ since \in 0 .. puts

WaitTypes ==
    /\ messageQueue \in Seq(Entries)
    /\ puts \in 0 .. MaxPuts /\ due \in 0 .. MaxPuts
    /\ timer \in [pending : BOOLEAN, ready : BOOLEAN]

\* The link thread has a session in hand, or room for one more entry.
LinkTypes ==
    /\ gprsSession \in [Keys -> Sessions \union {None, Null}] /\ dead \in BOOLEAN
    /\ isClientValid \in BOOLEAN /\ snapshot \in BOOLEAN
    /\ linkPc \in {"none", "clear", "accept", "valid", "read", "stop", "ask",
                   "get91", "tell91", "wait"}
    /\ linkG \in Keys /\ linkS \in Sessions \union {None, Null}
    /\ linkPc \in {"stop", "ask"} => linkS # None
    /\ linkPc \in {"get91", "tell91"} => linkS \in Sessions
    /\ linkPc = "wait" => linkG \in Gprs /\ puts < MaxPuts

HistoryTypes ==
    /\ said \in [Gprs -> {"nothing", "91", "late91", "EE08"}]
    /\ ordered \in [Sessions -> BOOLEAN]
    /\ overruled \subseteq Sessions /\ moved \subseteq Sessions
    /\ late \in BOOLEAN

Typed == ConnTypes /\ IoTypes /\ WaitTypes /\ LinkTypes /\ HistoryTypes

LEMMA HandlersAreSteps == Handlers \subseteq Seq(Steps)
  BY DEF Handlers, Telling, Closing, Steps, Registering, Waking, Relaying, Storing1,
         Storing0, Forwarding, Queueing, RelayOnly, StoreOnly1, StoreOnly0, Erasing,
         Ending, QueueingEnd

LEMMA TypedIsTypeOK == Typed => TypeOK
  BY HandlersAreSteps, RegistryAssumption
     DEF Typed, ConnTypes, IoTypes, WaitTypes, LinkTypes, HistoryTypes, Entries,
         TypeOK, SessionTypeOK, ServerTypeOK

LEMMA StartTyped ==
  ASSUME NEW pc \in {"clear", "none"}, StartAt(pc)
  PROVE  Typed
<1> USE RegistryAssumption DEF StartAt
<1>1. ConnTypes
  BY DEF ConnTypes, Keys
<1>2. IoTypes
  BY DEF IoTypes, Handlers
<1>3. WaitTypes
  BY DEF WaitTypes
<1>4. LinkTypes
  BY DEF LinkTypes, Keys
<1>5. HistoryTypes
  BY DEF HistoryTypes
<1> QED
  BY <1>1, <1>2, <1>3, <1>4, <1>5 DEF Typed

LEMMA SessionTyped ==
  ASSUME Typed, NEW s \in Sessions, Session(s)
  PROVE  Typed'
<1> USE RegistryAssumption DEF Typed, ConnTypes, IoTypes, WaitTypes, LinkTypes,
                               HistoryTypes,
         conn, waiting, link, io, flags, odd
<1>0. s # None /\ {Registering, Relaying, RelayOnly, Erasing, << >>} \subseteq Handlers
      /\ Registering # << >> /\ Relaying # << >> /\ RelayOnly # << >> /\ Erasing # << >>
  BY NotEmpty DEF Handlers, Telling, Closing
<1>1. CASE Accept(s)
  BY <1>0, <1>1 DEF Accept
<1>2. ASSUME NEW a \in Gprs, Read90(s, a) PROVE Typed'
  BY <1>0, <1>2 DEF Read90, RelayOnly, Answer, Keys
<1>3. ASSUME NEW a \in Gprs, Read91(s, a) PROVE Typed'
  BY <1>0, <1>3 DEF Read91, Registering, Relaying, Answer, Keys
<1>4. CASE ReadOther(s)
  BY <1>0, <1>4 DEF ReadOther, RelayOnly, Answer
<1>5. CASE ReadError(s)
  BY <1>0, <1>5 DEF ReadError, Close, Erasing
<1>6. CASE WriteError(s)
  BY <1>0, <1>6 DEF WriteError, Close, Erasing
<1> QED
  BY <1>1, <1>2, <1>3, <1>4, <1>5, <1>6 DEF Session

\* RemoveAt keeps the other elements, in their order.
LEMMA RemoveAtProperties ==
  ASSUME NEW S, NEW q \in Seq(S), NEW i \in 1 .. Len(q)
  PROVE  /\ RemoveAt(q, i) \in Seq(S)
         /\ Len(RemoveAt(q, i)) = Len(q) - 1
         /\ \A j \in 1 .. Len(q) - 1 :
               RemoveAt(q, i)[j] = IF j < i THEN q[j] ELSE q[j + 1]
<1> DEFINE front == SubSeq(q, 1, i - 1)
           rest  == SubSeq(q, i + 1, Len(q))
<1>1. Len(q) \in Nat /\ \A j \in 1 .. Len(q) : q[j] \in S
  BY LenProperties, ElementOfSeq
<1>2. /\ front \in Seq(S) /\ Len(front) = i - 1
      /\ \A j \in 1 .. i - 1 : front[j] = q[j]
  <2>1. \A j \in 1 .. i - 1 : q[j] \in S
    BY <1>1
  <2>2. /\ front \in Seq(S)
        /\ Len(front) = IF 1 <= i - 1 THEN i - 1 - 1 + 1 ELSE 0
        /\ \A j \in 1 .. i - 1 - 1 + 1 : front[j] = q[1 + j - 1]
    BY ONLY <1>1, <2>1, SubSeqProperties, i \in 1 .. Len(q)
  <2> QED
    BY <1>1, <2>2
<1>3. /\ rest \in Seq(S) /\ Len(rest) = Len(q) - i
      /\ \A j \in 1 .. Len(q) - i : rest[j] = q[i + j]
  <2>1. \A j \in i + 1 .. Len(q) : q[j] \in S
    BY <1>1
  <2>2. /\ rest \in Seq(S)
        /\ Len(rest) = IF i + 1 <= Len(q) THEN Len(q) - (i + 1) + 1 ELSE 0
        /\ \A j \in 1 .. Len(q) - (i + 1) + 1 : rest[j] = q[i + 1 + j - 1]
    BY ONLY <1>1, <2>1, SubSeqProperties, i \in 1 .. Len(q)
  <2> QED
    BY <1>1, <2>2
<1>4. RemoveAt(q, i) = front \o rest
  BY DEF RemoveAt
<1> HIDE DEF front, rest
<1>5. /\ front \o rest \in Seq(S)
      /\ Len(front \o rest) = Len(front) + Len(rest)
      /\ \A j \in 1 .. Len(front) + Len(rest) : (front \o rest)[j] =
            IF j <= Len(front) THEN front[j] ELSE rest[j - Len(front)]
  BY <1>2, <1>3, ConcatProperties
<1>6. Len(front \o rest) = Len(q) - 1
  BY <1>1, <1>2, <1>3, <1>5
<1>7. ASSUME NEW j \in 1 .. Len(q) - 1
      PROVE  (front \o rest)[j] = IF j < i THEN q[j] ELSE q[j + 1]
  <2>1. j \in 1 .. Len(front) + Len(rest)
    BY <1>1, <1>2, <1>3
  <2>2. (front \o rest)[j] = IF j <= Len(front) THEN front[j] ELSE rest[j - Len(front)]
    BY <1>5, <2>1
  <2>3. CASE j < i
    BY <1>1, <1>2, <2>2, <2>3
  <2>4. CASE ~ (j < i)
    <3>1. /\ ~ (j <= Len(front)) /\ j - Len(front) \in 1 .. Len(q) - i
          /\ i + (j - Len(front)) = j + 1
      BY <1>1, <1>2, <2>4
    <3> QED
      BY <1>3, <2>2, <2>4, <3>1
  <2> QED
    BY <2>3, <2>4
<1> QED
  BY <1>4, <1>5, <1>6, <1>7

LEMMA HandlerTyped ==
  ASSUME Typed, Handler
  PROVE  Typed'
<1> USE RegistryAssumption DEF Typed, ConnTypes, IoTypes, WaitTypes, LinkTypes,
                               HistoryTypes,
         conn, waiting, link, io, flags, odd
<1>0. /\ ioS \in Sessions
      /\ {Registering, Waking, Relaying, Storing1, Storing0, Forwarding, Queueing, RelayOnly,
           StoreOnly1, StoreOnly0, Erasing, Ending, QueueingEnd, << >>} \subseteq Handlers
      /\ \A t \in {Waking, Relaying, Storing1, Storing0, Forwarding, Queueing,
           StoreOnly1, StoreOnly0, Ending, QueueingEnd} : t # << >>
  <2>1. todo # << >>
    BY DEF Handler, Register, Wake, Relay, Store, Forward, SayEnd, Test, QueueFrame,
           Erase, At
  <2> QED
    BY <2>1, NotEmpty DEF Handlers, Telling, Closing
<1>1. CASE Register
  <2>1. /\ todo' \in {<< >>, Waking}
        /\ ioS' = IF todo' = << >> THEN None ELSE ioS
    BY <1>0, <1>1, Moves DEF Register, Then
  <2>2. reads' \in [Sessions -> {"none", "open", "done"}]
    BY <1>1 DEF Register
  <2>3. /\ gprsSession' = gprsSession
           \/ gprsSession' = [gprsSession EXCEPT ![srcAddress[ioS]] = ioS]
        /\ since' = puts
    BY <1>1 DEF Register
  <2>4. gprsSession' \in [Keys -> Sessions \union {None, Null}]
    BY <1>0, <2>3
  <2>5. IoTypes'
    BY <1>0, <1>1, <2>1, <2>3 DEF Register
  <2> QED
    BY <1>1, <2>2, <2>4, <2>5 DEF Register
<1>2. CASE Wake
  <2>1. todo' = Relaying /\ todo' # << >> /\ ioS' = ioS
    BY <1>0, <1>2, Moves, NotEmpty DEF Wake, Then, Telling
  <2>2. /\ messageQueue' \in Seq(Entries)
        /\ timer' \in [pending : BOOLEAN, ready : BOOLEAN]
        /\ isTransmit' \in [Sessions -> BOOLEAN] /\ ordered' \in [Sessions -> BOOLEAN]
        /\ overruled' \subseteq Sessions
    <3>1. CASE UNCHANGED <<isTransmit, flags, messageQueue, timer>>
      BY <3>1
    <3>2. ASSUME NEW i \in DOMAIN messageQueue, SetTransmit(ioS, TRUE),
                 messageQueue' = RemoveAt(messageQueue, i),
                 timer' = [timer EXCEPT !.pending = @ /\ messageQueue' # << >>]
          PROVE  /\ messageQueue' \in Seq(Entries)
                 /\ timer' \in [pending : BOOLEAN, ready : BOOLEAN]
                 /\ isTransmit' \in [Sessions -> BOOLEAN]
                 /\ ordered' \in [Sessions -> BOOLEAN]
                 /\ overruled' \subseteq Sessions
      <4>1. i \in 1 .. Len(messageQueue)
        BY <3>2, LenProperties
      <4>2. messageQueue' \in Seq(Entries)
        BY <3>2, <4>1, RemoveAtProperties
      <4> QED
        BY <1>0, <3>2, <4>2 DEF SetTransmit
    <3> QED
      BY <1>2, <3>1, <3>2 DEF Wake
  <2>3. isLogin' \in [Sessions -> BOOLEAN] /\ since' \in 0 .. puts'
    BY <1>0, <1>2 DEF Wake
  <2>4. UNCHANGED <<reads, writes, srcAddress, frame91, gprsSession, puts, due, dead,
                    link, said, odd>>
    BY <1>2 DEF Wake
  <2> QED
    BY <1>0, <2>1, <2>2, <2>3, <2>4
<1>3. CASE Relay
  <2>1. todo' \in Handlers
    BY <1>0, <1>3, Moves
  <2>2. ioS' = IF todo' = << >> THEN None ELSE ioS
    BY <1>3 DEF Relay, Then
  <2> QED
    BY <1>0, <1>3, <2>1, <2>2 DEF Relay
<1>4. ASSUME NEW b \in BOOLEAN, Store(b) PROVE Typed'
  <2>1. todo' \in Handlers
    BY <1>0, <1>4, Moves
  <2>2. ioS' = IF todo' = << >> THEN None ELSE ioS
    BY <1>4 DEF Store, Then
  <2>3. isTransmit' \in [Sessions -> BOOLEAN] /\ overruled' \subseteq Sessions
    BY <1>0, <1>4 DEF Store
  <2> QED
    BY <1>0, <1>4, <2>1, <2>2, <2>3 DEF Store
<1>5. CASE Forward
  BY <1>0, <1>5, Moves DEF Forward, Test, Then
<1>6. CASE SayEnd
  <2>1. todo' \in Handlers
    BY <1>0, <1>6, Moves
  <2>2. ioS' = IF todo' = << >> THEN None ELSE ioS
    BY <1>6 DEF SayEnd, Test, Then
  <2> QED
    BY <1>0, <1>6, <2>1, <2>2 DEF SayEnd, Test
<1>7. CASE QueueFrame
  <2>1. todo' = << >> /\ ioS' = None
    BY <1>0, <1>7, Moves DEF QueueFrame, Then
  <2>2. said' \in [Gprs -> {"nothing", "91", "late91", "EE08"}] /\ late' \in BOOLEAN
    BY <1>7 DEF QueueFrame
  <2> QED
    BY <1>0, <1>7, <2>1, <2>2 DEF QueueFrame
<1>8. CASE Erase
  <2>1. todo' = Ending /\ ioS' = ioS
    BY <1>0, <1>8, Moves DEF Erase, Then
  <2>2. gprsSession' \in [Keys -> Sessions \union {None, Null}]
    BY <1>8 DEF Erase
  <2> QED
    BY <1>0, <1>8, <2>1, <2>2 DEF Erase
<1> QED
  BY <1>1, <1>2, <1>3, <1>4, <1>5, <1>6, <1>7, <1>8 DEF Handler

LEMMA TimerTyped ==
  ASSUME Typed, Expire \/ HandleMessageTimeOut
  PROVE  Typed'
<1> USE DEF Typed, ConnTypes, IoTypes, WaitTypes, LinkTypes, HistoryTypes,
         conn, waiting, link, io, flags, odd
<1>1. CASE Expire
  BY <1>1 DEF Expire
<1>2. CASE HandleMessageTimeOut
  <2>1. PICK k \in 0 .. Len(messageQueue) :
           /\ messageQueue' = SubSeq(messageQueue, k + 1, Len(messageQueue))
           /\ \/ timer' = [timer EXCEPT !.ready = FALSE] /\ UNCHANGED due
              \/ /\ k < Len(messageQueue) /\ due' = messageQueue[k + 1].no
                 /\ timer' = [pending |-> TRUE, ready |-> FALSE]
    BY <1>2 DEF HandleMessageTimeOut
  <2>2. Len(messageQueue) \in Nat
        /\ \A i \in 1 .. Len(messageQueue) : messageQueue[i] \in Entries
    BY LenProperties, ElementOfSeq
  <2>3. messageQueue' \in Seq(Entries)
    <3>1. \A i \in k + 1 .. Len(messageQueue) : messageQueue[i] \in Entries
      BY <2>2
    <3> QED
      BY <2>1, <2>2, <3>1, SubSeqProperties
  <2>4. due' \in 0 .. MaxPuts /\ timer' \in [pending : BOOLEAN, ready : BOOLEAN]
    <3>1. k < Len(messageQueue) => messageQueue[k + 1].no \in 1 .. MaxPuts
      BY <2>2 DEF Entries
    <3>2. due' = due \/ due' \in 1 .. MaxPuts
      BY <2>1, <3>1
    <3>3. \/ timer' = [timer EXCEPT !.ready = FALSE]
          \/ timer' = [pending |-> TRUE, ready |-> FALSE]
      BY <2>1
    <3>4. due' \in 0 .. MaxPuts
      BY <3>2
    <3>5. timer' \in [pending : BOOLEAN, ready : BOOLEAN]
      <4>1. CASE timer' = [pending |-> TRUE, ready |-> FALSE]
        BY ONLY <4>1
      <4>2. CASE timer' = [timer EXCEPT !.ready = FALSE]
        BY ONLY <4>2, timer \in [pending : BOOLEAN, ready : BOOLEAN]
      <4> QED
        BY <3>3, <4>1, <4>2
    <3> QED
      BY <3>4, <3>5
  <2> QED
    BY <1>2, <2>3, <2>4 DEF HandleMessageTimeOut
<1> QED
  BY <1>1, <1>2

LEMMA LinkTyped ==
  ASSUME Typed, Link
  PROVE  Typed'
<1> USE RegistryAssumption DEF Typed, Keys
<1>a. UNCHANGED conn => ConnTypes'
  BY DEF conn, ConnTypes
<1>b. UNCHANGED io /\ puts <= puts' /\ puts' \in Nat => IoTypes'
  BY DEF io, IoTypes, WaitTypes
<1>c. UNCHANGED waiting => WaitTypes'
  BY DEF waiting, WaitTypes
<1>d. UNCHANGED <<said, flags, odd>> => HistoryTypes'
  BY DEF flags, odd, HistoryTypes
<1>e. UNCHANGED io /\ UNCHANGED waiting => IoTypes'
  BY DEF io, waiting, IoTypes
<1>1. CASE LinkLost
  <2>1. LinkTypes'
    BY <1>1 DEF LinkLost, Goto, waiting, LinkTypes
  <2> QED
    BY <1>1, <2>1, <1>a, <1>c, <1>d, <1>e DEF LinkLost
<1>2. CASE Clear
  <2>1. LinkTypes' /\ HistoryTypes'
    BY <1>2 DEF Clear, Goto, waiting, LinkTypes, flags, odd, HistoryTypes
  <2> QED
    BY <1>2, <2>1, <1>a, <1>c, <1>e DEF Clear
<1>3. CASE LinkValid
  <2>1. LinkTypes'
    BY <1>3 DEF LinkValid, Goto, waiting, LinkTypes
  <2> QED
    BY <1>3, <2>1, <1>a, <1>c, <1>d, <1>e DEF LinkValid
<1>4. CASE Snapshot
  <2>1. LinkTypes'
    BY <1>4 DEF Snapshot, waiting, LinkTypes
  <2>2. HistoryTypes'
    BY <1>4 DEF Snapshot, flags, odd, HistoryTypes
  <2> QED
    BY <1>4, <2>1, <2>2, <1>a, <1>c, <1>e DEF Snapshot
<1>5. CASE Stop \/ Ask
  <2>1. /\ LinkTypes' /\ UNCHANGED <<io, waiting>>
        /\ UNCHANGED <<reads, isLogin, srcAddress, frame91, said, odd>>
    BY <1>5 DEF Stop, Ask, Goto, waiting, LinkTypes
  <2>2. /\ isTransmit' \in [Sessions -> BOOLEAN] /\ ordered' \in [Sessions -> BOOLEAN]
        /\ overruled' \subseteq Sessions
    <3>1. \A b \in BOOLEAN : linkPc \in {"stop", "ask"} /\ linkS # Null /\ SetTransmit(linkS, b)
             => /\ isTransmit' \in [Sessions -> BOOLEAN] /\ ordered' \in [Sessions -> BOOLEAN]
                /\ overruled' \subseteq Sessions
      BY DEF SetTransmit, ConnTypes, HistoryTypes, LinkTypes
    <3>2. UNCHANGED <<isTransmit, flags>>
             => /\ isTransmit' \in [Sessions -> BOOLEAN] /\ ordered' \in [Sessions -> BOOLEAN]
                /\ overruled' \subseteq Sessions
      BY DEF flags, ConnTypes, HistoryTypes
    <3> QED
      BY <1>5, <3>1, <3>2 DEF Stop, Ask
  <2>3. writes' \in [Sessions -> {"idle", "busy", "done"}]
    <3>1. UNCHANGED writes \/ Answer(linkS)
      BY <1>5 DEF Stop, Ask
    <3> QED
      BY <3>1 DEF Answer, ConnTypes
  <2>4. ConnTypes' /\ HistoryTypes'
    BY <2>1, <2>2, <2>3 DEF ConnTypes, odd, HistoryTypes
  <2> QED
    BY <2>1, <2>4, <1>c, <1>e
<1>6. CASE PutToMessageQueue
  <2>1. /\ linkPc = "wait" /\ linkG \in Gprs /\ puts < MaxPuts /\ puts' = puts + 1
        /\ messageQueue' = Append(messageQueue, [gprs |-> linkG, no |-> puts + 1])
        /\ puts \in Nat /\ puts + 1 \in 1 .. MaxPuts
    BY <1>6 DEF PutToMessageQueue, LinkTypes, WaitTypes
  <2>2. messageQueue' \in Seq(Entries)
    <3>1. [gprs |-> linkG, no |-> puts + 1] \in Entries
      BY <2>1 DEF Entries
    <3> QED
      BY <2>1, <3>1, AppendProperties DEF WaitTypes
  <2>3. due' \in 0 .. MaxPuts /\ timer' \in [pending : BOOLEAN, ready : BOOLEAN]
    <3>1. due' = due \/ due' = puts + 1
      BY <1>6 DEF PutToMessageQueue
    <3>2. timer' = timer \/ timer' = [timer EXCEPT !.pending = TRUE]
      BY <1>6 DEF PutToMessageQueue
    <3>3. due' \in 0 .. MaxPuts
      BY <2>1, <3>1 DEF WaitTypes
    <3>4. timer' \in [pending : BOOLEAN, ready : BOOLEAN]
      BY <3>2 DEF WaitTypes
    <3> QED
      BY <3>3, <3>4
  <2>4. WaitTypes'
    BY <2>1, <2>2, <2>3 DEF WaitTypes
  <2>5. LinkTypes'
    BY <1>6 DEF PutToMessageQueue, Goto, LinkTypes
  <2> QED
    BY <1>6, <2>1, <2>4, <2>5, <1>a, <1>b, <1>d DEF PutToMessageQueue
<1>7. ASSUME NEW g \in Gprs, Get92(g) \/ Get93(g) PROVE Typed'
  <2>1. LinkTypes'
    BY <1>7 DEF Get92, Get93, Goto, waiting, LinkTypes
  <2> QED
    BY <1>7, <2>1, <1>a, <1>c, <1>d, <1>e DEF Get92, Get93
<1>8. ASSUME NEW g \in Gprs, GetOther(g) PROVE Typed'
  <2>1. LinkTypes' /\ UNCHANGED <<waiting, io, said, flags, odd>>
    BY <1>8 DEF GetOther, link, waiting, LinkTypes
  <2>2. ConnTypes'
    <3>1. UNCHANGED writes \/ Answer(gprsSession[g])
      BY <1>8 DEF GetOther
    <3>2. writes' \in [Sessions -> {"idle", "busy", "done"}]
      BY <3>1 DEF Answer, ConnTypes
    <3> QED
      BY <1>8, <3>2 DEF GetOther, ConnTypes
  <2> QED
    BY <2>1, <2>2, <1>c, <1>d, <1>e
<1>9. CASE Get91
  <2>1. LinkTypes'
    BY <1>9 DEF Get91, Goto, waiting, LinkTypes, ConnTypes
  <2> QED
    BY <1>9, <2>1, <1>a, <1>c, <1>d, <1>e DEF Get91
<1>10. CASE Tell91
  <2>1. LinkTypes'
    BY <1>10 DEF Tell91, Goto, waiting, LinkTypes, Keys
  <2>2. HistoryTypes'
    BY <1>10 DEF Tell91, flags, odd, HistoryTypes
  <2> QED
    BY <1>10, <2>1, <2>2, <1>a, <1>c, <1>e DEF Tell91
<1> QED
  BY <1>1, <1>2, <1>3, <1>4, <1>5, <1>6, <1>7, <1>8, <1>9, <1>10 DEF Link, LinkStep

LEMMA NextTyped == Typed /\ [Next]_vars => Typed'
<1> SUFFICES ASSUME Typed, [Next]_vars PROVE Typed'
  OBVIOUS
<1>1. CASE UNCHANGED vars
  BY <1>1 DEF vars, Typed, ConnTypes, IoTypes, WaitTypes, LinkTypes, HistoryTypes,
         conn, waiting, link, io, flags, odd
<1> QED
  BY <1>1, SessionTyped, HandlerTyped, TimerTyped, LinkTyped DEF Next

LEMMA ReleaseIsNext == [ReleaseNext]_vars => [Next]_vars
  BY RegistryAssumption
     DEF ReleaseNext, PackNext, PackRead, PackClose, PackPush, PackServer, PackTimer,
         PackConnection, PackHandle, PackPut, PackSnapshot, GuGongNext, GuGongRead,
         GuGongClose, GuGongPush, GuGongServer, Next, Handler, Session, Link, LinkStep

-----------------------------------------------------------------------------
(* The SMS timer.                                                          *)

\* WaitingHasTimer, and no entry is younger than the last arrival.
Waits ==
    /\ messageQueue # << >> => timer.pending \/ timer.ready
    /\ \A i, j \in 1 .. Len(messageQueue) :
          i < j => messageQueue[i].no < messageQueue[j].no
    /\ \A i \in 1 .. Len(messageQueue) : messageQueue[i].no <= puts

LEMMA StartWaits ==
  ASSUME NEW pc \in {"clear", "none"}, StartAt(pc)
  PROVE  Waits
  BY DEF StartAt, Waits

LEMMA Numbered ==
  ASSUME Typed
  PROVE  /\ Len(messageQueue) \in Nat /\ puts \in Nat
         /\ DOMAIN messageQueue = 1 .. Len(messageQueue)
         /\ \A i \in 1 .. Len(messageQueue) :
               messageQueue[i] \in Entries /\ messageQueue[i].no \in Nat
<1>1. messageQueue \in Seq(Entries) /\ puts \in Nat
  BY DEF Typed, WaitTypes
<1>2. /\ Len(messageQueue) \in Nat
      /\ DOMAIN messageQueue = 1 .. Len(messageQueue)
      /\ \A i \in 1 .. Len(messageQueue) : messageQueue[i] \in Entries
  BY <1>1, LenProperties, ElementOfSeq
<1>3. \A e \in Entries : e.no \in Nat
  BY DEF Entries
<1> QED
  BY <1>1, <1>2, <1>3

LEMMA WakeWaits ==
  ASSUME Typed, Waits, Wake
  PROVE  Waits'
<1> USE DEF Typed, WaitTypes
<1>0. UNCHANGED puts
  BY DEF Wake
<1>1. CASE UNCHANGED <<isTransmit, flags, messageQueue, timer>>
  BY <1>0, <1>1 DEF Waits
<1>2. ASSUME NEW i \in DOMAIN messageQueue,
             messageQueue' = RemoveAt(messageQueue, i),
             timer' = [timer EXCEPT !.pending = @ /\ messageQueue' # << >>]
      PROVE  Waits'
  <2>1. i \in 1 .. Len(messageQueue) /\ Len(messageQueue) \in Nat
        /\ \A j \in 1 .. Len(messageQueue) : messageQueue[j].no \in Nat
    BY <1>2, Numbered
  <2>2. /\ Len(messageQueue') = Len(messageQueue) - 1
        /\ \A j \in 1 .. Len(messageQueue) - 1 :
              messageQueue'[j] = IF j < i THEN messageQueue[j] ELSE messageQueue[j + 1]
    BY <1>2, <2>1, RemoveAtProperties
  <2>3. messageQueue' # << >> => timer'.pending \/ timer'.ready
    BY <1>2, <2>1 DEF Waits
  <2>4. \A j \in 1 .. Len(messageQueue') : messageQueue'[j].no <= puts'
    BY <1>0, <2>1, <2>2, SMTT(30) DEF Waits
  <2>5. \A j, k \in 1 .. Len(messageQueue') :
           j < k => messageQueue'[j].no < messageQueue'[k].no
    <3> SUFFICES ASSUME NEW j \in 1 .. Len(messageQueue) - 1,
                        NEW k \in 1 .. Len(messageQueue) - 1, j < k
                 PROVE  messageQueue'[j].no < messageQueue'[k].no
      BY <2>2
    <3> DEFINE place(n) == IF n < i THEN n ELSE n + 1
    <3>1. place(j) \in 1 .. Len(messageQueue) /\ place(k) \in 1 .. Len(messageQueue)
          /\ place(j) < place(k)
      BY <2>1
    <3>2. messageQueue'[j] = messageQueue[place(j)]
          /\ messageQueue'[k] = messageQueue[place(k)]
      BY <2>2
    <3> QED
      BY <3>1, <3>2 DEF Waits
  <2> QED
    BY <2>3, <2>4, <2>5 DEF Waits
<1> QED
  BY <1>1, <1>2 DEF Wake

LEMMA TimeOutWaits ==
  ASSUME Typed, Waits, HandleMessageTimeOut
  PROVE  Waits'
<1> USE DEF Typed, WaitTypes
<1>1. PICK k \in 0 .. Len(messageQueue) :
         /\ messageQueue' = SubSeq(messageQueue, k + 1, Len(messageQueue))
         /\ \/ k = Len(messageQueue)
            \/ timer' = [pending |-> TRUE, ready |-> FALSE]
  BY DEF HandleMessageTimeOut
<1>2. UNCHANGED puts
  BY DEF HandleMessageTimeOut
<1>3. Len(messageQueue) \in Nat
      /\ \A i \in 1 .. Len(messageQueue) : messageQueue[i] \in Entries
  BY Numbered
<1>4. /\ messageQueue' \in Seq(Entries)
      /\ Len(messageQueue') = Len(messageQueue) - k
      /\ \A i \in 1 .. Len(messageQueue) - k : messageQueue'[i] = messageQueue[k + i]
  <2>1. \A i \in k + 1 .. Len(messageQueue) : messageQueue[i] \in Entries
    BY <1>3
  <2>2. /\ messageQueue' \in Seq(Entries)
        /\ Len(messageQueue') = IF k + 1 <= Len(messageQueue)
                                THEN Len(messageQueue) - (k + 1) + 1 ELSE 0
        /\ \A i \in 1 .. Len(messageQueue) - (k + 1) + 1 :
              messageQueue'[i] = messageQueue[k + 1 + i - 1]
    BY ONLY <1>1, <1>3, <2>1, SubSeqProperties
  <2> QED
    BY <1>3, <2>2
<1>5. messageQueue' # << >> => timer'.pending \/ timer'.ready
  <2>1. CASE k = Len(messageQueue)
    BY <1>3, <1>4, <2>1, EmptySeq
  <2>2. CASE timer' = [pending |-> TRUE, ready |-> FALSE]
    BY <2>2
  <2> QED
    BY <1>1, <2>1, <2>2
<1>6. \A i \in 1 .. Len(messageQueue') : messageQueue'[i].no <= puts'
  BY <1>2, <1>3, <1>4 DEF Waits
<1>7. \A i, j \in 1 .. Len(messageQueue') :
         i < j => messageQueue'[i].no < messageQueue'[j].no
  <2> SUFFICES ASSUME NEW i \in 1 .. Len(messageQueue) - k,
                      NEW j \in 1 .. Len(messageQueue) - k, i < j
               PROVE  messageQueue'[i].no < messageQueue'[j].no
    BY <1>4
  <2>1. k + i \in 1 .. Len(messageQueue) /\ k + j \in 1 .. Len(messageQueue)
        /\ k + i < k + j
    BY <1>3
  <2> QED
    BY <1>4, <2>1 DEF Waits
<1> QED
  BY <1>5, <1>6, <1>7 DEF Waits

LEMMA PutWaits ==
  ASSUME Typed, Waits, PutToMessageQueue
  PROVE  Waits'
<1> USE DEF Typed, WaitTypes
<1> DEFINE new == [gprs |-> linkG, no |-> puts + 1]
<1>1. /\ messageQueue' = Append(messageQueue, new) /\ puts' = puts + 1
      /\ IF messageQueue = << >> THEN timer' = [timer EXCEPT !.pending = TRUE]
         ELSE UNCHANGED timer
  BY DEF PutToMessageQueue
<1>2. Len(messageQueue) \in Nat /\ puts \in Nat
      /\ \A i \in 1 .. Len(messageQueue) : messageQueue[i].no \in Nat
  BY Numbered
<1>3. new.no = puts + 1
  OBVIOUS
<1> HIDE DEF new
<1>4. /\ Len(messageQueue') = Len(messageQueue) + 1
      /\ \A i \in 1 .. Len(messageQueue) : messageQueue'[i] = messageQueue[i]
      /\ messageQueue'[Len(messageQueue) + 1] = new
  BY <1>1, <1>2
<1>5. timer'.pending \/ timer'.ready
  BY <1>1 DEF Waits
<1>6. \A i \in 1 .. Len(messageQueue') : messageQueue'[i].no <= puts'
  BY <1>1, <1>2, <1>3, <1>4 DEF Waits
<1>7. \A i, j \in 1 .. Len(messageQueue') :
         i < j => messageQueue'[i].no < messageQueue'[j].no
  BY <1>1, <1>2, <1>3, <1>4 DEF Waits
<1> QED
  BY <1>5, <1>6, <1>7 DEF Waits

LEMMA NextWaits == Typed /\ Waits /\ [Next]_vars => Waits'
<1> SUFFICES ASSUME Typed, Waits, [Next]_vars PROVE Waits'
  OBVIOUS
<1>1. UNCHANGED waiting => Waits'
  BY DEF waiting, Waits
<1>2. CASE UNCHANGED vars
  BY <1>1, <1>2 DEF vars
<1>3. CASE Handler
  <2>1. Wake \/ UNCHANGED waiting
    BY <1>3 DEF Handler, Register, Relay, Store, Forward, SayEnd, Test, QueueFrame,
                Erase
  <2> QED
    BY <1>1, <2>1, WakeWaits
<1>4. ASSUME NEW s \in Sessions, Session(s) PROVE Waits'
  BY <1>1, <1>4
     DEF Session, Accept, Read90, Read91, ReadOther, ReadError, WriteError, Close
<1>5. CASE Expire
  BY <1>5 DEF Expire, Waits
<1>6. CASE HandleMessageTimeOut
  BY <1>6, TimeOutWaits
<1>7. CASE Link
  <2>1. PutToMessageQueue \/ UNCHANGED waiting
    BY <1>7 DEF Link, LinkLost, Clear, LinkValid, Snapshot, LinkStep, Stop, Ask,
                Get91, Tell91, Get92, Get93, GetOther
  <2> QED
    BY <1>1, <2>1, PutWaits
<1> QED
  BY <1>2, <1>3, <1>4, <1>5, <1>6, <1>7 DEF Next

-----------------------------------------------------------------------------
(* What a session is ordered to relay.                                     *)

\* RelayAsOrdered, and PushToQueue is about to store TRUE only for a session that
\* is monitored.
Relays ==
    /\ \A s \in Sessions : isTransmit[s] = ordered[s] \/ s \in overruled
    /\ todo \in {Storing1, StoreOnly1} => ordered[ioS] \/ ioS \in overruled

LEMMA StartRelays ==
  ASSUME NEW pc \in {"clear", "none"}, StartAt(pc)
  PROVE  Relays
<1>1. todo \notin {Storing1, StoreOnly1}
  BY NotEmpty DEF StartAt, Telling
<1> QED
  BY <1>1 DEF StartAt, Relays

\* SetTransmit in any state of the io thread that it does not change.
LEMMA SetTransmitRelays ==
  ASSUME Typed, Relays, NEW s \in Sessions, NEW b \in BOOLEAN, SetTransmit(s, b)
  PROVE  /\ \A r \in Sessions : isTransmit'[r] = ordered'[r] \/ r \in overruled'
         /\ UNCHANGED <<todo, ioS>> => Relays'
<1> USE DEF Typed, ConnTypes, HistoryTypes
<1>1. \A r \in Sessions : isTransmit'[r] = ordered'[r] \/ r \in overruled'
  BY DEF SetTransmit, Relays
<1>2. ASSUME UNCHANGED <<todo, ioS>>, todo \in {Storing1, StoreOnly1}
      PROVE  ordered'[ioS] \/ ioS \in overruled'
  <2>1. At("storeTrue")
    BY <1>2, Heads, NotEmpty DEF At, Telling
  <2>2. CASE ioS = s
    BY <2>1, <2>2 DEF SetTransmit
  <2>3. CASE ioS # s
    BY <1>2, <2>1, <2>3 DEF SetTransmit, Relays
  <2> QED
    BY <2>2, <2>3
<1> QED
  BY <1>1, <1>2 DEF Relays

LEMMA HandlerRelays ==
  ASSUME Typed, Relays, Handler
  PROVE  Relays'
<1>0. /\ ioS \in Sessions /\ todo \in Handlers
      /\ \A t \in {<< >>, Waking, Relaying, Forwarding, Storing0, StoreOnly0, Ending, Queueing,
                   QueueingEnd} : t # Storing1 /\ t # StoreOnly1
  <2>1. todo # << >>
    BY DEF Handler, Register, Wake, Relay, Store, Forward, SayEnd, Test, QueueFrame,
           Erase, At
  <2>2. \A t \in {<< >>, Waking, Relaying, Forwarding, Storing0, StoreOnly0, Ending, Queueing,
                  QueueingEnd} : t # Storing1 /\ t # StoreOnly1
    BY DEF Waking, Relaying, Storing1, Storing0, Forwarding, Queueing,
           StoreOnly1, StoreOnly0, Ending, QueueingEnd
  <2> QED
    BY <2>1, <2>2 DEF Typed, IoTypes
<1>1. ASSUME UNCHANGED <<isTransmit, flags>>,
             todo' \in {<< >>, Waking, Relaying, Forwarding, Storing0, StoreOnly0, Ending, Queueing,
                        QueueingEnd}
      PROVE  Relays'
  BY <1>0, <1>1 DEF Relays, flags
<1>2. CASE Register
  BY <1>0, <1>1, <1>2, Moves DEF Register
<1>3. CASE Wake
  <2>1. todo' = Relaying
    BY <1>0, <1>3, Moves
  <2>2. CASE UNCHANGED <<isTransmit, flags>>
    BY <1>1, <2>1, <2>2
  <2>3. CASE SetTransmit(ioS, TRUE)
    BY <1>0, <2>1, <2>3, SetTransmitRelays DEF Relays
  <2> QED
    BY <1>3, <2>2, <2>3 DEF Wake
<1>4. CASE Relay
  <2>1. UNCHANGED <<isTransmit, flags>>
    BY <1>4 DEF Relay, conn
  <2>2. CASE todo' \in {Storing1, StoreOnly1}
    <3>1. isTransmit[ioS] /\ ioS' = ioS
      <4>1. todo' # Tail(todo) /\ todo' # << >>
        BY <1>0, <1>4, <2>2, Moves, Tails
      <4> QED
        BY <1>4, <4>1 DEF Relay, Then
    <3>2. ordered[ioS] \/ ioS \in overruled
      BY <1>0, <3>1 DEF Relays
    <3> QED
      BY <2>1, <3>1, <3>2 DEF Relays, flags
  <2>3. CASE todo' \notin {Storing1, StoreOnly1}
    BY <1>0, <1>1, <1>4, <2>1, <2>3, Moves
  <2> QED
    BY <2>2, <2>3
<1>5. ASSUME NEW b \in BOOLEAN, Store(b) PROVE Relays'
  <2>1. todo' \notin {Storing1, StoreOnly1}
    BY <1>0, <1>5, Moves
  <2>2. ASSUME NEW s \in Sessions PROVE isTransmit'[s] = ordered'[s] \/ s \in overruled'
    <3>1. CASE b = FALSE
      BY <1>5, <3>1 DEF Store, Relays, Typed, ConnTypes
    <3>2. CASE b = TRUE
      <4>1. At("storeTrue")
        BY <1>5, <3>2 DEF Store
      <4>2. ordered[ioS] \/ ioS \in overruled
        BY <1>0, <4>1, StepAt DEF Relays
      <4>3. /\ isTransmit' = [isTransmit EXCEPT ![ioS] = TRUE]
            /\ UNCHANGED <<overruled, ordered>>
        BY <1>5, <3>2 DEF Store
      <4>4. ordered[ioS] \in BOOLEAN
        BY <1>0 DEF Typed, HistoryTypes
      <4> QED
        BY <1>0, <4>2, <4>3, <4>4 DEF Relays, Typed, ConnTypes
    <3> QED
      BY <3>1, <3>2
  <2> QED
    BY <2>1, <2>2 DEF Relays
<1>6. CASE Forward
  BY <1>0, <1>1, <1>6, Moves DEF Forward, Test, conn
<1>7. CASE SayEnd
  BY <1>0, <1>1, <1>7, Moves DEF SayEnd, Test, conn
<1>8. CASE QueueFrame
  BY <1>0, <1>1, <1>8, Moves DEF QueueFrame, conn
<1>9. CASE Erase
  BY <1>0, <1>1, <1>9, Moves DEF Erase, conn
<1> QED
  BY <1>2, <1>3, <1>4, <1>5, <1>6, <1>7, <1>8, <1>9 DEF Handler

LEMMA NextRelays == Typed /\ Relays /\ [Next]_vars => Relays'
<1> SUFFICES ASSUME Typed, Relays, [Next]_vars PROVE Relays'
  OBVIOUS
<1>1. UNCHANGED <<isTransmit, flags, io>> => Relays'
  BY DEF Relays, flags, io
<1>2. CASE UNCHANGED vars
  BY <1>1, <1>2 DEF vars, conn
<1>3. CASE Handler
  BY <1>3, HandlerRelays
<1>4. ASSUME NEW s \in Sessions, Session(s) PROVE Relays'
  <2>1. UNCHANGED <<isTransmit, flags>>
    BY <1>4 DEF Session, Accept, Read90, Read91, ReadOther, ReadError, WriteError,
                Close
  <2>2. UNCHANGED io \/ todo' \in {<< >>, Registering, Relaying, RelayOnly, Erasing}
    BY <1>4 DEF Session, Accept, Read90, Read91, ReadOther, ReadError, WriteError,
                Close,
                Registering, Relaying, RelayOnly, Erasing
  <2>3. {Storing1, StoreOnly1} \cap {<< >>, Registering, Relaying, RelayOnly, Erasing} = {}
    BY DEF Registering, Relaying, Storing1, RelayOnly, StoreOnly1, Erasing
  <2> QED
    BY <1>1, <2>1, <2>2, <2>3 DEF Relays, flags
<1>5. CASE Expire \/ HandleMessageTimeOut
  BY <1>1, <1>5 DEF Expire, HandleMessageTimeOut, conn
<1>6. CASE Link
  <2>1. CASE Stop \/ Ask
    <3>1. UNCHANGED io /\ linkPc \in {"stop", "ask"}
      BY <2>1 DEF Stop, Ask
    <3>2. CASE UNCHANGED <<isTransmit, flags>>
      BY <1>1, <3>1, <3>2
    <3>3. ASSUME NEW b \in BOOLEAN, linkS # Null, SetTransmit(linkS, b) PROVE Relays'
      <4>1. linkS \in Sessions
        BY <3>1, <3>3 DEF Typed, LinkTypes
      <4> QED
        BY <3>1, <3>3, <4>1, SetTransmitRelays DEF io
    <3> QED
      BY <2>1, <3>2, <3>3 DEF Stop, Ask
  <2>2. CASE ~ (Stop \/ Ask)
    BY <1>1, <1>6, <2>2
       DEF Link, LinkLost, Clear, LinkValid, Snapshot, LinkStep, PutToMessageQueue,
           Get91, Tell91, Get92, Get93, GetOther, conn
  <2> QED
    BY <2>1, <2>2
<1> QED
  BY <1>2, <1>3, <1>4, <1>5, <1>6 DEF Next

-----------------------------------------------------------------------------
(* Who is in the registry.                                                 *)

\* After the login, a 91 frame is on its way to the link.
LoggedIn == {Relaying, Storing1, Storing0, Forwarding, Queueing}
Other    == {<< >>, RelayOnly, StoreOnly1, StoreOnly0}

LEMMA Distinct ==
  /\ Telling = {Registering, Waking} \union LoggedIn /\ Registering # Waking
  /\ Handlers = Telling \union Closing \union Other
  /\ \A t \in LoggedIn : t # Registering /\ t # Waking
  /\ \A t \in Closing \union Other : t \notin Telling
  /\ \A t \in Other : t \notin Closing
  /\ Erasing # Ending /\ Erasing # QueueingEnd
<1>1. Telling = {Registering, Waking} \union LoggedIn
  BY DEF Telling, LoggedIn
<1>2. Handlers = Telling \union Closing \union Other
  BY DEF Handlers, Other
<1> USE DEF Registering, Waking, Relaying, Storing1, Storing0, Forwarding, Queueing,
            RelayOnly, StoreOnly1, StoreOnly0, Erasing, Ending, QueueingEnd
<1>3. Registering # Waking /\ \A t \in LoggedIn : t # Registering /\ t # Waking
  BY DEF LoggedIn
<1>4. \A t \in Closing : t \notin Telling
  BY DEF Closing, Telling
<1>5. \A t \in Other : t \notin Telling
  BY DEF Other, Telling
<1>6. \A t \in Other : t \notin Closing
  BY DEF Other, Closing
<1>7. Erasing # Ending /\ Erasing # QueueingEnd
  OBVIOUS
<1> QED
  BY <1>1, <1>2, <1>3, <1>4, <1>5, <1>6, <1>7

\* A session that never changed its address keeps the 91 frames of that address.
OwnFrame ==
    \A s \in Sessions \ moved : frame91[s] \in {NoAddress, srcAddress[s]}

\* The session of a 91 frame that is handled still reads; it is logged in once
\* Wake is done.
Reads91 ==
    /\ todo \in Telling => reads[ioS] = "open" /\ frame91[ioS] # NoAddress
    /\ todo = Registering => ~ isLogin[ioS]
    /\ todo \in LoggedIn => isLogin[ioS]

\* A session that never changed its address is in the registry under that address
\* only, and is on its way out of it when it no longer reads.
Held ==
    \A a \in Keys, s \in Sessions \ moved : gprsSession[a] = s =>
        /\ frame91[s] # NoAddress /\ srcAddress[s] = a
        /\ isLogin[s] \/ (ioS = s /\ todo = Waking)
        /\ reads[s] = "open" \/ (ioS = s /\ todo = Erasing)

Owned == OwnFrame /\ Reads91 /\ Held

owners == <<reads, isLogin, srcAddress, frame91, gprsSession, moved>>

LEMMA StartOwned ==
  ASSUME NEW pc \in {"clear", "none"}, StartAt(pc)
  PROVE  Owned
<1>1. todo \notin Telling /\ todo # Registering /\ todo \notin LoggedIn
  BY Distinct DEF StartAt, Other
<1> QED
  BY <1>1, RegistryAssumption DEF StartAt, Owned, OwnFrame, Reads91, Held

LEMMA HandlerOwned ==
  ASSUME Typed, Owned, Handler
  PROVE  Owned'
<1> USE DEF Owned
<1>0. ioS \in Sessions /\ todo \in Handlers
  <2>1. todo # << >>
    BY DEF Handler, Register, Wake, Relay, Store, Forward, SayEnd, Test, QueueFrame,
           Erase, At
  <2> QED
    BY <2>1 DEF Typed, IoTypes
\* A step that leaves the sessions and the registry alone.
<1>1. ASSUME UNCHANGED owners, todo \notin {Registering, Waking, Erasing},
             \/ todo' \in LoggedIn /\ todo \in LoggedIn /\ ioS' = ioS
             \/ todo' \in Closing \union Other
      PROVE  Owned'
  <2>1. OwnFrame' /\ Held'
    BY <1>1 DEF owners, OwnFrame, Held
  <2>2. Reads91'
    BY <1>1, Distinct DEF owners, Reads91
  <2> QED
    BY <2>1, <2>2
<1>2. CASE Register
  <2>1. /\ todo = Registering /\ reads[ioS] = "open" /\ frame91[ioS] # NoAddress
        /\ ~ isLogin[ioS]
    BY <1>2, Moves, <1>0, Distinct DEF Reads91
  <2>2. \A a \in Keys, s \in Sessions \ moved : gprsSession[a] = s => s # ioS
    BY <2>1, Distinct DEF Held
  <2>3. UNCHANGED <<isLogin, srcAddress, frame91, moved>>
    BY <1>2 DEF Register, odd
  <2>4. OwnFrame'
    BY <2>3 DEF OwnFrame
  <2>5. CASE /\ reads' = [reads EXCEPT ![ioS] = "done"] /\ Then(<< >>)
             /\ UNCHANGED gprsSession
    <3>1. Reads91'
      BY <2>5, Distinct DEF Then, Reads91, Other
    <3>2. \A s \in Sessions : s # ioS => reads'[s] = reads[s]
      BY <2>5 DEF Typed, ConnTypes
    <3>3. Held'
      BY <2>1, <2>2, <2>3, <2>5, <3>2, Distinct DEF Then, Held, Closing
    <3> QED
      BY <2>4, <3>1, <3>3
  <2>6. CASE /\ gprsSession' = [gprsSession EXCEPT ![srcAddress[ioS]] = ioS]
             /\ Then(Tail(todo)) /\ UNCHANGED reads
    <3>1. todo' = Waking /\ ioS' = ioS
      BY <2>1, <2>6, Tails, NotEmpty, Distinct DEF Then
    <3>2. Reads91'
      BY <2>1, <2>3, <2>6, <3>1, Distinct DEF Reads91
    <3>3. Held'
      BY <1>0, <2>1, <2>2, <2>3, <2>6, <3>1, Distinct
         DEF Held, Typed, ConnTypes, LinkTypes, Closing
    <3> QED
      BY <2>4, <3>2, <3>3
  <2> QED
    BY <1>2, <2>5, <2>6 DEF Register
<1>3. CASE Wake
  <2>1. todo = Waking /\ todo' = Relaying /\ ioS' = ioS
    BY <1>0, <1>3, Moves, NotEmpty DEF Wake, Then, Telling
  <2>2. /\ UNCHANGED <<reads, srcAddress, frame91, gprsSession, moved>>
        /\ isLogin' = [isLogin EXCEPT ![ioS] = TRUE]
    BY <1>3 DEF Wake, odd
  <2>3. isLogin'[ioS] /\ \A s \in Sessions : isLogin[s] => isLogin'[s]
    BY <1>0, <2>2 DEF Typed, ConnTypes
  <2>4. OwnFrame'
    BY <2>2 DEF OwnFrame
  <2>5. Reads91'
    BY <2>1, <2>2, <2>3, Distinct DEF Reads91, LoggedIn
  <2>6. Held'
    BY <2>1, <2>2, <2>3, Distinct DEF Held, Closing
  <2> QED
    BY <2>4, <2>5, <2>6
<1>4. CASE Relay \/ (\E b \in BOOLEAN : Store(b)) \/ Forward
  <2>1. UNCHANGED owners /\ ioS' = IF todo' = << >> THEN None ELSE ioS
    <3>1. CASE Relay
      BY <3>1 DEF Relay, Then, conn, odd, owners
    <3>2. ASSUME NEW b \in BOOLEAN, Store(b)
          PROVE  UNCHANGED owners /\ ioS' = IF todo' = << >> THEN None ELSE ioS
      BY <3>2 DEF Store, Then, odd, owners
    <3>3. CASE Forward
      BY <3>3 DEF Forward, Test, Then, conn, odd, owners
    <3> QED
      BY <1>4, <3>1, <3>2, <3>3
  <2>2. \/ todo \in LoggedIn /\ todo' \in LoggedIn \union {<< >>}
        \/ todo \in Other /\ todo' \in Other
    BY <1>0, <1>4, Moves DEF LoggedIn, Other
  <2>3. todo' \in LoggedIn => todo' # << >>
    BY Distinct DEF Other
  <2>4. << >> \in Other
    BY DEF Other
  <2>5. todo \notin {Registering, Waking, Erasing}
    BY <2>2, Distinct DEF Closing
  <2> QED
    BY <1>1, <2>1, <2>2, <2>3, <2>4, <2>5, Distinct
<1>5. CASE SayEnd \/ QueueFrame
  <2>1. UNCHANGED owners
    BY <1>5 DEF SayEnd, QueueFrame, Test, conn, odd, owners
  <2>2. /\ todo \in {Ending, Queueing, QueueingEnd}
        /\ todo' \in Closing \union Other
    BY <1>0, <1>5, Moves DEF Closing, Other
  <2>3. todo \notin {Registering, Waking, Erasing}
    BY <2>2, Distinct DEF LoggedIn, Closing
  <2> QED
    BY <1>1, <2>1, <2>2, <2>3
<1>6. CASE Erase
  <2>1. todo = Erasing /\ todo' = Ending
    BY <1>0, <1>6, Moves
  <2>2. /\ UNCHANGED <<reads, isLogin, srcAddress, frame91, moved>>
        /\ gprsSession' = [gprsSession EXCEPT ![srcAddress[ioS]] = None]
    BY <1>6 DEF Erase, conn, odd
  <2>3. OwnFrame'
    BY <2>2 DEF OwnFrame
  <2>4. Reads91'
    BY <2>1, Distinct DEF Reads91, Closing
  <2>5. ASSUME NEW a \in Keys, NEW s \in Sessions \ moved, gprsSession'[a] = s
        PROVE  gprsSession[a] = s /\ s # ioS
    BY <2>2, <2>5, RegistryAssumption DEF Held, Typed, LinkTypes
  <2>6. todo # Waking
    BY <2>1, Distinct DEF Closing
  <2>7. Held'
    BY <2>1, <2>2, <2>5, <2>6 DEF Held
  <2> QED
    BY <2>3, <2>4, <2>7
<1> QED
  BY <1>2, <1>3, <1>4, <1>5, <1>6 DEF Handler

LEMMA SessionOwned ==
  ASSUME Typed, Owned, NEW s \in Sessions, Session(s)
  PROVE  Owned'
<1> USE RegistryAssumption DEF Owned
<1>0. /\ s # None /\ << >> \in Other /\ RelayOnly \in Other /\ Erasing \in Closing
      /\ << >> \notin Telling /\ << >> \notin Closing
      /\ Relaying \in LoggedIn
  BY Distinct DEF Other, Closing, LoggedIn
\* What the registry holds while the io thread is in no handler.
<1>1. ASSUME Idle, NEW a \in Keys, NEW r \in Sessions \ moved, gprsSession[a] = r
      PROVE  frame91[r] # NoAddress /\ srcAddress[r] = a /\ isLogin[r] /\ reads[r] = "open"
  BY <1>0, <1>1, Distinct DEF Idle, Held
<1>2. CASE Accept(s)
  <2>1. /\ UNCHANGED <<isLogin, srcAddress, frame91, gprsSession, moved, todo, ioS>>
        /\ reads' = [reads EXCEPT ![s] = "open"]
    BY <1>2 DEF Accept, odd, io
  <2>2. \A r \in Sessions : reads[r] = "open" => reads'[r] = "open"
    BY <2>1 DEF Typed, ConnTypes
  <2>3. OwnFrame'
    BY <2>1 DEF OwnFrame
  <2>4. Reads91'
    BY <1>0, <1>2, <2>1, Distinct DEF Accept, Idle, Reads91
  <2>5. Held'
    BY <2>1, <2>2 DEF Held
  <2> QED
    BY <2>3, <2>4, <2>5
<1>3. ASSUME NEW a \in Gprs, Read90(s, a) PROVE Owned'
  <2>1. /\ Idle /\ UNCHANGED <<reads, isLogin, frame91, gprsSession>>
        /\ todo' = RelayOnly
        /\ srcAddress' = [srcAddress EXCEPT ![s] = a]
        /\ moved' = IF frame91[s] \in {NoAddress, a} THEN moved ELSE moved \union {s}
    BY <1>3 DEF Read90, RelayOnly
  <2>2. OwnFrame'
    BY <2>1 DEF OwnFrame, Typed, ConnTypes
  <2>3. Reads91'
    BY <1>0, <2>1, Distinct DEF Reads91
  <2>4. ASSUME NEW b \in Keys, NEW r \in Sessions \ moved', gprsSession'[b] = r
        PROVE  /\ frame91'[r] # NoAddress /\ srcAddress'[r] = b
               /\ isLogin'[r] /\ reads'[r] = "open"
    <3>1. r \notin moved /\ gprsSession[b] = r
      BY <2>1, <2>4
    <3>2. frame91[r] # NoAddress /\ srcAddress[r] = b /\ isLogin[r] /\ reads[r] = "open"
      BY <1>1, <2>1, <3>1
    <3>3. frame91[r] = b
      BY <3>1, <3>2 DEF OwnFrame
    <3> QED
      BY <2>1, <2>4, <3>2, <3>3 DEF Typed, ConnTypes
  <2>5. Held'
    BY <2>4 DEF Held
  <2> QED
    BY <2>2, <2>3, <2>5
<1>4. ASSUME NEW a \in Gprs, Read91(s, a) PROVE Owned'
  <2>1. /\ Idle /\ reads[s] = "open"
        /\ UNCHANGED <<reads, isLogin, srcAddress, gprsSession>>
        /\ todo' = IF isLogin[s] THEN Relaying ELSE Registering
        /\ ioS' = s
        /\ frame91' = [frame91 EXCEPT ![s] = a]
        /\ moved' = IF srcAddress[s] = a THEN moved ELSE moved \union {s}
    BY <1>4 DEF Read91, Relaying, Registering
  <2>2. OwnFrame'
    BY <2>1 DEF OwnFrame, Typed, ConnTypes
  <2>3. /\ a # NoAddress /\ frame91'[s] = a
        /\ \A r \in Sessions : r # s => frame91'[r] = frame91[r]
    BY <2>1 DEF Typed, ConnTypes
  <2>4. Reads91'
    BY <1>0, <2>1, <2>3, Distinct DEF Reads91
  <2>5. ASSUME NEW b \in Keys, NEW r \in Sessions \ moved', gprsSession'[b] = r
        PROVE  /\ frame91'[r] # NoAddress /\ srcAddress'[r] = b
               /\ isLogin'[r] /\ reads'[r] = "open"
    <3>1. r \notin moved /\ gprsSession[b] = r
      BY <2>1, <2>5
    <3>2. frame91[r] # NoAddress /\ srcAddress[r] = b /\ isLogin[r] /\ reads[r] = "open"
      BY <1>1, <2>1, <3>1
    <3> QED
      BY <2>1, <2>3, <3>2
  <2>6. Held'
    BY <2>5 DEF Held
  <2> QED
    BY <2>2, <2>4, <2>6
<1>5. CASE ReadOther(s)
  <2>1. Idle /\ UNCHANGED owners /\ todo' = RelayOnly
    BY <1>5 DEF ReadOther, RelayOnly, odd, owners
  <2>2. OwnFrame' /\ Reads91'
    BY <1>0, <2>1, Distinct DEF owners, OwnFrame, Reads91
  <2>3. Held'
    BY <1>1, <2>1 DEF owners, Held
  <2> QED
    BY <2>2, <2>3
<1>6. CASE ReadError(s) \/ WriteError(s)
  <2>1. /\ Idle /\ UNCHANGED <<isLogin, srcAddress, frame91, gprsSession, moved>>
        /\ todo' = IF isLogin[s] THEN Erasing ELSE << >>
        /\ isLogin[s] => ioS' = s
        /\ UNCHANGED reads \/ reads' = [reads EXCEPT ![s] = "done"]
    BY <1>6 DEF ReadError, WriteError, Close, odd, Erasing
  <2>2. OwnFrame'
    BY <2>1 DEF OwnFrame
  <2>3. Reads91'
    BY <1>0, <2>1, Distinct DEF Reads91
  <2>4. ASSUME NEW b \in Keys, NEW r \in Sessions \ moved', gprsSession'[b] = r
        PROVE  /\ frame91'[r] # NoAddress /\ srcAddress'[r] = b /\ isLogin'[r]
               /\ reads'[r] = "open" \/ (ioS' = r /\ todo' = Erasing)
    <3>1. r \notin moved /\ gprsSession[b] = r
      BY <2>1, <2>4
    <3>2. frame91[r] # NoAddress /\ srcAddress[r] = b /\ isLogin[r] /\ reads[r] = "open"
      BY <1>1, <2>1, <3>1
    <3>3. \/ r = s
          \/ reads'[r] = reads[r]
      BY <2>1 DEF Typed, ConnTypes
    <3> QED
      BY <2>1, <3>2, <3>3
  <2>5. Held'
    BY <2>4 DEF Held
  <2> QED
    BY <2>2, <2>3, <2>5
<1>7. AddressesOf[s] \subseteq Gprs
  OBVIOUS
<1> QED
  BY <1>2, <1>3, <1>4, <1>5, <1>6, <1>7 DEF Session

LEMMA NextOwned == Typed /\ Owned /\ [Next]_vars => Owned'
<1> SUFFICES ASSUME Typed, Owned, [Next]_vars PROVE Owned'
  OBVIOUS
<1>1. UNCHANGED <<owners, todo, ioS>> => Owned'
  BY DEF owners, Owned, OwnFrame, Reads91, Held
<1>2. CASE UNCHANGED vars
  BY <1>1, <1>2 DEF vars, conn, io, odd, owners
<1>3. CASE Handler
  BY <1>3, HandlerOwned
<1>4. ASSUME NEW s \in Sessions, Session(s) PROVE Owned'
  BY <1>4, SessionOwned
<1>5. CASE Expire \/ HandleMessageTimeOut
  BY <1>1, <1>5 DEF Expire, HandleMessageTimeOut, conn, io, odd, owners
<1>6. ASSUME NEW g \in Asked, GetOther(g) PROVE Owned'
  <2>1. /\ UNCHANGED <<reads, isLogin, srcAddress, frame91, moved, todo, ioS>>
        /\ gprsSession' = gprsSession \/ gprsSession' = [gprsSession EXCEPT ![g] = Null]
    BY <1>6 DEF GetOther, io, odd
  <2>2. OwnFrame' /\ Reads91'
    BY <2>1 DEF Owned, OwnFrame, Reads91
  <2>3. \A a \in Keys, r \in Sessions : gprsSession'[a] = r => gprsSession[a] = r
    BY <2>1, RegistryAssumption DEF Typed, LinkTypes
  <2>4. Held'
    BY <2>1, <2>3 DEF Owned, Held
  <2> QED
    BY <2>2, <2>4 DEF Owned
<1>7. CASE Link
  <2>1. UNCHANGED <<owners, todo, ioS>> \/ \E g \in Asked : GetOther(g)
    <3>1. CASE LinkLost \/ Clear \/ LinkValid \/ Snapshot
      BY <3>1 DEF LinkLost, Clear, LinkValid, Snapshot, conn, io, odd, owners
    <3>2. CASE LinkStep
      BY <3>2 DEF LinkStep, Stop, Ask, Get91, Tell91, PutToMessageQueue, conn, io, odd,
                  owners
    <3>3. ASSUME NEW g \in Asked, Get92(g) \/ Get93(g)
          PROVE  UNCHANGED <<owners, todo, ioS>>
      BY <3>3 DEF Get92, Get93, conn, io, odd, owners
    <3> QED
      BY <1>7, <3>1, <3>2, <3>3 DEF Link
  <2> QED
    BY <1>1, <1>6, <2>1
<1> QED
  BY <1>2, <1>3, <1>4, <1>5, <1>7 DEF Next

-----------------------------------------------------------------------------
(* What TransmitServer is told.                                            *)

LinkOff == linkPc \in {"none", "clear", "accept", "valid"} => ~ isClientValid

\* While EE08 is on its way nobody is registered under the address.
Erased == todo \in {Ending, QueueingEnd} => gprsSession[srcAddress[ioS]] \notin Sessions

\* A session in the registry has been told of, or will be by its own handler.
Tells ==
    isClientValid /\ snapshot /\ ~ dead =>
        \A a \in Gprs : gprsSession[a] \in Sessions \ moved =>
            said[a] \in {"91", "late91"} \/ (ioS = gprsSession[a] /\ todo \in Telling)

Told == LinkOff /\ Erased /\ Tells

LEMMA StartTold ==
  ASSUME NEW pc \in {"clear", "none"}, StartAt(pc)
  PROVE  Told
<1>1. todo \notin {Ending, QueueingEnd}
  BY NotEmpty DEF StartAt, Closing
<1> QED
  BY <1>1 DEF StartAt, Told, LinkOff, Erased, Tells

LEMMA HandlerTold ==
  ASSUME Typed, Owned, Told, Handler
  PROVE  Told'
<1> USE DEF Told
<1>0. ioS \in Sessions /\ todo \in Handlers
  <2>1. todo # << >>
    BY DEF Handler, Register, Wake, Relay, Store, Forward, SayEnd, Test, QueueFrame,
           Erase, At
  <2> QED
    BY <2>1 DEF Typed, IoTypes
<1>1. UNCHANGED <<isClientValid, snapshot, dead, linkPc, srcAddress, moved>>
  <2>1. CASE Register \/ Wake \/ Erase
    BY <2>1 DEF Register, Wake, Erase, conn, link, odd
  <2>2. CASE Relay \/ Forward \/ SayEnd \/ QueueFrame
    BY <2>2 DEF Relay, Forward, SayEnd, Test, QueueFrame, conn, link, odd
  <2>3. ASSUME NEW b \in BOOLEAN, Store(b)
        PROVE  UNCHANGED <<isClientValid, snapshot, dead, linkPc, srcAddress, moved>>
    BY <2>3 DEF Store, link, odd
  <2> QED
    BY <2>1, <2>2, <2>3 DEF Handler
<1>2. LinkOff'
  BY <1>1 DEF LinkOff
\* A step that leaves the registry alone and tells nothing.
<1>3. ASSUME UNCHANGED <<gprsSession, said>>,
             todo' \in Telling => ioS' = ioS,
             todo \in Telling /\ isClientValid => todo' \in Telling /\ ioS' = ioS,
             todo' \in {Ending, QueueingEnd} => todo \in {Ending, QueueingEnd} /\ ioS' = ioS
      PROVE  Told'
  BY <1>1, <1>2, <1>3 DEF Erased, Tells
<1>4. /\ << >> \notin Telling /\ << >> \notin Closing
      /\ Ending \in Closing /\ QueueingEnd \in Closing
      /\ LoggedIn \subseteq Telling /\ Other \cap Closing = {}
      /\ Other \cap Telling = {} /\ Closing \cap Telling = {}
  BY Distinct DEF Other, Closing
<1>5. CASE Register
  <2>1. todo = Registering /\ todo \in Telling
    BY <1>0, <1>5, Moves DEF Telling
  <2>2. UNCHANGED said
    BY <1>5 DEF Register
  <2>3. CASE reads' = [reads EXCEPT ![ioS] = "done"] /\ Then(<< >>) /\ UNCHANGED gprsSession
    <3>1. \A a \in Keys : gprsSession[a] \in Sessions \ moved => gprsSession[a] # ioS
      BY <2>1, Distinct DEF Owned, Held, Reads91
    <3> QED
      BY <1>1, <1>2, <1>4, <2>2, <2>3, <3>1 DEF Then, Erased, Tells, Keys
  <2>4. CASE /\ gprsSession' = [gprsSession EXCEPT ![srcAddress[ioS]] = ioS]
             /\ Then(Tail(todo))
    <3>1. todo' = Waking /\ ioS' = ioS /\ todo' \in Telling
      BY <2>1, <2>4, Tails, NotEmpty DEF Then, Telling
    <3>2. Erased'
      BY <1>4, <3>1 DEF Erased
    <3>3. ASSUME NEW a \in Gprs, gprsSession'[a] # ioS PROVE gprsSession'[a] = gprsSession[a]
      BY <2>4, <3>3, <1>0 DEF Typed, ConnTypes, LinkTypes, Keys
    <3>4. Tells'
      BY <1>1, <2>2, <3>1, <3>3 DEF Tells
    <3> QED
      BY <1>2, <3>2, <3>4
  <2> QED
    BY <1>5, <2>3, <2>4 DEF Register
<1>6. CASE Wake
  <2>1. todo = Waking /\ todo' = Relaying /\ ioS' = ioS /\ todo' \in Telling
    BY <1>0, <1>6, Moves, NotEmpty DEF Wake, Then, Telling
  <2> QED
    BY <1>3, <1>4, <1>6, <2>1 DEF Wake
<1>7. CASE Relay \/ (\E b \in BOOLEAN : Store(b)) \/ Forward
  <2>1. UNCHANGED <<gprsSession, said>> /\ ioS' = IF todo' = << >> THEN None ELSE ioS
    <3>1. CASE Relay
      BY <3>1 DEF Relay, Then
    <3>2. CASE Forward
      BY <3>2 DEF Forward, Test, Then
    <3>3. ASSUME NEW b \in BOOLEAN, Store(b)
          PROVE  UNCHANGED <<gprsSession, said>> /\ ioS' = IF todo' = << >> THEN None ELSE ioS
      BY <3>3 DEF Store, Then
    <3> QED
      BY <1>7, <3>1, <3>2, <3>3
  <2>2. \/ todo \in LoggedIn /\ todo' \in LoggedIn
        \/ todo \in LoggedIn /\ todo' = << >> /\ ~ isClientValid
        \/ todo \in Other /\ todo' \in Other
    BY <1>0, <1>7, Moves DEF LoggedIn, Other
  <2> QED
    BY <1>3, <1>4, <2>1, <2>2
<1>8. CASE SayEnd
  <2>1. /\ UNCHANGED <<gprsSession, said>> /\ ioS' = IF todo' = << >> THEN None ELSE ioS
        /\ todo = Ending /\ todo' \in {<< >>, QueueingEnd}
    BY <1>0, <1>8, Moves DEF SayEnd, Test, Then
  <2>2. todo' = QueueingEnd => ioS' = ioS
    BY <1>4, <2>1
  <2> QED
    BY <1>3, <1>4, <2>1, <2>2
<1>9. CASE QueueFrame
  <2>1. todo' = << >> /\ UNCHANGED gprsSession /\ todo \in {Queueing, QueueingEnd}
    BY <1>0, <1>9, Moves DEF QueueFrame
  <2>2. Erased'
    BY <1>4, <2>1 DEF Erased
  <2>3. ASSUME NEW a \in Gprs, gprsSession[a] \in Sessions \ moved,
               isClientValid, snapshot, ~ dead
        PROVE  said'[a] \in {"91", "late91"}
    <3>1. said[a] \in {"91", "late91"} \/ (ioS = gprsSession[a] /\ todo \in Telling)
      BY <2>3 DEF Tells
    <3>2. /\ frame91[gprsSession[a]] # NoAddress /\ srcAddress[gprsSession[a]] = a
          /\ frame91[gprsSession[a]] = a
      BY <2>3 DEF Owned, Held, OwnFrame, Keys
    <3>3. CASE At("queue91")
      <4>1. said' = [g \in Gprs |-> IF g = frame91[ioS] THEN "91" ELSE said[g]]
        BY <1>9, <3>3 DEF QueueFrame, At
      <4> QED
        BY <3>1, <3>2, <4>1
    <3>4. CASE At("queueEE08")
      <4>1. /\ said' = [g \in Gprs |-> IF g = srcAddress[ioS] THEN "EE08" ELSE said[g]]
            /\ todo = QueueingEnd
        BY <1>0, <1>9, <3>4, StepAt DEF QueueFrame, At
      <4>2. srcAddress[ioS] # a
        BY <2>3, <4>1 DEF Erased
      <4> QED
        BY <1>4, <3>1, <4>1, <4>2
    <3> QED
      BY <1>9, <3>3, <3>4 DEF QueueFrame
  <2>4. Tells'
    BY <1>1, <2>1, <2>3 DEF Tells
  <2> QED
    BY <1>2, <2>2, <2>4
<1>10. CASE Erase
  <2>1. /\ gprsSession' = [gprsSession EXCEPT ![srcAddress[ioS]] = None]
        /\ UNCHANGED said /\ todo = Erasing /\ todo' = Ending /\ ioS' = ioS
    BY <1>0, <1>10, Moves, NotEmpty DEF Erase, Then, Closing
  <2>2. Erased'
    BY <1>0, <1>1, <2>1, RegistryAssumption DEF Erased, Typed, ConnTypes, LinkTypes
  <2>3. \A a \in Gprs : gprsSession'[a] \in Sessions => gprsSession'[a] = gprsSession[a]
    BY <2>1, RegistryAssumption DEF Typed, LinkTypes, Keys
  <2>4. todo \notin Telling
    BY <1>4, <2>1 DEF Closing
  <2>5. Tells'
    BY <1>1, <2>1, <2>3, <2>4 DEF Tells
  <2> QED
    BY <1>2, <2>2, <2>5
<1> QED
  BY <1>5, <1>6, <1>7, <1>8, <1>9, <1>10 DEF Handler

LEMMA SessionTold ==
  ASSUME Typed, Owned, Told, NEW s \in Sessions, Session(s)
  PROVE  Told'
<1> USE DEF Told
<1>1. /\ UNCHANGED <<gprsSession, said, isClientValid, snapshot, dead, linkPc>>
      /\ moved \subseteq moved' /\ Idle
  <2>1. CASE Accept(s) \/ ReadOther(s)
    BY <2>1 DEF Accept, ReadOther, link, odd
  <2>2. CASE ReadError(s) \/ WriteError(s)
    BY <2>2 DEF ReadError, WriteError, Close, link, odd
  <2>3. ASSUME NEW a \in AddressesOf[s], Read90(s, a) \/ Read91(s, a)
        PROVE  /\ UNCHANGED <<gprsSession, said, isClientValid, snapshot, dead, linkPc>>
               /\ moved \subseteq moved' /\ Idle
    BY <2>3 DEF Read90, Read91, link
  <2> QED
    BY <2>1, <2>2, <2>3 DEF Session
<1>2. todo' \in {<< >>, Registering, Relaying, RelayOnly, Erasing}
  BY <1>1 DEF Idle, Session, Accept, Read90, Read91, ReadOther, ReadError,
              WriteError, Close, io,
              Registering, Relaying, RelayOnly, Erasing
<1>3. {<< >>, Registering, Relaying, RelayOnly, Erasing} \cap {Ending, QueueingEnd} = {}
  BY DEF Registering, Relaying, RelayOnly, Erasing, Ending, QueueingEnd
<1>4. todo \notin Telling
  BY <1>1, Distinct DEF Idle, Other
<1>5. LinkOff' /\ Erased'
  BY <1>1, <1>2, <1>3 DEF LinkOff, Erased
<1>6. Tells'
  BY <1>1, <1>4 DEF Tells
<1> QED
  BY <1>5, <1>6

LEMMA LinkTold ==
  ASSUME Typed, Owned, Told, Link
  PROVE  Told'
<1> USE DEF Told
<1>1. UNCHANGED <<todo, ioS, srcAddress, frame91, moved>>
  <2>1. CASE LinkLost \/ Clear \/ LinkValid \/ Snapshot
    BY <2>1 DEF LinkLost, Clear, LinkValid, Snapshot, conn, io, odd
  <2>2. CASE LinkStep
    BY <2>2 DEF LinkStep, Stop, Ask, Get91, Tell91, PutToMessageQueue, conn, io, odd
  <2>3. ASSUME NEW g \in Asked, Get92(g) \/ Get93(g) \/ GetOther(g)
        PROVE  UNCHANGED <<todo, ioS, srcAddress, frame91, moved>>
    BY <2>3 DEF Get92, Get93, GetOther, conn, io, odd
  <2> QED
    BY <2>1, <2>2, <2>3 DEF Link
\* A step that tells nothing and keeps the link.
<1>2. ASSUME UNCHANGED <<said, isClientValid, snapshot>>, dead' = FALSE => dead = FALSE,
             dead' \in BOOLEAN,
             \A a \in Keys : gprsSession'[a] \in Sessions => gprsSession'[a] = gprsSession[a]
      PROVE  Erased' /\ Tells'
  <2>1. Tells'
    BY <1>1, <1>2 DEF Tells, Typed, LinkTypes, Keys
  <2>2. ASSUME todo \in {Ending, QueueingEnd} PROVE srcAddress[ioS] \in Keys
    BY <2>2, NotEmpty DEF Typed, ConnTypes, IoTypes, Closing
  <2>3. Erased'
    BY <1>1, <1>2, <2>2 DEF Erased
  <2> QED
    BY <2>1, <2>3
<1>3. CASE LinkLost
  BY <1>1, <1>3 DEF LinkLost, Goto, LinkOff, Erased, Tells
<1>4. CASE Clear
  BY <1>1, <1>4 DEF Clear, Goto, LinkOff, Erased, Tells
<1>5. CASE LinkValid
  BY <1>1, <1>5 DEF LinkValid, Goto, LinkOff, Erased, Tells
<1>6. CASE Snapshot
  <2>1. LinkOff' /\ Erased'
    BY <1>1, <1>6 DEF Snapshot, LinkOff, Erased
  <2>2. ASSUME NEW a \in Gprs, gprsSession[a] \in Sessions \ moved, isClientValid, ~ dead'
        PROVE  said'[a] = "91"
    <3>1. a \in Keys /\ frame91[gprsSession[a]] = a
      BY <2>2, RegistryAssumption DEF Owned, Held, OwnFrame, Keys
    <3>2. gprsSession[a] \in Registered
      BY <2>2, <3>1, RegistryAssumption DEF Registered
    <3>3. said' = [g \in Gprs |-> IF isClientValid /\ g \in {frame91[s] : s \in Registered}
                                  THEN "91" ELSE said[g]]
      BY <1>6, <2>2 DEF Snapshot
    <3> QED
      BY <2>2, <3>1, <3>2, <3>3
  <2>3. Tells'
    BY <1>1, <1>6, <2>2 DEF Snapshot, Tells
  <2> QED
    BY <2>1, <2>3
<1>7. CASE Stop \/ Ask \/ Get91 \/ PutToMessageQueue
  <2>1. /\ UNCHANGED <<gprsSession, said, isClientValid, snapshot>>
        /\ linkPc' \in {"read", "get91", "tell91"}
        /\ dead' = dead \/ dead' = TRUE
    BY <1>7 DEF Stop, Ask, Get91, PutToMessageQueue, Goto
  <2>2. Erased' /\ Tells'
    BY <1>2, <2>1 DEF Typed, LinkTypes
  <2> QED
    BY <2>1, <2>2 DEF LinkOff
<1>10. CASE Tell91
  <2>1. /\ UNCHANGED <<gprsSession, dead, isClientValid, snapshot>> /\ linkPc' = "read"
        /\ \A g \in Gprs : said'[g] = said[g] \/ said'[g] \in {"91", "late91"}
    BY <1>10 DEF Tell91, Goto
  <2> QED
    BY <1>1, <2>1 DEF LinkOff, Erased, Tells
<1>8. ASSUME NEW g \in Asked, Get92(g) \/ Get93(g) PROVE Told'
  <2>1. /\ UNCHANGED <<gprsSession, said, isClientValid, snapshot, dead>>
        /\ linkPc' \in {"read", "stop", "ask", "wait"}
    BY <1>8 DEF Get92, Get93, Goto, Reading
  <2>2. Erased' /\ Tells'
    BY <1>2, <2>1 DEF Typed, LinkTypes
  <2> QED
    BY <2>1, <2>2 DEF LinkOff
<1>9. ASSUME NEW g \in Asked, GetOther(g) PROVE Told'
  <2>1. /\ UNCHANGED <<said, isClientValid, snapshot, dead, linkPc>>
        /\ gprsSession' = gprsSession \/ gprsSession' = [gprsSession EXCEPT ![g] = Null]
    BY <1>9 DEF GetOther, link
  <2>2. \A a \in Keys : gprsSession'[a] \in Sessions => gprsSession'[a] = gprsSession[a]
    BY <2>1, RegistryAssumption DEF Typed, LinkTypes
  <2>3. Erased' /\ Tells'
    BY <1>2, <2>1, <2>2 DEF Typed, LinkTypes
  <2> QED
    BY <2>1, <2>3 DEF LinkOff
<1> QED
  BY <1>3, <1>4, <1>5, <1>6, <1>7, <1>8, <1>9, <1>10 DEF Link, LinkStep

LEMMA NextTold == Typed /\ Owned /\ Told /\ [Next]_vars => Told'
<1> SUFFICES ASSUME Typed, Owned, Told, [Next]_vars PROVE Told'
  OBVIOUS
<1>1. UNCHANGED <<conn, gprsSession, dead, link, io, said, odd>> => Told'
  BY DEF conn, link, io, odd, Told, LinkOff, Erased, Tells
<1>2. CASE UNCHANGED vars
  BY <1>1, <1>2 DEF vars
<1>3. CASE Expire \/ HandleMessageTimeOut
  BY <1>1, <1>3 DEF Expire, HandleMessageTimeOut
<1> QED
  BY <1>2, <1>3, HandlerTold, SessionTold, LinkTold DEF Next

\* A session in a handler still reads, but for the handler that ends it, and one
\* that is logged in was accepted.
Opens ==
    /\ todo # << >> /\ todo \notin Closing => reads[ioS] = "open"
    /\ \A s \in Sessions : isLogin[s] => reads[s] # "none"

\* The session that a 93 frame is answered with is logged in, and its 91 frame is
\* its own.
Answers ==
    /\ linkPc \in {"ask", "get91", "tell91"} /\ linkS \in Sessions \ moved =>
          /\ frame91[linkS] # NoAddress
          /\ isLogin[linkS] \/ (ioS = linkS /\ todo = Waking)
    /\ linkPc = "tell91" => linkS \in moved \/ linkG = frame91[linkS]

Answered == Opens /\ Answers

LEMMA StartAnswered ==
  ASSUME NEW pc \in {"clear", "none"}, StartAt(pc)
  PROVE  Answered
  BY DEF StartAt, Answered, Opens, Answers

LEMMA HandlerAnswered ==
  ASSUME Typed, Owned, Answered, Handler
  PROVE  Answered'
<1> USE DEF Answered
<1>0. ioS \in Sessions /\ todo \in Handlers /\ todo # << >>
  <2>1. todo # << >>
    BY DEF Handler, Register, Wake, Relay, Store, Forward, SayEnd, Test, QueueFrame,
           Erase, At
  <2> QED
    BY <2>1 DEF Typed, IoTypes
<1>1. UNCHANGED <<frame91, moved, linkPc, linkG, linkS>>
  <2>1. CASE Register \/ Wake \/ Erase
    BY <2>1 DEF Register, Wake, Erase, conn, odd, link
  <2>2. CASE Relay \/ Forward \/ SayEnd \/ QueueFrame
    BY <2>2 DEF Relay, Forward, SayEnd, Test, QueueFrame, conn, odd, link
  <2>3. ASSUME NEW b \in BOOLEAN, Store(b)
        PROVE  UNCHANGED <<frame91, moved, linkPc, linkG, linkS>>
    BY <2>3 DEF Store, odd, link
  <2> QED
    BY <2>1, <2>2, <2>3 DEF Handler
<1>2. /\ Waking \notin Closing /\ Registering \notin Closing /\ Registering # Waking
      /\ LoggedIn \cap Closing = {} /\ Other \cap Closing = {}
      /\ Waking \notin LoggedIn /\ Waking \notin Other
  BY Distinct DEF Other
\* A step that leaves what is known of the sessions alone.
<1>3. ASSUME UNCHANGED <<reads, isLogin>>, todo # Waking,
             todo' # << >> => ioS' = ioS /\ (todo' \in Closing \/ todo \notin Closing)
      PROVE  Answered'
  BY <1>0, <1>1, <1>3 DEF Opens, Answers
<1>4. CASE Register
  <2>1. todo = Registering /\ ~ isLogin[ioS] /\ UNCHANGED isLogin /\ reads[ioS] = "open"
    BY <1>0, <1>2, <1>4, Moves DEF Register, Owned, Reads91, Opens
  <2>2. \/ reads' = [reads EXCEPT ![ioS] = "done"] /\ todo' = << >>
        \/ reads' = reads /\ ioS' = ioS
    <3>1. todo' \in {<< >>, Waking} /\ Waking # << >>
      BY <1>0, <1>4, Moves, NotEmpty DEF Telling
    <3> QED
      BY <1>4, <2>1, <3>1, Tails, NotEmpty DEF Register, Then, Telling
  <2>3. Opens'
    BY <1>0, <2>1, <2>2 DEF Opens, Typed, ConnTypes
  <2>4. Answers'
    BY <1>0, <1>1, <1>2, <2>1, <2>2 DEF Answers, Typed, ConnTypes
  <2> QED
    BY <2>3, <2>4
<1>5. CASE Wake
  <2>1. /\ todo = Waking /\ todo' = Relaying /\ ioS' = ioS /\ UNCHANGED reads
        /\ isLogin' = [isLogin EXCEPT ![ioS] = TRUE]
    BY <1>0, <1>5, Moves, NotEmpty DEF Wake, Then, Telling
  <2>2. Opens'
    BY <1>0, <1>2, <2>1 DEF Opens, Typed, ConnTypes
  <2>3. Answers'
    BY <1>0, <1>1, <2>1 DEF Answers, Typed, ConnTypes
  <2> QED
    BY <2>2, <2>3
<1>6. CASE Relay \/ (\E b \in BOOLEAN : Store(b)) \/ Forward
  <2>1. UNCHANGED <<reads, isLogin>> /\ ioS' = IF todo' = << >> THEN None ELSE ioS
    <3>1. CASE Relay
      BY <3>1 DEF Relay, Then, conn
    <3>2. CASE Forward
      BY <3>2 DEF Forward, Test, Then, conn
    <3>3. ASSUME NEW b \in BOOLEAN, Store(b)
          PROVE  UNCHANGED <<reads, isLogin>> /\ ioS' = IF todo' = << >> THEN None ELSE ioS
      BY <3>3 DEF Store, Then
    <3> QED
      BY <1>6, <3>1, <3>2, <3>3
  <2>2. todo \in LoggedIn \union Other
    BY <1>0, <1>6, Moves DEF LoggedIn, Other
  <2> QED
    BY <1>2, <1>3, <2>1, <2>2
<1>7. CASE SayEnd \/ Erase
  <2>1. UNCHANGED <<reads, isLogin>> /\ ioS' = IF todo' = << >> THEN None ELSE ioS
    BY <1>7 DEF SayEnd, Test, Erase, Then, conn
  <2>2. todo \in {Ending, Erasing} /\ todo' \in {<< >>, QueueingEnd, Ending}
    BY <1>0, <1>7, Moves
  <2>3. {Ending, Erasing, QueueingEnd} \subseteq Closing
    BY DEF Closing
  <2> QED
    BY <1>2, <1>3, <2>1, <2>2, <2>3
<1>8. CASE QueueFrame
  <2>1. UNCHANGED <<reads, isLogin>> /\ todo \in {Queueing, QueueingEnd} /\ todo' = << >>
    BY <1>0, <1>8, Moves DEF QueueFrame, conn
  <2>2. Queueing \in LoggedIn /\ QueueingEnd \in Closing
    BY DEF LoggedIn, Closing
  <2> QED
    BY <1>2, <1>3, <2>1, <2>2
<1> QED
  BY <1>4, <1>5, <1>6, <1>7, <1>8 DEF Handler

LEMMA SessionAnswered ==
  ASSUME Typed, Owned, Answered, NEW r \in Sessions, Session(r)
  PROVE  Answered'
<1> USE DEF Answered
<1>1. Idle /\ moved \subseteq moved' /\ UNCHANGED <<isLogin, linkPc, linkG, linkS>>
  <2>1. CASE Accept(r) \/ ReadOther(r)
    BY <2>1 DEF Accept, ReadOther, odd, link
  <2>2. CASE ReadError(r) \/ WriteError(r)
    BY <2>2 DEF ReadError, WriteError, Close, odd, link
  <2>3. ASSUME NEW a \in AddressesOf[r], Read90(r, a) \/ Read91(r, a)
        PROVE  /\ Idle /\ moved \subseteq moved'
               /\ UNCHANGED <<isLogin, linkPc, linkG, linkS>>
    BY <2>3 DEF Read90, Read91, link
  <2> QED
    BY <2>1, <2>2, <2>3 DEF Session
<1>2. todo = << >> /\ Waking # << >>
  BY <1>1, NotEmpty DEF Idle, Telling
<1>3. ASSUME NEW s \in Sessions \ moved', frame91[s] # NoAddress
      PROVE  frame91'[s] = frame91[s]
  <2>1. CASE Accept(r) \/ ReadOther(r) \/ ReadError(r) \/ WriteError(r)
    BY <2>1 DEF Accept, ReadOther, ReadError, WriteError, Close
  <2>2. ASSUME NEW a \in AddressesOf[r], Read90(r, a)
        PROVE  frame91'[s] = frame91[s]
    BY <2>2 DEF Read90
  <2>3. ASSUME NEW a \in AddressesOf[r], Read91(r, a)
        PROVE  frame91'[s] = frame91[s]
    <3>1. /\ frame91' = [frame91 EXCEPT ![r] = a]
          /\ moved' = IF srcAddress[r] = a THEN moved ELSE moved \union {r}
      BY <2>3 DEF Read91
    <3>2. s \notin moved /\ frame91[s] = srcAddress[s]
      BY <1>1, <1>3 DEF Owned, OwnFrame
    <3> QED
      BY <1>3, <3>1, <3>2 DEF Typed, ConnTypes
  <2> QED
    BY <2>1, <2>2, <2>3 DEF Session
<1>4. Opens'
  <2>1. CASE Accept(r)
    BY <1>2, <2>1 DEF Accept, io, Opens, Typed, ConnTypes
  <2>2. ASSUME ReadOther(r) \/ \E a \in AddressesOf[r] : Read90(r, a) \/ Read91(r, a)
        PROVE  Opens'
    BY <2>2 DEF ReadOther, Read90, Read91, Opens
  <2>3. CASE ReadError(r) \/ WriteError(r)
    BY <2>3 DEF ReadError, WriteError, Close, Opens, Closing, Erasing, Typed, ConnTypes
  <2> QED
    BY <2>1, <2>2, <2>3 DEF Session
<1>5. Answers'
  <2>1. linkPc = "tell91" => linkS \in Sessions
    BY DEF Typed, LinkTypes
  <2> QED
    BY <1>1, <1>2, <1>3, <2>1 DEF Answers
<1> QED
  BY <1>4, <1>5

LEMMA LinkAnswered ==
  ASSUME Typed, Owned, Answered, Link
  PROVE  Answered'
<1> USE DEF Answered
<1>1. UNCHANGED <<reads, isLogin, frame91, io, moved>>
  <2>1. CASE LinkLost \/ Clear \/ LinkValid \/ Snapshot
    BY <2>1 DEF LinkLost, Clear, LinkValid, Snapshot, conn, odd
  <2>2. CASE LinkStep
    BY <2>2 DEF LinkStep, Stop, Ask, Get91, Tell91, PutToMessageQueue, conn, odd
  <2>3. ASSUME NEW g \in Asked, Get92(g) \/ Get93(g) \/ GetOther(g)
        PROVE  UNCHANGED <<reads, isLogin, frame91, io, moved>>
    BY <2>3 DEF Get92, Get93, GetOther, conn, odd
  <2> QED
    BY <2>1, <2>2, <2>3 DEF Link
<1>2. Opens'
  BY <1>1 DEF io, Opens
<1>3. CASE Get91
  <2>1. linkPc = "get91" /\ linkPc' = "tell91" /\ linkS' = linkS /\ linkG' = frame91[linkS]
    BY <1>3 DEF Get91, Goto
  <2> QED
    BY <1>1, <1>2, <2>1 DEF Answers, io
<1>4. CASE Ask
  <2>1. linkPc = "ask" /\ (linkPc' = "read" \/ (linkPc' = "get91" /\ linkS' = linkS))
    BY <1>4 DEF Ask, Goto
  <2> QED
    BY <1>1, <1>2, <2>1 DEF Answers, io
<1>5. ASSUME NEW g \in Asked, Get93(g) PROVE Answered'
  <2>1. linkS' = gprsSession[g] /\ linkPc' \in {"wait", "ask"} /\ g \in Keys
    BY <1>5, RegistryAssumption DEF Get93, Goto, Keys
  <2>2. ASSUME linkS' \in Sessions \ moved
        PROVE  /\ frame91[linkS'] # NoAddress
               /\ isLogin[linkS'] \/ (ioS = linkS' /\ todo = Waking)
    BY <2>1, <2>2 DEF Owned, Held
  <2>3. Answers'
    BY <1>1, <2>1, <2>2 DEF Answers, io
  <2> QED
    BY <1>2, <2>3
<1>6. CASE LinkLost \/ Clear \/ LinkValid \/ Stop \/ Tell91 \/ PutToMessageQueue
  <2>1. linkPc' \in {"clear", "accept", "valid", "read"}
    BY <1>6 DEF LinkLost, Clear, LinkValid, Stop, Tell91, PutToMessageQueue, Goto
  <2> QED
    BY <1>2, <2>1 DEF Answers
<1>7. ASSUME Snapshot \/ \E g \in Asked : Get92(g) \/ GetOther(g) PROVE Answered'
  <2>1. UNCHANGED <<linkPc, linkG, linkS>> \/ linkPc' = "stop"
    BY <1>7 DEF Snapshot, Get92, GetOther, Goto, link
  <2> QED
    BY <1>1, <1>2, <2>1 DEF Answers, io
<1> QED
  BY <1>3, <1>4, <1>5, <1>6, <1>7 DEF Link, LinkStep

LEMMA NextAnswered == Typed /\ Owned /\ Answered /\ [Next]_vars => Answered'
<1> SUFFICES ASSUME Typed, Owned, Answered, [Next]_vars PROVE Answered'
  OBVIOUS
<1>1. UNCHANGED <<conn, link, io, odd>> => Answered'
  BY DEF conn, link, io, odd, Answered, Opens, Answers
<1>2. CASE UNCHANGED vars
  BY <1>1, <1>2 DEF vars
<1>3. CASE Expire \/ HandleMessageTimeOut
  BY <1>1, <1>3 DEF Expire, HandleMessageTimeOut
<1> QED
  BY <1>2, <1>3, HandlerAnswered, SessionAnswered, LinkAnswered DEF Next

\* A session that keeps the 91 frames of g and still reads, or will say so.
Lives(s, g) ==
    /\ frame91[s] = g
    /\ isLogin[s] \/ (ioS = s /\ todo = Waking)
    /\ reads[s] = "open" \/ (ioS = s /\ todo \in Closing)

\* What is told is true, but for frames that were tested against an older link.
Believed ==
    /\ ~ late /\ linkPc \in {"accept", "valid"} =>
          \A g \in Gprs : said[g] = "nothing"
    /\ ~ late /\ isClientValid =>
          \A g \in Gprs : said[g] = "91" =>
              \E s \in Sessions : s \in moved \/ Lives(s, g)

LEMMA StartBelieved ==
  ASSUME NEW pc \in {"clear", "none"}, StartAt(pc)
  PROVE  Believed
  BY DEF StartAt, Believed

\* A step of the io thread lets a session live, but for the EE08 of its end.
LEMMA HandlerLives ==
  ASSUME Typed, Owned, Told, Handler, NEW s \in Sessions, NEW g \in Gprs, isClientValid,
         s \in moved \/ Lives(s, g)
  PROVE  s \in moved' \/ Lives(s, g)' \/ (todo = QueueingEnd /\ QueueFrame /\ ioS = s)
<1>0. ioS \in Sessions /\ todo \in Handlers
  <2>1. todo # << >>
    BY DEF Handler, Register, Wake, Relay, Store, Forward, SayEnd, Test, QueueFrame,
           Erase, At
  <2> QED
    BY <2>1 DEF Typed, IoTypes
<1>1. UNCHANGED <<frame91, moved>>
  <2>1. CASE Register \/ Wake \/ Erase
    BY <2>1 DEF Register, Wake, Erase, conn, odd
  <2>2. CASE Relay \/ Forward \/ SayEnd \/ QueueFrame
    BY <2>2 DEF Relay, Forward, SayEnd, Test, QueueFrame, conn, odd
  <2>3. ASSUME NEW b \in BOOLEAN, Store(b) PROVE UNCHANGED <<frame91, moved>>
    BY <2>3 DEF Store, odd
  <2> QED
    BY <2>1, <2>2, <2>3 DEF Handler
<1> SUFFICES ASSUME s \notin moved
             PROVE  Lives(s, g)' \/ (todo = QueueingEnd /\ QueueFrame /\ ioS = s)
  BY <1>1
<1>2. frame91[s] = g /\ frame91' = frame91
  BY <1>1 DEF Lives
<1>3. /\ LoggedIn \cap Closing = {} /\ Other \cap Closing = {} /\ Waking \notin Closing
      /\ Waking \notin LoggedIn /\ Waking \notin Other /\ << >> \in Other
      /\ Registering \notin Closing /\ Registering # Waking
  BY Distinct DEF Other
<1>4. CASE Register
  <2>1. todo = Registering /\ ~ isLogin[ioS]
    BY <1>0, <1>4, Moves DEF Owned, Reads91
  <2>2. s # ioS /\ isLogin[s] /\ reads[s] = "open"
    BY <1>3, <2>1 DEF Lives
  <2>3. isLogin'[s] /\ reads'[s] = "open"
    BY <1>4, <2>2 DEF Register, Typed, ConnTypes
  <2> QED
    BY <1>2, <2>3 DEF Lives
<1>5. CASE Wake
  <2>1. todo = Waking
    BY <1>0, <1>5, Moves
  <2>2. reads[s] = "open" /\ UNCHANGED reads
    BY <1>3, <1>5, <2>1 DEF Lives, Wake
  <2>3. isLogin'[s]
    BY <1>0, <1>5 DEF Lives, Wake, Typed, ConnTypes
  <2> QED
    BY <1>2, <2>2, <2>3 DEF Lives
<1>6. CASE Relay \/ (\E b \in BOOLEAN : Store(b)) \/ Forward
  <2>1. UNCHANGED <<isLogin, reads>>
    <3>1. CASE Relay \/ Forward
      BY <3>1 DEF Relay, Forward, Test, conn
    <3>2. ASSUME NEW b \in BOOLEAN, Store(b) PROVE UNCHANGED <<isLogin, reads>>
      BY <3>2 DEF Store
    <3> QED
      BY <1>6, <3>1, <3>2
  <2>2. todo \in LoggedIn \union Other
    BY <1>0, <1>6, Moves DEF LoggedIn, Other
  <2>3. isLogin[s] /\ reads[s] = "open"
    BY <1>3, <2>2 DEF Lives
  <2> QED
    BY <1>2, <2>1, <2>3 DEF Lives
<1>7. CASE SayEnd
  <2>1. /\ UNCHANGED <<isLogin, reads>>
        /\ todo = Ending /\ todo' = QueueingEnd /\ todo' # << >>
    BY <1>0, <1>7, Moves, NotEmpty DEF SayEnd, Test, conn, Closing
  <2>2. ioS' = ioS
    BY <1>7, <2>1 DEF SayEnd, Test, Then
  <2>3. todo \in Closing /\ todo' \in Closing
    BY <2>1 DEF Closing
  <2> QED
    BY <1>2, <1>3, <2>1, <2>2, <2>3 DEF Lives
<1>8. CASE QueueFrame
  <2>1. UNCHANGED <<isLogin, reads>> /\ todo \in {Queueing, QueueingEnd}
    BY <1>0, <1>8, Moves DEF QueueFrame, conn
  <2>2. Queueing \in LoggedIn /\ QueueingEnd \in Closing
    BY DEF LoggedIn, Closing
  <2>3. isLogin[s]
    BY <1>3, <2>1, <2>2 DEF Lives
  <2> QED
    BY <1>2, <1>3, <1>8, <2>1, <2>2, <2>3 DEF Lives
<1>9. CASE Erase
  <2>1. /\ UNCHANGED <<isLogin, reads>> /\ ioS' = ioS
        /\ todo = Erasing /\ todo' = Ending
    BY <1>0, <1>9, Moves, NotEmpty DEF Erase, Then, conn, Closing
  <2>2. todo \in Closing /\ todo' \in Closing
    BY <2>1 DEF Closing
  <2> QED
    BY <1>2, <1>3, <2>1, <2>2 DEF Lives
<1> QED
  BY <1>4, <1>5, <1>6, <1>7, <1>8, <1>9 DEF Handler

LEMMA SessionLives ==
  ASSUME Typed, Owned, NEW r \in Sessions, Session(r), NEW s \in Sessions, NEW g \in Gprs,
         s \in moved \/ Lives(s, g)
  PROVE  s \in moved' \/ Lives(s, g)'
<1>1. Idle /\ moved \subseteq moved' /\ UNCHANGED isLogin
  <2>1. CASE Accept(r) \/ ReadOther(r)
    BY <2>1 DEF Accept, ReadOther, odd
  <2>2. CASE ReadError(r) \/ WriteError(r)
    BY <2>2 DEF ReadError, WriteError, Close, odd
  <2>3. ASSUME NEW a \in AddressesOf[r], Read90(r, a) \/ Read91(r, a)
        PROVE  Idle /\ moved \subseteq moved' /\ UNCHANGED isLogin
    BY <2>3 DEF Read90, Read91
  <2> QED
    BY <2>1, <2>2, <2>3 DEF Session
<1> SUFFICES ASSUME s \notin moved'
             PROVE  Lives(s, g)'
  OBVIOUS
<1>2. frame91[s] = g /\ isLogin[s] /\ reads[s] = "open"
  BY <1>1, Distinct DEF Lives, Idle, Other
<1>3. CASE Accept(r) \/ ReadOther(r)
  <2>1. UNCHANGED frame91 /\ reads'[s] = "open"
    BY <1>2, <1>3 DEF Accept, ReadOther, Typed, ConnTypes
  <2> QED
    BY <1>1, <1>2, <2>1 DEF Lives
<1>4. ASSUME NEW a \in AddressesOf[r], Read90(r, a) PROVE Lives(s, g)'
  BY <1>1, <1>2, <1>4 DEF Lives, Read90
<1>5. ASSUME NEW a \in AddressesOf[r], Read91(r, a) PROVE Lives(s, g)'
  <2>1. /\ UNCHANGED reads /\ frame91' = [frame91 EXCEPT ![r] = a]
        /\ moved' = IF srcAddress[r] = a THEN moved ELSE moved \union {r}
    BY <1>5 DEF Read91
  <2>2. s \notin moved /\ frame91[s] = srcAddress[s]
    BY <1>1, <1>2, RegistryAssumption DEF Owned, OwnFrame
  <2>3. frame91'[s] = g
    BY <1>2, <2>1, <2>2 DEF Typed, ConnTypes
  <2> QED
    BY <1>1, <1>2, <2>1, <2>3 DEF Lives
<1>6. CASE ReadError(r) \/ WriteError(r)
  <2>1. /\ UNCHANGED frame91
        /\ UNCHANGED reads \/ reads' = [reads EXCEPT ![r] = "done"]
        /\ isLogin[r] => todo' = Erasing /\ ioS' = r
    BY <1>6 DEF ReadError, WriteError, Close, Erasing
  <2>2. s = r \/ reads'[s] = reads[s]
    BY <2>1 DEF Typed, ConnTypes
  <2>3. reads'[s] = "open" \/ (ioS' = s /\ todo' \in Closing)
    BY <1>2, <2>1, <2>2 DEF Closing
  <2> QED
    BY <1>1, <1>2, <2>1, <2>3 DEF Lives
<1> QED
  BY <1>3, <1>4, <1>5, <1>6 DEF Session

LEMMA NextBelieved ==
  Typed /\ Owned /\ Told /\ Answered /\ Believed /\ [Next]_vars => Believed'
<1> SUFFICES ASSUME Typed, Owned, Told, Answered, Believed, [Next]_vars PROVE Believed'
  OBVIOUS
<1>1. UNCHANGED <<reads, isLogin, frame91, isClientValid, linkPc, io, said, odd>> => Believed'
  BY DEF Believed, Lives, io, odd
<1>2. CASE UNCHANGED vars
  BY <1>1, <1>2 DEF vars, conn, link
<1>3. CASE Expire \/ HandleMessageTimeOut
  BY <1>1, <1>3 DEF Expire, HandleMessageTimeOut, conn, link
<1>4. CASE Handler
  <2>0. ioS \in Sessions /\ todo \in Handlers
    <3>1. todo # << >>
      BY <1>4 DEF Handler, Register, Wake, Relay, Store, Forward, SayEnd, Test,
                  QueueFrame,
                  Erase, At
    <3> QED
      BY <3>1 DEF Typed, IoTypes
  <2>1. UNCHANGED <<isClientValid, linkPc>>
    <3>1. CASE Register \/ Wake \/ Erase
      BY <3>1 DEF Register, Wake, Erase, link
    <3>2. CASE Relay \/ Forward \/ SayEnd \/ QueueFrame
      BY <3>2 DEF Relay, Forward, SayEnd, Test, QueueFrame, link
    <3>3. ASSUME NEW b \in BOOLEAN, Store(b) PROVE UNCHANGED <<isClientValid, linkPc>>
      BY <3>3 DEF Store, link
    <3> QED
      BY <1>4, <3>1, <3>2, <3>3 DEF Handler
  <2>2. CASE QueueFrame
    <3>1. late' = (late \/ ~ isClientValid) /\ UNCHANGED <<reads, isLogin, frame91, moved>>
      BY <2>2 DEF QueueFrame, conn
    <3>2. ASSUME ~ late', linkPc' \in {"accept", "valid"} PROVE FALSE
      BY <2>1, <3>1, <3>2 DEF Told, LinkOff
    <3>3. ASSUME ~ late', isClientValid, NEW g \in Gprs, said'[g] = "91"
          PROVE  \E s \in Sessions : s \in moved' \/ Lives(s, g)'
      <4>1. CASE said[g] = "91" /\ ~ (At("queueEE08") /\ g = srcAddress[ioS])
        <5>1. PICK s \in Sessions : s \in moved \/ Lives(s, g)
          BY <3>1, <3>3, <4>1 DEF Believed
        <5>2. CASE s \in moved
          BY <3>1, <5>2
        <5>3. CASE s \notin moved /\ Lives(s, g)
          <6>1. frame91[s] = g /\ srcAddress[s] = g
            BY <5>3, RegistryAssumption DEF Lives, Owned, OwnFrame
          <6>2. ~ (todo = QueueingEnd /\ ioS = s)
            BY <4>1, <6>1, Heads, NotEmpty DEF At, Closing
          <6>3. s \in moved' \/ Lives(s, g)'
            BY <1>4, <3>3, <5>3, <6>2, HandlerLives
          <6> QED
            BY <6>3
        <5> QED
          BY <5>1, <5>2, <5>3
      <4>2. CASE At("queue91") /\ g = frame91[ioS]
        <5>1. todo = Queueing /\ reads[ioS] = "open" /\ isLogin[ioS]
          BY <2>0, <4>2, StepAt DEF Owned, Reads91, LoggedIn, Telling
        <5>2. \E s \in Sessions : frame91'[s] = g /\ isLogin'[s] /\ reads'[s] = "open"
          <6> DEFINE r == ioS
          <6>1. r \in Sessions /\ frame91'[r] = g /\ isLogin'[r] /\ reads'[r] = "open"
            BY <2>0, <3>1, <4>2, <5>1
          <6> QED
            BY <6>1
        <5> QED
          BY <5>2 DEF Lives
      <4> QED
        <5>1. \/ At("queue91") /\ (said[g] = "91" \/ g = frame91[ioS])
              \/ At("queueEE08") /\ said[g] = "91" /\ g # srcAddress[ioS]
          BY <2>2, <3>3 DEF QueueFrame
        <5>2. At("queue91") => ~ At("queueEE08")
          BY DEF At
        <5> QED
          BY <4>1, <4>2, <5>1, <5>2
    <3> QED
      BY <2>1, <3>2, <3>3 DEF Believed
  <2>3. CASE ~ QueueFrame
    <3>1. UNCHANGED <<said, late>>
      <4>1. CASE Register \/ Wake \/ Erase
        BY <4>1 DEF Register, Wake, Erase, odd
      <4>2. CASE Relay \/ Forward \/ SayEnd
        BY <4>2 DEF Relay, Forward, SayEnd, Test, odd
      <4>3. ASSUME NEW b \in BOOLEAN, Store(b) PROVE UNCHANGED <<said, late>>
        BY <4>3 DEF Store, odd
      <4> QED
        BY <1>4, <2>3, <4>1, <4>2, <4>3 DEF Handler
    <3>2. ASSUME ~ late, isClientValid, NEW g \in Gprs, said[g] = "91"
          PROVE  \E s \in Sessions : s \in moved' \/ Lives(s, g)'
      <4>1. PICK s \in Sessions : s \in moved \/ Lives(s, g)
        BY <3>2 DEF Believed
      <4> QED
        BY <1>4, <2>3, <3>2, <4>1, HandlerLives
    <3> QED
      BY <2>1, <3>1, <3>2 DEF Believed
  <2> QED
    BY <2>2, <2>3
<1>5. ASSUME NEW r \in Sessions, Session(r) PROVE Believed'
  <2>1. UNCHANGED <<isClientValid, linkPc, said, late>>
    BY <1>5 DEF Session, Accept, Read90, Read91, ReadOther, ReadError, WriteError,
                Close, link, odd
  <2>2. ASSUME ~ late, isClientValid, NEW g \in Gprs, said[g] = "91"
        PROVE  \E s \in Sessions : s \in moved' \/ Lives(s, g)'
    <3>1. PICK s \in Sessions : s \in moved \/ Lives(s, g)
      BY <2>2 DEF Believed
    <3> QED
      BY <1>5, <2>2, <3>1, SessionLives
  <2> QED
    BY <2>1, <2>2 DEF Believed
<1>6. CASE Link
  <2>1. UNCHANGED <<reads, isLogin, frame91, io, odd>>
    <3>1. CASE LinkLost \/ Clear \/ LinkValid \/ Snapshot
      BY <3>1 DEF LinkLost, Clear, LinkValid, Snapshot, conn
    <3>2. CASE LinkStep
      BY <3>2 DEF LinkStep, Stop, Ask, Get91, Tell91, PutToMessageQueue, conn
    <3>3. ASSUME NEW g \in Asked, Get92(g) \/ Get93(g) \/ GetOther(g)
          PROVE  UNCHANGED <<reads, isLogin, frame91, io, odd>>
      BY <3>3 DEF Get92, Get93, GetOther, conn
    <3> QED
      BY <1>6, <3>1, <3>2, <3>3 DEF Link
  <2>2. \A s \in Sessions, g \in Gprs :
           (s \in moved' \/ Lives(s, g)') <=> (s \in moved \/ Lives(s, g))
    BY <2>1 DEF Lives, io, odd
  <2>3. late' = late
    BY <2>1 DEF odd
  <2>4. CASE LinkLost
    BY <2>3, <2>4 DEF LinkLost, Goto, Believed
  <2>5. CASE Clear
    BY <2>2, <2>3, <2>5 DEF Clear, Goto, Believed
  <2>6. CASE LinkValid
    BY <2>2, <2>3, <2>6 DEF LinkValid, Goto, Believed
  <2>7. CASE Snapshot
    <3>1. UNCHANGED <<linkPc, isClientValid>>
      BY <2>7 DEF Snapshot
    <3>2. ~ isClientValid => said' = said
      <4>1. CASE Null \in Registered
        BY <2>7, <4>1 DEF Snapshot
      <4>2. CASE Null \notin Registered /\ ~ isClientValid
        <5>1. said' = [g \in Gprs |-> said[g]]
          BY <2>7, <4>2 DEF Snapshot
        <5>2. said = [g \in Gprs |-> said[g]]
          BY DEF Typed, HistoryTypes
        <5> QED
          BY <5>1, <5>2
      <4> QED
        BY <4>1, <4>2
    <3>3. ASSUME ~ late, isClientValid, NEW g \in Gprs, said'[g] = "91"
          PROVE  \E s \in Sessions : s \in moved \/ Lives(s, g)
      <4>1. CASE said[g] = "91"
        BY <3>3, <4>1 DEF Believed
      <4>2. CASE said[g] # "91"
        <5>1. Null \notin Registered /\ \E s \in Registered : g = frame91[s]
          BY <2>7, <3>3, <4>2 DEF Snapshot
        <5>2. PICK a \in Keys : gprsSession[a] # None /\ g = frame91[gprsSession[a]]
          BY <5>1 DEF Registered
        <5>3. gprsSession[a] \in Sessions
          BY <5>1, <5>2 DEF Registered, Typed, LinkTypes
        <5>4. Erasing \in Closing
          BY DEF Closing
        <5> QED
          BY <5>2, <5>3, <5>4 DEF Owned, Held, Lives
      <4> QED
        BY <4>1, <4>2
    <3>4. linkPc \in {"accept", "valid"} => ~ isClientValid
      BY DEF Told, LinkOff
    <3> QED
      BY <2>2, <2>3, <3>1, <3>2, <3>3, <3>4 DEF Believed
  <2>8. ASSUME \/ Stop \/ Ask \/ Get91 \/ PutToMessageQueue
               \/ \E g \in Asked : Get92(g) \/ Get93(g) \/ GetOther(g)
        PROVE  Believed'
    <3>1. UNCHANGED <<isClientValid, said>>
      BY <2>8 DEF Stop, Ask, Get91, PutToMessageQueue, Get92, Get93, GetOther, link
    <3>2. linkPc' \notin {"accept", "valid"} \/ UNCHANGED linkPc
      BY <2>8 DEF Stop, Ask, Get91, PutToMessageQueue, Get92, Get93, GetOther,
                  Goto, Reading, link
    <3> QED
      BY <2>2, <2>3, <3>1, <3>2 DEF Believed
  <2>9. CASE Tell91
    <3>1. linkPc' = "read" /\ UNCHANGED isClientValid
      BY <2>9 DEF Tell91, Goto
    <3>2. ASSUME ~ late, isClientValid, NEW g \in Gprs, said'[g] = "91"
          PROVE  \E s \in Sessions : s \in moved \/ Lives(s, g)
      <4>1. CASE said[g] = "91"
        BY <3>2, <4>1 DEF Believed
      <4>2. CASE said[g] # "91"
        <5>1. g = linkG /\ (reads[linkS] = "done" => ioS = linkS)
          BY <2>9, <3>2, <4>2 DEF Tell91
        <5>2. linkPc = "tell91" /\ linkS \in Sessions
          BY <2>9 DEF Tell91, Typed, LinkTypes
        <5>3. CASE linkS \in moved
          BY <5>2, <5>3
        <5>4. CASE linkS \notin moved
          <6>1. /\ frame91[linkS] = g
                /\ isLogin[linkS] \/ (ioS = linkS /\ todo = Waking)
            BY <5>1, <5>2, <5>4 DEF Answered, Answers
          <6>0. reads[linkS] # "none"
            <7>1. Waking # << >> /\ Waking \notin Closing
              BY NotEmpty, Distinct DEF Telling
            <7> QED
              BY <5>2, <6>1, <7>1 DEF Answered, Opens
          <6>2. reads[linkS] = "open" \/ (ioS = linkS /\ todo \in Closing)
            <7>1. CASE reads[linkS] = "done"
              <8>1. ioS = linkS /\ todo # << >>
                BY <5>1, <5>2, <7>1, RegistryAssumption DEF Typed, IoTypes
              <8>2. todo \in Closing
                BY <7>1, <8>1 DEF Answered, Opens
              <8> QED
                BY <8>1, <8>2
            <7> QED
              BY <5>2, <6>0, <7>1 DEF Typed, ConnTypes
          <6> QED
            BY <5>2, <6>1, <6>2 DEF Lives
        <5> QED
          BY <5>3, <5>4
      <4> QED
        BY <4>1, <4>2
    <3> QED
      BY <2>2, <2>3, <3>1, <3>2 DEF Believed
  <2> QED
    BY <1>6, <2>4, <2>5, <2>6, <2>7, <2>8, <2>9 DEF Link, LinkStep
<1> QED
  BY <1>2, <1>3, <1>4, <1>5, <1>6 DEF Next

-----------------------------------------------------------------------------
(* The theorems: for Registry, and for both programs of the release.       *)

IInv == Typed /\ Waits /\ Relays /\ Owned /\ Told /\ Answered /\ Believed

LEMMA StartInv ==
  ASSUME NEW pc \in {"clear", "none"}, StartAt(pc)
  PROVE  IInv
  BY StartTyped, StartWaits, StartRelays, StartOwned, StartTold, StartAnswered,
     StartBelieved DEF IInv

LEMMA NextInv == IInv /\ [Next]_vars => IInv'
  BY NextTyped, NextWaits, NextRelays, NextOwned, NextTold, NextAnswered, NextBelieved
     DEF IInv

LEMMA Inv == Spec \/ ReleaseSpec => []IInv
<1>1. Init => IInv
  BY StartInv DEF Init
<1>2. ReleaseInit => IInv
  BY StartInv DEF ReleaseInit
<1>3. Spec => []IInv
  BY <1>1, NextInv, PTL DEF Spec
<1>4. ReleaseSpec => []IInv
  BY <1>2, NextInv, ReleaseIsNext, PTL DEF ReleaseSpec
<1> QED
  BY <1>3, <1>4

\* Every variable keeps its type, and the io thread is in a handler of some session
\* exactly as long as steps of it are left.
THEOREM RegistryTypeCorrect == Spec \/ ReleaseSpec => []TypeOK
<1>1. IInv => TypeOK
  BY TypedIsTypeOK DEF IInv
<1> QED
  BY <1>1, Inv, PTL

\* PutToMessageQueue, AddGprsConnection and HandleMessageTimeOut never leave an
\* entry of m_messageQueue without a timer, and keep the order of arrival.
THEOREM WaitingServed == Spec \/ ReleaseSpec => []WaitingHasTimer
<1>1. IInv => WaitingHasTimer
  <2> SUFFICES ASSUME IInv PROVE WaitingHasTimer
    OBVIOUS
  <2>1. DOMAIN messageQueue = 1 .. Len(messageQueue)
    BY Numbered DEF IInv
  <2> QED
    BY <2>1 DEF IInv, Waits, WaitingHasTimer
<1> QED
  BY <1>1, Inv, PTL

\* m_isTransmit is what SetTransmit said last, but where PushToQueue stores what it
\* found of an invalid link, or what it found before the call.
THEOREM RelayKeepsOrder == Spec \/ ReleaseSpec => []RelayAsOrdered
<1>1. IInv => RelayAsOrdered
  BY DEF IInv, Relays, RelayAsOrdered
<1> QED
  BY <1>1, Inv, PTL

\* However sessions of one address follow each other, m_gprsSession keeps none that
\* has ended, but one that changed its address.
THEOREM RegistryHasNoGhost == Spec \/ ReleaseSpec => []NoGhost
<1>1. IInv => NoGhost
  <2> SUFFICES ASSUME IInv, Idle, NEW a \in Keys, gprsSession[a] \in Sessions,
                      gprsSession[a] \notin moved
               PROVE  reads[gprsSession[a]] = "open"
    BY DEF NoGhost
  <2>1. todo # Erasing
    BY NotEmpty DEF Idle, Closing
  <2> QED
    BY <2>1 DEF IInv, Owned, Held
<1> QED
  BY <1>1, Inv, PTL

\* Whenever the link is set up, the writer thread's snapshot of m_gprsSession and the
\* 91 frames of PushToQueue together tell TransmitServer of every gprs registered.
THEOREM EveryConnectedTold == Spec \/ ReleaseSpec => []ConnectedTold
<1>1. IInv => ConnectedTold
  <2> SUFFICES ASSUME IInv, Settled, NEW a \in Gprs, gprsSession[a] \in Sessions \ moved
               PROVE  said[a] \in {"91", "late91"}
    BY DEF ConnectedTold
  <2>1. todo \notin Telling
    BY Distinct DEF Settled, Idle, Other
  <2> QED
    BY <2>1 DEF IInv, Told, Tells, Settled
<1> QED
  BY <1>1, Inv, PTL

\* TransmitServer believes in no gprs that is gone: RemoveGprsConnection tells of the
\* end of every session that was told of, unless it changed its address, a frame was
\* tested against an older link, or a 93 frame was being answered with the 91 frame
\* of the session while it ended.
THEOREM NoneBelievedGone == Spec \/ ReleaseSpec => []OnlineIsConnected
<1>1. IInv => OnlineIsConnected
  <2> SUFFICES ASSUME IInv, Settled, ~ late, NEW g \in Gprs, said[g] = "91"
               PROVE  \E s \in Sessions : s \in moved \/ (frame91[s] = g /\ reads[s] = "open")
    BY DEF OnlineIsConnected
  <2>1. todo \notin Closing
    BY Distinct DEF Settled, Idle, Other
  <2> QED
    BY <2>1 DEF IInv, Believed, Lives, Settled
<1> QED
  BY <1>1, Inv, PTL

\* No session of the registry is NULL, nor is the one the link thread has in hand.
NoNull ==
    /\ \A a \in Keys : gprsSession[a] # Null
    /\ linkS # Null /\ ~ dead

LEMMA ReleaseNoNull == Typed /\ NoNull /\ [ReleaseNext]_vars => NoNull'
<1> SUFFICES ASSUME Typed, NoNull, [ReleaseNext]_vars PROVE NoNull'
  OBVIOUS
<1>1. UNCHANGED <<gprsSession, linkS, dead>> => NoNull'
  BY DEF NoNull
<1>2. CASE UNCHANGED vars
  BY <1>1, <1>2 DEF vars, link
<1>3. CASE Register \/ Erase
  <2>1. /\ gprsSession' = gprsSession
           \/ \E a \in Keys : \/ gprsSession' = [gprsSession EXCEPT ![a] = ioS]
                             \/ gprsSession' = [gprsSession EXCEPT ![a] = None]
        /\ UNCHANGED <<linkS, dead>> /\ ioS # Null
    <3>1. ioS \in Sessions
      BY <1>3 DEF Register, Erase, At, Typed, IoTypes
    <3> QED
      BY <1>3, <3>1, RegistryAssumption DEF Register, Erase, link, Typed, ConnTypes
  <2> QED
    BY <2>1, RegistryAssumption DEF NoNull, Typed, LinkTypes
<1>4. CASE Wake \/ PackPush \/ QueueFrame \/ SayEnd \/ PackTimer
  BY <1>1, <1>4 DEF PackPush, Wake, Relay, Store, Forward, SayEnd, Test, QueueFrame,
                    PackTimer, Expire, HandleMessageTimeOut, link
<1>5. ASSUME NEW s \in Sessions, PackRead(s) \/ PackClose(s) PROVE NoNull'
  BY <1>1, <1>5 DEF PackRead, PackClose, Accept, ReadOther, Read90, Read91, ReadError,
                    WriteError, Close, link
<1>6. CASE PackConnection \/ PackPut
  BY <1>6, RegistryAssumption DEF PackConnection, LinkLost, Clear, LinkValid, PackPut,
                                  PutToMessageQueue, Goto, NoNull
<1>7. CASE PackSnapshot
  <2>1. Null \notin Registered
    BY DEF NoNull, Registered
  <2> QED
    BY <1>1, <1>7, <2>1 DEF PackSnapshot, Snapshot
<1>8. CASE PackHandle
  <2>1. ASSUME Stop \/ Ask \/ Get91 \/ Tell91 PROVE NoNull'
    <3>1. UNCHANGED gprsSession /\ dead' = dead /\ linkS' \in {None, linkS}
      BY <2>1 DEF Stop, Ask, Get91, Tell91, Goto, NoNull
    <3> QED
      BY <3>1, RegistryAssumption DEF NoNull
  <2>2. ASSUME NEW g \in Gprs, Get92(g) \/ Get93(g) PROVE NoNull'
    BY <2>2 DEF Get92, Get93, Goto, NoNull, Keys
  <2> QED
    BY <1>8, <2>1, <2>2, RegistryAssumption DEF PackHandle
<1> QED
  BY <1>2, <1>3, <1>4, <1>5, <1>6, <1>7, <1>8
     DEF ReleaseNext, PackNext, PackServer, PackPush, GuGongNext, GuGongPush,
         GuGongServer,
         GuGongRead, GuGongClose, PackRead, PackClose

\* In the release, asking for a gprs that is not connected never ends the program.
THEOREM ReleaseAsksBySms == ReleaseSpec => []AsksBySms
<1>1. ReleaseInit => NoNull
  BY RegistryAssumption DEF ReleaseInit, StartAt, NoNull, Keys
<1>2. IInv /\ NoNull /\ [ReleaseNext]_vars => NoNull'
  BY ReleaseNoNull DEF IInv
<1>3. NoNull => AsksBySms
  BY DEF NoNull, AsksBySms
<1> QED
  BY <1>1, <1>2, <1>3, Inv, PTL DEF ReleaseSpec
=============================================================================
