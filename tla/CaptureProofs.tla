--------------------------- MODULE CaptureProofs ----------------------------
(***************************************************************************)
(* What holds of Capture for every set of connections, addresses and       *)
(* systems, every number of global lists and every queue length.           *)
(***************************************************************************)
EXTENDS Capture, SequenceTheorems, TLAPS

-----------------------------------------------------------------------------
(* The frames of a queue.                                                  *)

LEMMA SetOfConcat ==
  ASSUME NEW S, NEW p \in Seq(S), NEW q \in Seq(S)
  PROVE  /\ p \o q \in Seq(S)
         /\ ToSet(p \o q) = ToSet(p) \union ToSet(q)
<1>1. /\ p \o q \in Seq(S) /\ Len(p \o q) = Len(p) + Len(q)
      /\ Len(p) \in Nat /\ Len(q) \in Nat
      /\ DOMAIN p = 1 .. Len(p) /\ DOMAIN q = 1 .. Len(q)
      /\ DOMAIN (p \o q) = 1 .. (Len(p) + Len(q))
  OBVIOUS
<1>2. \A i \in 1 .. Len(p) + Len(q) :
         (p \o q)[i] = IF i <= Len(p) THEN p[i] ELSE q[i - Len(p)]
  OBVIOUS
<1>3. ToSet(p \o q) \subseteq ToSet(p) \union ToSet(q)
  <2> SUFFICES ASSUME NEW i \in 1 .. Len(p) + Len(q)
               PROVE  (p \o q)[i] \in ToSet(p) \union ToSet(q)
    BY <1>1 DEF ToSet
  <2>1. CASE i <= Len(p)
    BY <1>1, <1>2, <2>1 DEF ToSet
  <2>2. CASE ~ i <= Len(p)
    <3>1. i - Len(p) \in 1 .. Len(q)
      BY <1>1, <2>2
    <3> QED
      BY <1>1, <1>2, <2>2, <3>1 DEF ToSet
  <2> QED
    BY <2>1, <2>2
<1>4. ToSet(p) \subseteq ToSet(p \o q)
  <2> SUFFICES ASSUME NEW i \in 1 .. Len(p)
               PROVE  p[i] \in ToSet(p \o q)
    BY <1>1 DEF ToSet
  <2>1. i \in 1 .. Len(p) + Len(q) /\ i <= Len(p)
    BY <1>1
  <2> QED
    BY <1>1, <1>2, <2>1 DEF ToSet
<1>5. ToSet(q) \subseteq ToSet(p \o q)
  <2> SUFFICES ASSUME NEW i \in 1 .. Len(q)
               PROVE  q[i] \in ToSet(p \o q)
    BY <1>1 DEF ToSet
  <2>1. /\ i + Len(p) \in 1 .. Len(p) + Len(q) /\ ~ (i + Len(p) <= Len(p))
        /\ (i + Len(p)) - Len(p) = i
    BY <1>1
  <2>2. (p \o q)[i + Len(p)] = q[i]
    BY <1>2, <2>1
  <2> QED
    BY <1>1, <2>1, <2>2 DEF ToSet
<1> QED
  BY <1>1, <1>3, <1>4, <1>5

LEMMA SetOfAppend ==
  ASSUME NEW S, NEW p \in Seq(S), NEW f \in S
  PROVE  /\ Append(p, f) \in Seq(S)
         /\ ToSet(Append(p, f)) = ToSet(p) \union {f}
<1> DEFINE q == <<f>>
<1>1. Append(p, f) = p \o q
  BY AppendIsConcat
<1>2. q \in Seq(S) /\ ToSet(q) = {f}
  BY DEF ToSet
<1> HIDE DEF q
<1> QED
  BY <1>1, <1>2, SetOfConcat

LEMMA SetOfEmpty == ToSet(<< >>) = {}
  BY DEF ToSet

\* A queue is what is taken from its front and what is left.
LEMMA SetOfSplit ==
  ASSUME NEW S, NEW p \in Seq(S), NEW k \in 1 .. Len(p)
  PROVE  /\ SubSeq(p, 1, k) \in Seq(S) /\ SubSeq(p, k + 1, Len(p)) \in Seq(S)
         /\ ToSet(p) = ToSet(SubSeq(p, 1, k)) \union ToSet(SubSeq(p, k + 1, Len(p)))
<1> DEFINE a == SubSeq(p, 1, k)  b == SubSeq(p, k + 1, Len(p))
<1>1. a \in Seq(S) /\ b \in Seq(S)
  OBVIOUS
<1>2. p = a \o b
  OBVIOUS
<1>3. ToSet(a \o b) = ToSet(a) \union ToSet(b)
  <2> HIDE DEF a, b
  <2> QED
    BY <1>1, SetOfConcat
<1> QED
  BY <1>1, <1>2, <1>3

-----------------------------------------------------------------------------
(* Types.                                                                  *)

QueueTypes ==
    /\ readQueue \in [Sessions -> Seq(Frames)]
    /\ gList \in [Systems -> [Lists -> Seq(Frames)]]
    /\ taken \in [Systems -> Seq(Frames)]
    /\ file \in [Systems -> Seq(Frames)]

RestTypes ==
    /\ reads \in [Sessions -> {"none", "open", "done"}]
    /\ writes \in [Sessions -> {"idle", "busy", "done"}]
    /\ isLogin \in [Sessions -> BOOLEAN]
    /\ from \in Seq(Sessions) /\ Len(from) <= MaxFrames
    /\ cut \subseteq Sessions /\ gprsSession \subseteq Addresses
    /\ started \subseteq Systems /\ index \in [Systems -> Lists]
    /\ faults \in 0 .. MaxFaults

LEMMA TypesOf == TypeOK <=> QueueTypes /\ RestTypes
  BY DEF TypeOK, SessionTypeOK, ServerTypeOK, QueueTypes, RestTypes

LEMMA InitTypes == Init => TypeOK
<1> SUFFICES ASSUME Init PROVE QueueTypes /\ RestTypes
  BY TypesOf
<1>1. << >> \in Seq(Frames) /\ << >> \in Seq(Sessions) /\ Len(<< >>) = 0
  OBVIOUS
<1>2. 0 \in Lists
  BY CaptureAssumption DEF Lists
<1>3. NoLists \in [Lists -> Seq(Frames)]
  BY <1>1 DEF NoLists
<1> QED
  BY <1>1, <1>2, <1>3, CaptureAssumption DEF Init, QueueTypes, RestTypes

\* The list of a session, and the next one, are lists of the system.
LEMMA ListFacts ==
  /\ \A s \in Sessions : SystemOf[s] \in Systems /\ ListOf[AddressOf[s]] \in Lists
  /\ \A i \in Lists : (i + 1) % LIST_NUM \in Lists
<1>1. \A s \in Sessions : SystemOf[s] \in Systems /\ ListOf[AddressOf[s]] \in Lists
  BY CaptureAssumption
<1>2. LIST_NUM \in Nat \ {0}
  BY CaptureAssumption
<1>3. \A n \in Nat, m \in Nat \ {0} : n % m \in 0 .. m - 1
  OBVIOUS
<1>4. \A i \in Lists : i + 1 \in Nat
  BY DEF Lists
<1> QED
  BY <1>1, <1>2, <1>3, <1>4 DEF Lists

LEMMA PutTypes ==
  ASSUME TypeOK, NEW s \in Sessions, NEW q \in Seq(Frames), Put(s, q)
  PROVE  /\ readQueue' \in [Sessions -> Seq(Frames)]
         /\ gList' \in [Systems -> [Lists -> Seq(Frames)]]
<1> DEFINE y == SystemOf[s]
           l == ListOf[AddressOf[s]]
<1>1. y \in Systems /\ l \in Lists
  BY ListFacts
<1>2. gList \in [Systems -> [Lists -> Seq(Frames)]]
  BY TypesOf DEF QueueTypes
<1> HIDE DEF y, l
<1>3. gList[y] \in [Lists -> Seq(Frames)] /\ gList[y][l] \in Seq(Frames)
  BY <1>1, <1>2
<1>4. gList[y][l] \o q \in Seq(Frames)
  BY <1>3, SetOfConcat
<1>5. [gList[y] EXCEPT ![l] = gList[y][l] \o q] \in [Lists -> Seq(Frames)]
  BY <1>3, <1>4
<1>6. gList' = [gList EXCEPT ![y] = [gList[y] EXCEPT ![l] = gList[y][l] \o q]]
  BY DEF Put, y, l
<1>7. gList' \in [Systems -> [Lists -> Seq(Frames)]]
  BY <1>1, <1>2, <1>5, <1>6
<1>8. readQueue' \in [Sessions -> Seq(Frames)]
  BY TypesOf DEF QueueTypes, Put
<1> QED
  BY <1>7, <1>8

LEMMA PushTypes ==
  ASSUME TypeOK, NEW s \in Sessions, NEW attached, Push(s, attached)
  PROVE  /\ Append(readQueue[s], Len(from) + 1) \in Seq(Frames)
         /\ readQueue' \in [Sessions -> Seq(Frames)]
         /\ gList' \in [Systems -> [Lists -> Seq(Frames)]]
         /\ from' \in Seq(Sessions) /\ Len(from') <= MaxFrames
<1> DEFINE q == Append(readQueue[s], Len(from) + 1)
<1>1. /\ readQueue \in [Sessions -> Seq(Frames)] /\ gList \in [Systems -> [Lists -> Seq(Frames)]]
      /\ from \in Seq(Sessions) /\ MaxFrames \in Nat
  BY TypesOf, CaptureAssumption DEF QueueTypes, RestTypes
<1>2. Len(from) + 1 \in Frames
  BY <1>1 DEF Push, Frames
<1>3. q \in Seq(Frames)
  BY <1>1, <1>2
<1>4. /\ from' \in Seq(Sessions) /\ Len(from') <= MaxFrames
  BY <1>1 DEF Push
<1>5. \/ Put(s, q)
      \/ readQueue' = [readQueue EXCEPT ![s] = q] /\ UNCHANGED gList
  BY DEF Push
<1> HIDE DEF q
<1>6. /\ readQueue' \in [Sessions -> Seq(Frames)]
      /\ gList' \in [Systems -> [Lists -> Seq(Frames)]]
  BY <1>1, <1>3, <1>5, PutTypes
<1> QED
  BY <1>3, <1>4, <1>6 DEF q

LEMMA CloseTypes ==
  ASSUME TypeOK, NEW s \in Sessions, CloseSession(s)
  PROVE  /\ readQueue' \in [Sessions -> Seq(Frames)]
         /\ gList' \in [Systems -> [Lists -> Seq(Frames)]]
         /\ gprsSession' \subseteq Addresses
<1>1. /\ readQueue \in [Sessions -> Seq(Frames)] /\ gList \in [Systems -> [Lists -> Seq(Frames)]]
      /\ gprsSession \subseteq Addresses
  BY TypesOf DEF QueueTypes, RestTypes
<1>2. \/ Put(s, readQueue[s])
      \/ UNCHANGED <<readQueue, gList>>
  BY DEF CloseSession
<1>3. gprsSession' \subseteq Addresses
  BY <1>1 DEF CloseSession, RemoveGprs
<1> QED
  BY <1>1, <1>2, <1>3, PutTypes

LEMMA NextTypes == TypeOK /\ [Next]_vars => TypeOK'
<1> SUFFICES ASSUME TypeOK, [Next]_vars PROVE TypeOK'
  OBVIOUS
<1>0. QueueTypes /\ RestTypes /\ MaxFaults \in Nat
  BY TypesOf, CaptureAssumption
<1>1. ASSUME QueueTypes', RestTypes' PROVE TypeOK'
  BY <1>1 DEF TypeOK, SessionTypeOK, ServerTypeOK, QueueTypes, RestTypes
<1>2. CASE UNCHANGED vars
  BY <1>2 DEF vars, sessionVars, writerVars, TypeOK, SessionTypeOK, ServerTypeOK
<1>3. ASSUME NEW s \in Sessions, ReadFrame(s) \/ Login(s) PROVE TypeOK'
  <2>1. \E attached : Push(s, attached)
    BY <1>3 DEF ReadFrame, Login
  <2>2. QueueTypes'
    BY <1>0, <1>3, <2>1, PushTypes DEF ReadFrame, Login, QueueTypes, writerVars
  <2>3. from' \in Seq(Sessions) /\ Len(from') <= MaxFrames
    BY <2>1, PushTypes
  <2>4. AddressOf[s] \in Addresses /\ SystemOf[s] \in Systems
    BY CaptureAssumption
  <2>5. RestTypes'
    BY <1>0, <1>3, <2>3, <2>4 DEF ReadFrame, Login, RestTypes, writerVars, Answer
  <2> QED
    BY <1>1, <2>2, <2>5
<1>4. ASSUME NEW s \in Sessions, ReadError(s) \/ WriteError(s) PROVE TypeOK'
  <2>1. CloseSession(s)
    BY <1>4 DEF ReadError, WriteError
  <2>2. QueueTypes'
    BY <1>0, <2>1, CloseTypes DEF CloseSession, QueueTypes, writerVars
  <2>3. gprsSession' \subseteq Addresses
    BY <2>1, CloseTypes
  <2>4. RestTypes'
    BY <1>0, <1>4, <2>1, <2>3 DEF ReadError, WriteError, CloseSession, RestTypes, writerVars
  <2> QED
    BY <1>1, <2>2, <2>4
<1>5. ASSUME NEW s \in Sessions, Accept(s) \/ BadLeadCode(s) \/ Written(s) PROVE TypeOK'
  <2>1. UNCHANGED <<readQueue, gList, taken, file>>
    BY <1>5 DEF Accept, BadLeadCode, Written, writerVars
  <2>2. QueueTypes'
    BY <1>0, <2>1 DEF QueueTypes
  <2>3. RestTypes'
    BY <1>0, <1>5 DEF Accept, BadLeadCode, Written, RemoveGprs, RestTypes, writerVars
  <2> QED
    BY <1>1, <2>2, <2>3
<1>6. ASSUME NEW s \in Sessions, LoginRefused(s) \/ Delete(s) PROVE TypeOK'
  <2>1. /\ readQueue' = [readQueue EXCEPT ![s] = << >>] /\ UNCHANGED <<gList, taken, file>>
    BY <1>6 DEF LoginRefused, Delete, writerVars
  <2>2. QueueTypes'
    BY <1>0, <2>1 DEF QueueTypes
  <2>3. RestTypes'
    BY <1>0, <1>6 DEF LoginRefused, Delete, Answer, RestTypes, writerVars
  <2> QED
    BY <1>1, <2>2, <2>3
<1>7. ASSUME NEW y \in Systems, TakeList(y) PROVE TypeOK'
  <2>1. index[y] \in Lists /\ (index[y] + 1) % LIST_NUM \in Lists
    BY <1>0, ListFacts DEF RestTypes
  <2>2. gList[y] \in [Lists -> Seq(Frames)]
    BY <1>0 DEF QueueTypes
  <2>3. [gList[y] EXCEPT ![index[y]] = << >>] \in [Lists -> Seq(Frames)]
    BY <2>1, <2>2
  <2>4. QueueTypes'
    BY <1>0, <1>7, <2>1, <2>2, <2>3 DEF TakeList, QueueTypes, sessionVars
  <2>5. RestTypes'
    BY <1>0, <1>7, <2>1 DEF TakeList, RestTypes, sessionVars
  <2> QED
    BY <1>1, <2>4, <2>5
<1>8. ASSUME NEW y \in Systems, NEW k, WriteToLocal(y, k) PROVE TypeOK'
  <2>1. taken[y] \in Seq(Frames) /\ file[y] \in Seq(Frames) /\ k \in 1 .. Len(taken[y])
    BY <1>0, <1>8 DEF QueueTypes, WriteToLocal
  <2>2. /\ SubSeq(taken[y], k + 1, Len(taken[y])) \in Seq(Frames)
        /\ file[y] \o SubSeq(taken[y], 1, k) \in Seq(Frames)
    BY <2>1, SetOfSplit, SetOfConcat
  <2>3. QueueTypes'
    BY <1>0, <1>8, <2>2 DEF WriteToLocal, QueueTypes, sessionVars
  <2>4. RestTypes'
    BY <1>0, <1>8 DEF WriteToLocal, Fault, RestTypes, sessionVars
  <2> QED
    BY <1>1, <2>3, <2>4
<1>9. CASE Kill
  <2>1. 0 \in Lists
    BY CaptureAssumption DEF Lists
  <2>2. << >> \in Seq(Frames)
    OBVIOUS
  <2>3. NoLists \in [Lists -> Seq(Frames)]
    BY <2>2 DEF NoLists
  <2>4. QueueTypes'
    BY <1>0, <1>9, <2>2, <2>3 DEF Kill, QueueTypes
  <2>5. RestTypes'
    BY <1>0, <1>9, <2>1 DEF Kill, Fault, RestTypes
  <2> QED
    BY <1>1, <2>4, <2>5
<1> QED
  BY <1>2, <1>3, <1>4, <1>5, <1>6, <1>7, <1>8, <1>9 DEF Next, Io, Writer

-----------------------------------------------------------------------------
(* No frame is lost.                                                       *)

\* Where the frames of s are, ...
Where(s) ==
    ToSet(file[SystemOf[s]]) \union ToSet(taken[SystemOf[s]])
        \union ToSet(gList[SystemOf[s]][ListOf[AddressOf[s]]])
        \union ToSet(readQueue[s])

\* ... if it logged in or may still do so.
MayLogIn(s) == s \notin cut /\ (isLogin[s] \/ reads[s] # "done")

Kept ==
    faults = 0 => \A s \in Sessions : MayLogIn(s) =>
        \A f \in DOMAIN from : from[f] = s => f \in Where(s)

\* What is deleted with a session: nothing, if it logged in.
Emptied ==
    \A s \in Sessions :
        isLogin[s] /\ s \notin cut /\ reads[s] = "done" => readQueue[s] = << >>

\* A step that receives nothing.
LEMMA KeepsFrames ==
  ASSUME Kept, UNCHANGED from, faults' = 0 => faults = 0,
         \A s \in Sessions : MayLogIn(s)' => MayLogIn(s) /\ Where(s) \subseteq Where(s)'
  PROVE  Kept'
  BY DEF Kept

LEMMA PutKeeps ==
  ASSUME TypeOK, NEW s \in Sessions, NEW q \in Seq(Frames), Put(s, q),
         ToSet(readQueue[s]) \subseteq ToSet(q), UNCHANGED <<taken, file>>
  PROVE  /\ \A t \in Sessions : Where(t) \subseteq Where(t)'
         /\ ToSet(q) \subseteq Where(s)'
<1> DEFINE y == SystemOf[s]
           l == ListOf[AddressOf[s]]
<1>1. y \in Systems /\ l \in Lists
  BY ListFacts
<1>2. /\ gList \in [Systems -> [Lists -> Seq(Frames)]]
      /\ readQueue \in [Sessions -> Seq(Frames)]
  BY TypesOf DEF QueueTypes
<1>3. gList[y][l] \in Seq(Frames)
  BY <1>1, <1>2
<1>4. ToSet(gList[y][l] \o q) = ToSet(gList[y][l]) \union ToSet(q)
  BY <1>3, SetOfConcat
<1>5. /\ gList'[y][l] = gList[y][l] \o q
      /\ \A z \in Systems, i \in Lists : z # y \/ i # l => gList'[z][i] = gList[z][i]
  BY <1>1, <1>2 DEF Put
<1>6. \A t \in Sessions : t # s => readQueue'[t] = readQueue[t]
  BY <1>2 DEF Put
<1>7. ASSUME NEW z \in Systems, NEW i \in Lists
      PROVE  ToSet(gList[z][i]) \subseteq ToSet(gList'[z][i])
  <2>1. CASE z = y /\ i = l
    BY <1>4, <1>5, <2>1
  <2>2. CASE ~ (z = y /\ i = l)
    BY <1>5, <2>2
  <2> QED
    BY <2>1, <2>2
<1>8. ToSet(q) \subseteq ToSet(gList'[y][l])
  BY <1>4, <1>5
<1>9. ToSet(q) \subseteq Where(s)'
  BY <1>8 DEF Where
<1>10. ASSUME NEW t \in Sessions PROVE Where(t) \subseteq Where(t)'
  <2>1. SystemOf[t] \in Systems /\ ListOf[AddressOf[t]] \in Lists
    BY ListFacts
  <2>2. ToSet(gList[SystemOf[t]][ListOf[AddressOf[t]]])
           \subseteq ToSet(gList'[SystemOf[t]][ListOf[AddressOf[t]]])
    BY <1>7, <2>1
  <2>3. ToSet(readQueue[t]) \subseteq Where(t)'
    <3>1. CASE t = s
      BY <1>9, <3>1
    <3>2. CASE t # s
      BY <1>6, <3>2 DEF Where
    <3> QED
      BY <3>1, <3>2
  <2> QED
    BY <2>2, <2>3 DEF Where
<1> QED
  BY <1>9, <1>10

LEMMA PushKeeps ==
  ASSUME TypeOK, Kept, NEW s \in Sessions, NEW attached, Push(s, attached),
         reads[s] = "open", UNCHANGED <<taken, file, faults, reads, cut>>,
         \A t \in Sessions : t # s => isLogin'[t] = isLogin[t]
  PROVE  Kept'
<1> DEFINE n == Len(from) + 1
           q == Append(readQueue[s], n)
<1>1. /\ readQueue \in [Sessions -> Seq(Frames)] /\ from \in Seq(Sessions)
      /\ q \in Seq(Frames)
  BY TypesOf, PushTypes DEF QueueTypes, RestTypes
<1>2. n \in Frames
  BY <1>1, CaptureAssumption DEF Push, Frames
<1>3. ToSet(q) = ToSet(readQueue[s]) \union {n}
  BY <1>1, <1>2, SetOfAppend
<1>4. \/ Put(s, q)
      \/ readQueue' = [readQueue EXCEPT ![s] = q] /\ UNCHANGED gList
  BY DEF Push
<1>5. \A f \in DOMAIN from' : \/ f \in DOMAIN from /\ from'[f] = from[f]
                              \/ f = n /\ from'[f] = s
  BY <1>1 DEF Push
<1> HIDE DEF q, n
<1>6. /\ \A t \in Sessions : Where(t) \subseteq Where(t)'
      /\ n \in Where(s)'
  <2>1. CASE Put(s, q)
    BY <1>1, <1>3, <2>1, PutKeeps
  <2>2. CASE readQueue' = [readQueue EXCEPT ![s] = q] /\ UNCHANGED gList
    <3>1. \A t \in Sessions : ToSet(readQueue[t]) \subseteq ToSet(readQueue'[t])
      BY <1>1, <1>3, <2>2
    <3>2. n \in ToSet(readQueue'[s])
      BY <1>1, <1>3, <2>2
    <3> QED
      BY <2>2, <3>1, <3>2 DEF Where
  <2> QED
    BY <1>4, <2>1, <2>2
<1>7. \A t \in Sessions : MayLogIn(t)' => MayLogIn(t)
  BY DEF MayLogIn
<1> QED
  BY <1>5, <1>6, <1>7 DEF Kept

LEMMA StepKeeps == TypeOK /\ Kept /\ Emptied /\ [Next]_vars => Kept'
<1> SUFFICES ASSUME TypeOK, Kept, Emptied, [Next]_vars PROVE Kept'
  OBVIOUS
<1>0. QueueTypes /\ RestTypes
  BY TypesOf
<1>1. UNCHANGED <<file, taken, gList>> /\ UNCHANGED readQueue
         => \A t \in Sessions : Where(t) \subseteq Where(t)'
  BY DEF Where
<1>2. CASE UNCHANGED vars
  BY <1>2 DEF vars, sessionVars, writerVars, Kept, MayLogIn, Where
<1>3. ASSUME NEW s \in Sessions, ReadFrame(s) \/ Login(s) PROVE Kept'
  <2>1. PICK attached : Push(s, attached)
    BY <1>3 DEF ReadFrame, Login
  <2>2. /\ reads[s] = "open" /\ UNCHANGED <<taken, file, faults, reads, cut>>
        /\ \A t \in Sessions : t # s => isLogin'[t] = isLogin[t]
    BY <1>0, <1>3 DEF ReadFrame, Login, writerVars, RestTypes
  <2> QED
    BY <2>1, <2>2, PushKeeps
<1>4. ASSUME NEW s \in Sessions, ReadError(s) \/ WriteError(s) PROVE Kept'
  <2>1. /\ Put(s, readQueue[s]) \/ UNCHANGED <<readQueue, gList>>
        /\ UNCHANGED <<file, taken, from, faults, cut, isLogin>>
    BY <1>4 DEF ReadError, WriteError, CloseSession, writerVars
  <2>2. \A t \in Sessions : Where(t) \subseteq Where(t)'
    <3>1. CASE Put(s, readQueue[s])
      BY <1>0, <2>1, <3>1, PutKeeps DEF QueueTypes
    <3>2. CASE UNCHANGED <<readQueue, gList>>
      BY <1>1, <2>1, <3>2
    <3> QED
      BY <2>1, <3>1, <3>2
  <2>3. \A t \in Sessions : reads'[t] # "done" => reads[t] # "done"
    BY <1>0, <1>4 DEF ReadError, WriteError, RestTypes
  <2> QED
    BY <2>1, <2>2, <2>3, KeepsFrames DEF MayLogIn
<1>5. ASSUME NEW s \in Sessions, Accept(s) \/ BadLeadCode(s) \/ Written(s) PROVE Kept'
  <2>1. UNCHANGED <<readQueue, gList, taken, file, from, faults, isLogin>>
    BY <1>5 DEF Accept, BadLeadCode, Written, writerVars
  <2>2. cut \subseteq cut' /\ \A t \in Sessions : reads'[t] # "done" => reads[t] # "done"
    BY <1>0, <1>5 DEF Accept, BadLeadCode, Written, RestTypes
  <2> QED
    BY <1>1, <2>1, <2>2, KeepsFrames DEF MayLogIn
<1>6. ASSUME NEW s \in Sessions, LoginRefused(s) \/ Delete(s) PROVE Kept'
  <2>1. /\ readQueue' = [readQueue EXCEPT ![s] = << >>]
        /\ UNCHANGED <<gList, taken, file, from, faults, isLogin, cut>>
    BY <1>6 DEF LoginRefused, Delete, writerVars
  <2>2. reads'[s] = "done" /\ \A t \in Sessions : t # s => reads'[t] = reads[t]
    BY <1>0, <1>6 DEF LoginRefused, Delete, RestTypes
  <2>3. ~ MayLogIn(s)'
    <3>1. CASE LoginRefused(s)
      BY <2>1, <2>2, <3>1 DEF LoginRefused, MayLogIn
    <3>2. CASE Delete(s)
      BY <2>1, <2>2, <3>2 DEF Delete, MayLogIn, Emptied
    <3> QED
      BY <1>6, <3>1, <3>2
  <2>4. \A t \in Sessions : t # s => Where(t) \subseteq Where(t)'
    BY <1>0, <2>1 DEF Where, QueueTypes
  <2>5. \A t \in Sessions : MayLogIn(t)' => MayLogIn(t) /\ Where(t) \subseteq Where(t)'
    BY <2>1, <2>2, <2>3, <2>4 DEF MayLogIn
  <2> QED
    BY <2>1, <2>5, KeepsFrames
<1>7. ASSUME NEW y \in Systems, TakeList(y) PROVE Kept'
  <2>1. /\ UNCHANGED <<reads, isLogin, readQueue, file, from, faults, cut>>
        /\ taken' = [taken EXCEPT ![y] = gList[y][index[y]]]
        /\ gList' = [gList EXCEPT ![y][index[y]] = << >>]
        /\ taken[y] = << >>
    BY <1>7 DEF TakeList, sessionVars
  <2>2. ASSUME NEW t \in Sessions PROVE Where(t) \subseteq Where(t)'
    <3> DEFINE z == SystemOf[t]
               l == ListOf[AddressOf[t]]
    <3>1. z \in Systems /\ l \in Lists
      BY ListFacts
    <3> HIDE DEF z, l
    <3>2. gList[z] \in [Lists -> Seq(Frames)]
      BY <1>0, <3>1 DEF QueueTypes
    <3>3. /\ z = y => taken'[z] = gList[y][index[y]] /\ ToSet(taken[z]) = {}
          /\ z # y => taken'[z] = taken[z]
      BY <1>0, <2>1, <3>1, SetOfEmpty DEF QueueTypes
    <3>4. gList'[z][l] = gList[z][l] \/ (z = y /\ l = index[y])
      BY <1>0, <2>1, <3>1, <3>2 DEF QueueTypes
    <3>5. ToSet(taken[z]) \union ToSet(gList[z][l])
             \subseteq ToSet(taken'[z]) \union ToSet(gList'[z][l])
      BY <3>3, <3>4
    <3> QED
      BY <2>1, <3>5 DEF Where, z, l
  <2> QED
    BY <2>1, <2>2, KeepsFrames DEF MayLogIn
<1>8. ASSUME NEW y \in Systems, NEW k, WriteToLocal(y, k) PROVE Kept'
  <2>1. /\ taken' = [taken EXCEPT ![y] = SubSeq(taken[y], k + 1, Len(taken[y]))]
        /\ UNCHANGED <<reads, isLogin, readQueue, gList, from, cut>>
        /\ k \in 1 .. Len(taken[y])
    BY <1>8 DEF WriteToLocal, sessionVars
  <2>2. CASE Fault
    BY <1>0, <2>2 DEF Fault, RestTypes, Kept
  <2>3. CASE file' = [file EXCEPT ![y] = file[y] \o SubSeq(taken[y], 1, k)] /\ UNCHANGED faults
    <3>1. taken[y] \in Seq(Frames) /\ file[y] \in Seq(Frames)
      BY <1>0 DEF QueueTypes
    <3>2. /\ SubSeq(taken[y], 1, k) \in Seq(Frames)
          /\ ToSet(taken[y]) = ToSet(SubSeq(taken[y], 1, k))
                                  \union ToSet(SubSeq(taken[y], k + 1, Len(taken[y])))
      BY <2>1, <3>1, SetOfSplit
    <3>3. ToSet(file[y] \o SubSeq(taken[y], 1, k))
             = ToSet(file[y]) \union ToSet(SubSeq(taken[y], 1, k))
      <4> DEFINE written == SubSeq(taken[y], 1, k)
                 before == file[y]
      <4>1. written \in Seq(Frames) /\ before \in Seq(Frames)
        BY <3>1, <3>2
      <4> HIDE DEF written, before
      <4>2. ToSet(before \o written) = ToSet(before) \union ToSet(written)
        BY <4>1, SetOfConcat
      <4> QED
        BY <4>2 DEF written, before
    <3>4. /\ file'[y] = file[y] \o SubSeq(taken[y], 1, k)
          /\ taken'[y] = SubSeq(taken[y], k + 1, Len(taken[y]))
          /\ \A z \in Systems : z # y => file'[z] = file[z] /\ taken'[z] = taken[z]
      BY <1>0, <2>1, <2>3 DEF QueueTypes
    <3>5. ToSet(file[y]) \union ToSet(taken[y]) \subseteq ToSet(file'[y]) \union ToSet(taken'[y])
      BY <3>2, <3>3, <3>4
    <3>6. \A z \in Systems : ToSet(file[z]) \union ToSet(taken[z])
                                \subseteq ToSet(file'[z]) \union ToSet(taken'[z])
      BY <3>4, <3>5
    <3>7. \A t \in Sessions : Where(t) \subseteq Where(t)'
      BY <2>1, <3>6, ListFacts DEF Where
    <3> QED
      BY <2>1, <2>3, <3>7, KeepsFrames DEF MayLogIn
  <2> QED
    BY <1>8, <2>2, <2>3 DEF WriteToLocal
<1>9. CASE Kill
  BY <1>0, <1>9 DEF Kill, Fault, RestTypes, Kept
<1> QED
  BY <1>2, <1>3, <1>4, <1>5, <1>6, <1>7, <1>8, <1>9 DEF Next, Io, Writer

LEMMA StepEmpties == TypeOK /\ Emptied /\ [Next]_vars => Emptied'
<1> SUFFICES ASSUME QueueTypes, RestTypes, Emptied, [Next]_vars,
                    NEW t \in Sessions, isLogin'[t], t \notin cut', reads'[t] = "done"
             PROVE  readQueue'[t] = << >>
  BY TypesOf DEF Emptied
<1> USE DEF QueueTypes, RestTypes, Emptied
<1>1. CASE UNCHANGED vars
  BY <1>1 DEF vars, sessionVars
<1>2. ASSUME NEW s \in Sessions, ReadFrame(s) \/ Login(s) PROVE readQueue'[t] = << >>
  <2>1. reads'[s] = "open" /\ UNCHANGED <<reads, cut>>
    BY <1>2 DEF ReadFrame, Login
  <2>2. t # s
    BY <2>1
  <2>3. readQueue'[t] = readQueue[t] /\ isLogin'[t] = isLogin[t]
    BY <1>2, <2>2 DEF ReadFrame, Login, Push, Put
  <2> QED
    BY <2>1, <2>3
<1>3. ASSUME NEW s \in Sessions, ReadError(s) \/ WriteError(s) PROVE readQueue'[t] = << >>
  <2>1. CloseSession(s) /\ \A z \in Sessions : z # s => reads'[z] = reads[z]
    BY <1>3 DEF ReadError, WriteError
  <2>2. UNCHANGED <<isLogin, cut>>
    BY <2>1 DEF CloseSession
  <2>3. CASE t = s
    BY <2>1, <2>2, <2>3 DEF CloseSession, Put
  <2>4. CASE t # s
    BY <2>1, <2>2, <2>4 DEF CloseSession, Put
  <2> QED
    BY <2>3, <2>4
<1>4. ASSUME NEW s \in Sessions, Accept(s) \/ BadLeadCode(s) \/ Written(s)
      PROVE  readQueue'[t] = << >>
  BY <1>4 DEF Accept, BadLeadCode, Written
<1>5. ASSUME NEW s \in Sessions, LoginRefused(s) \/ Delete(s) PROVE readQueue'[t] = << >>
  BY <1>5 DEF LoginRefused, Delete
<1>6. ASSUME NEW y \in Systems, TakeList(y) PROVE readQueue'[t] = << >>
  BY <1>6 DEF TakeList, sessionVars
<1>7. ASSUME NEW y \in Systems, NEW k, WriteToLocal(y, k) PROVE readQueue'[t] = << >>
  BY <1>7 DEF WriteToLocal, sessionVars
<1>8. CASE Kill
  BY <1>8 DEF Kill
<1> QED
  BY <1>1, <1>2, <1>3, <1>4, <1>5, <1>6, <1>7, <1>8 DEF Next, Io, Writer

LEMMA KeptIsEnough == TypeOK /\ Kept => NothingLost
<1> SUFFICES ASSUME QueueTypes, Kept, faults = 0, NEW s \in Sessions, isLogin[s], s \notin cut,
                    NEW f \in DOMAIN from, from[f] = s
             PROVE  f \in ToSet(file[SystemOf[s]]) \union ToSet(Unwritten(s))
  BY TypesOf DEF NothingLost
<1> DEFINE t == taken[SystemOf[s]]
           g == gList[SystemOf[s]][ListOf[AddressOf[s]]]
           r == readQueue[s]
<1>1. t \in Seq(Frames) /\ g \in Seq(Frames) /\ r \in Seq(Frames)
  BY ListFacts DEF QueueTypes
<1>2. Unwritten(s) = (t \o g) \o r
  BY DEF Unwritten
<1>3. f \in ToSet(file[SystemOf[s]]) \union ToSet(t) \union ToSet(g) \union ToSet(r)
  BY DEF Kept, MayLogIn, Where
<1> HIDE DEF t, g, r
<1>4. t \o g \in Seq(Frames) /\ ToSet(t \o g) = ToSet(t) \union ToSet(g)
  BY <1>1, SetOfConcat
<1> DEFINE u == t \o g
<1>5. u \in Seq(Frames)
  BY <1>4
<1> HIDE DEF u
<1>6. ToSet(u \o r) = ToSet(u) \union ToSet(r)
  BY <1>1, <1>5, SetOfConcat
<1>7. ToSet((t \o g) \o r) = ToSet(t \o g) \union ToSet(r)
  BY <1>6 DEF u
<1> QED
  BY <1>2, <1>3, <1>4, <1>7

-----------------------------------------------------------------------------
(* The theorems.                                                           *)

\* Every variable keeps its type: the writer's index stays inside the lists.
THEOREM CaptureTypeCorrect == Spec => []TypeOK
  BY InitTypes, NextTypes, PTL DEF Spec

\* Every frame of a connection that logged in is on disk, in the writer's hand, in
\* the global list or in the session's queue, however the connection ends, unless
\* it ends on a wrong lead code.
THEOREM NoFrameLost == Spec => []NothingLost
<1>1. Init => Kept /\ Emptied
  BY DEF Init, Kept, Emptied
<1> QED
  BY CaptureTypeCorrect, StepKeeps, StepEmpties, KeptIsEnough, <1>1, PTL DEF Spec

-----------------------------------------------------------------------------
(* The order of the frames of a connection.                                *)

\* With fr the connection of each frame: the frames of a connection are in the order
\* they were received in a queue, and from a queue to the next.
InOrderOf(fr, q) == \A i, j \in DOMAIN q : i < j /\ fr[q[i]] = fr[q[j]] => q[i] < q[j]
AheadOf(fr, A, B) == \A f \in A, g \in B : fr[f] = fr[g] => f < g

LEMMA OrderOfConcat ==
  ASSUME NEW fr, NEW p \in Seq(Frames), NEW q \in Seq(Frames),
         InOrderOf(fr, p), InOrderOf(fr, q), AheadOf(fr, ToSet(p), ToSet(q))
  PROVE  InOrderOf(fr, p \o q)
<1>1. /\ Len(p) \in Nat /\ Len(q) \in Nat
      /\ DOMAIN p = 1 .. Len(p) /\ DOMAIN q = 1 .. Len(q)
      /\ DOMAIN (p \o q) = 1 .. (Len(p) + Len(q))
  OBVIOUS
<1>2. \A i \in 1 .. Len(p) + Len(q) :
         (p \o q)[i] = IF i <= Len(p) THEN p[i] ELSE q[i - Len(p)]
  OBVIOUS
<1> SUFFICES ASSUME NEW i \in 1 .. Len(p) + Len(q), NEW j \in 1 .. Len(p) + Len(q),
                    i < j, fr[(p \o q)[i]] = fr[(p \o q)[j]]
             PROVE  (p \o q)[i] < (p \o q)[j]
  BY <1>1 DEF InOrderOf
<1>3. CASE j <= Len(p)
  <2>1. i \in 1 .. Len(p) /\ j \in 1 .. Len(p)
    BY <1>1, <1>3
  <2> QED
    BY <1>1, <1>2, <1>3, <2>1 DEF InOrderOf
<1>4. CASE i <= Len(p) /\ ~ (j <= Len(p))
  <2>1. i \in 1 .. Len(p) /\ j - Len(p) \in 1 .. Len(q)
    BY <1>1, <1>4
  <2>2. (p \o q)[i] \in ToSet(p) /\ (p \o q)[j] \in ToSet(q)
    BY <1>1, <1>2, <1>4, <2>1 DEF ToSet
  <2> QED
    BY <2>2 DEF AheadOf
<1>5. CASE ~ (i <= Len(p))
  <2>1. i - Len(p) \in 1 .. Len(q) /\ j - Len(p) \in 1 .. Len(q) /\ i - Len(p) < j - Len(p)
    BY <1>1, <1>5
  <2> QED
    BY <1>1, <1>2, <1>5, <2>1 DEF InOrderOf
<1> QED
  BY <1>1, <1>3, <1>4, <1>5

LEMMA OrderOfSplit ==
  ASSUME NEW fr, NEW p \in Seq(Frames), NEW k \in 1 .. Len(p), InOrderOf(fr, p)
  PROVE  /\ InOrderOf(fr, SubSeq(p, 1, k)) /\ InOrderOf(fr, SubSeq(p, k + 1, Len(p)))
         /\ AheadOf(fr, ToSet(SubSeq(p, 1, k)), ToSet(SubSeq(p, k + 1, Len(p))))
<1> DEFINE b == SubSeq(p, 1, k)
           r == SubSeq(p, k + 1, Len(p))
<1>1. /\ Len(p) \in Nat /\ k \in Nat /\ DOMAIN p = 1 .. Len(p)
      /\ DOMAIN b = 1 .. k /\ DOMAIN r = 1 .. Len(p) - k
      /\ \A i \in 1 .. k : b[i] = p[i] /\ i \in 1 .. Len(p)
      /\ \A i \in 1 .. Len(p) - k : r[i] = p[i + k] /\ i + k \in 1 .. Len(p)
  OBVIOUS
<1> HIDE DEF b, r
<1>2. InOrderOf(fr, b)
  BY <1>1 DEF InOrderOf
<1>3. InOrderOf(fr, r)
  <2> SUFFICES ASSUME NEW i \in 1 .. Len(p) - k, NEW j \in 1 .. Len(p) - k,
                      i < j, fr[r[i]] = fr[r[j]]
               PROVE  r[i] < r[j]
    BY <1>1 DEF InOrderOf
  <2>1. i + k < j + k /\ i + k \in DOMAIN p /\ j + k \in DOMAIN p
    BY <1>1
  <2>2. r[i] = p[i + k] /\ r[j] = p[j + k]
    BY <1>1
  <2> QED
    BY <2>1, <2>2 DEF InOrderOf
<1>4. AheadOf(fr, ToSet(b), ToSet(r))
  <2> SUFFICES ASSUME NEW i \in 1 .. k, NEW j \in 1 .. Len(p) - k, fr[b[i]] = fr[r[j]]
               PROVE  b[i] < r[j]
    BY <1>1 DEF AheadOf, ToSet
  <2>1. i < j + k /\ i \in DOMAIN p /\ j + k \in DOMAIN p
    BY <1>1
  <2>2. b[i] = p[i] /\ r[j] = p[j + k]
    BY <1>1
  <2> QED
    BY <2>1, <2>2 DEF InOrderOf
<1> QED
  BY <1>2, <1>3, <1>4 DEF b, r

\* The queues r of the sessions, the global lists g and the frames t in hand: where
\* the frames of a connection may be, and that they are in order from end to end.
QueuesOf(r, g, t) ==
    /\ r \in [Sessions -> Seq(Frames)] /\ g \in [Systems -> [Lists -> Seq(Frames)]]
    /\ t \in [Systems -> Seq(Frames)]
InPlace(fr, r, g, t) ==
    /\ \A s \in Sessions : \A f \in ToSet(r[s]) : f \in DOMAIN fr /\ fr[f] = s
    /\ \A y \in Systems, i \in Lists : \A f \in ToSet(g[y][i]) :
          f \in DOMAIN fr /\ SystemOf[fr[f]] = y /\ ListOf[AddressOf[fr[f]]] = i
    /\ \A y \in Systems : \A f \in ToSet(t[y]) : f \in DOMAIN fr /\ SystemOf[fr[f]] = y
InTurn(fr, r, g, t) ==
    /\ \A s \in Sessions : InOrderOf(fr, r[s])
    /\ \A y \in Systems, i \in Lists : InOrderOf(fr, g[y][i])
    /\ \A y \in Systems : InOrderOf(fr, t[y])
    /\ \A y \in Systems, i \in Lists, s \in Sessions : AheadOf(fr, ToSet(g[y][i]), ToSet(r[s]))
    /\ \A y \in Systems, s \in Sessions : AheadOf(fr, ToSet(t[y]), ToSet(r[s]))
    /\ \A y \in Systems, i \in Lists : AheadOf(fr, ToSet(t[y]), ToSet(g[y][i]))

Lined(fr, r, g, t) == QueuesOf(r, g, t) /\ InPlace(fr, r, g, t) /\ InTurn(fr, r, g, t)

\* What happens to the queues: a frame n of session s is received, its queue is
\* spliced to the end of list l of system y, the writer of y takes list l, the queue
\* of s is cleared, the first k frames leave the hand of the writer of y.
Received(fr, s, n, r, r2) ==
    /\ fr \in Seq(Sessions) /\ n \in Frames /\ n = Len(fr) + 1
    /\ r2 \in [Sessions -> Seq(Frames)] /\ r2[s] = Append(r[s], n)
    /\ \A z \in Sessions : z # s => r2[z] = r[z]
Spliced(s, y, l, r, g, r2, g2) ==
    /\ y \in Systems /\ l \in Lists /\ y = SystemOf[s] /\ l = ListOf[AddressOf[s]]
    /\ r2 \in [Sessions -> Seq(Frames)] /\ r2[s] = << >>
    /\ \A z \in Sessions : z # s => r2[z] = r[z]
    /\ g2 \in [Systems -> [Lists -> Seq(Frames)]] /\ g2[y][l] = g[y][l] \o r[s]
    /\ \A z \in Systems, i \in Lists : z # y \/ i # l => g2[z][i] = g[z][i]
TookList(y, l, g, t, g2, t2) ==
    /\ l \in Lists /\ t[y] = << >>
    /\ g2 \in [Systems -> [Lists -> Seq(Frames)]] /\ g2[y][l] = << >>
    /\ \A z \in Systems, i \in Lists : z # y \/ i # l => g2[z][i] = g[z][i]
    /\ t2 \in [Systems -> Seq(Frames)] /\ t2[y] = g[y][l]
    /\ \A z \in Systems : z # y => t2[z] = t[z]
Cleared(s, r, r2) ==
    /\ r2 \in [Sessions -> Seq(Frames)] /\ r2[s] = << >>
    /\ \A z \in Sessions : z # s => r2[z] = r[z]
WroteFirst(y, k, now, t, t2) ==
    /\ k \in 1 .. Len(t[y]) /\ now = ToSet(SubSeq(t[y], 1, k))
    /\ t2 \in [Systems -> Seq(Frames)] /\ t2[y] = SubSeq(t[y], k + 1, Len(t[y]))
    /\ \A z \in Systems : z # y => t2[z] = t[z]

LEMMA EmptyIsLined ==
  ASSUME NEW fr
  PROVE  /\ InOrderOf(fr, << >>) /\ ToSet(<< >>) = {}
         /\ \A A : AheadOf(fr, {}, A) /\ AheadOf(fr, A, {})
  BY SetOfEmpty DEF InOrderOf, AheadOf

LEMMA AheadOfParts ==
  ASSUME NEW fr, NEW A, NEW B, AheadOf(fr, A, B), NEW P \in SUBSET A, NEW Q \in SUBSET B
  PROVE  AheadOf(fr, P, Q)
  BY DEF AheadOf

LEMMA AheadOfUnion ==
  ASSUME NEW fr, NEW A, NEW B, NEW C
  PROVE  /\ AheadOf(fr, A, C) /\ AheadOf(fr, B, C) => AheadOf(fr, A \union B, C)
         /\ AheadOf(fr, C, A) /\ AheadOf(fr, C, B) => AheadOf(fr, C, A \union B)
  BY DEF AheadOf

LEMMA AheadOfApart ==
  ASSUME NEW fr, NEW A, NEW B, \A f \in A, g \in B : fr[f] # fr[g]
  PROVE  AheadOf(fr, A, B)
  BY DEF AheadOf

LEMMA ReceivesLined ==
  ASSUME NEW fr, NEW r, NEW g, NEW t, Lined(fr, r, g, t),
         NEW s \in Sessions, NEW n, NEW r2, Received(fr, s, n, r, r2)
  PROVE  Lined(Append(fr, s), r2, g, t)
<1> USE DEF Received
<1> DEFINE fr2 == Append(fr, s)
<1>1. /\ Len(fr) \in Nat /\ DOMAIN fr = 1 .. Len(fr) /\ DOMAIN fr2 = 1 .. n
      /\ fr2[n] = s /\ n \in DOMAIN fr2
      /\ \A f \in DOMAIN fr : fr2[f] = fr[f] /\ f \in DOMAIN fr2 /\ f < n
  OBVIOUS
<1> HIDE DEF fr2
<1>0. QueuesOf(r, g, t) /\ InPlace(fr, r, g, t) /\ InTurn(fr, r, g, t)
  BY DEF Lined
<1>2. r[s] \in Seq(Frames)
  BY <1>0 DEF QueuesOf
<1>3. ToSet(r2[s]) = ToSet(r[s]) \union {n} /\ r2[s] = r[s] \o <<n>>
  BY <1>2, SetOfAppend, AppendIsConcat
<1>4. QueuesOf(r2, g, t)
  BY <1>0 DEF QueuesOf
<1>5. InPlace(fr2, r2, g, t)
  <2>1. ASSUME NEW z \in Sessions, NEW f \in ToSet(r2[z])
        PROVE  f \in DOMAIN fr2 /\ fr2[f] = z
    <3>1. CASE z = s /\ f = n
      BY <1>1, <3>1
    <3>2. CASE ~ (z = s /\ f = n)
      <4>1. f \in ToSet(r[z])
        BY <1>3, <3>2
      <4> QED
        BY <1>0, <1>1, <4>1 DEF InPlace
    <3> QED
      BY <3>1, <3>2
  <2>2. /\ \A y \in Systems, i \in Lists : \A f \in ToSet(g[y][i]) :
              f \in DOMAIN fr2 /\ SystemOf[fr2[f]] = y /\ ListOf[AddressOf[fr2[f]]] = i
        /\ \A y \in Systems : \A f \in ToSet(t[y]) : f \in DOMAIN fr2 /\ SystemOf[fr2[f]] = y
    BY <1>0, <1>1 DEF InPlace
  <2> QED
    BY <2>1, <2>2 DEF InPlace
<1>6. /\ \A z \in Sessions : InOrderOf(fr2, r[z])
      /\ \A y \in Systems, i \in Lists : InOrderOf(fr2, g[y][i])
      /\ \A y \in Systems : InOrderOf(fr2, t[y])
  BY <1>0, <1>1 DEF InPlace, InTurn, InOrderOf, ToSet
<1>7. \A z \in Sessions : InOrderOf(fr2, r2[z])
  <2>1. <<n>> \in Seq(Frames) /\ InOrderOf(fr2, <<n>>) /\ ToSet(<<n>>) = {n}
    BY DEF InOrderOf, ToSet
  <2>2. AheadOf(fr2, ToSet(r[s]), {n})
    BY <1>0, <1>1 DEF InPlace, AheadOf
  <2>3. InOrderOf(fr2, r2[s])
    BY <1>2, <1>3, <1>6, <2>1, <2>2, OrderOfConcat
  <2> QED
    BY <1>6, <2>3
<1>8. ASSUME NEW A, \A f \in A : f \in DOMAIN fr, NEW z \in Sessions,
             AheadOf(fr, A, ToSet(r[z]))
      PROVE  AheadOf(fr2, A, ToSet(r2[z]))
  <2>1. \A f \in ToSet(r[z]) : f \in DOMAIN fr
    BY <1>0 DEF InPlace
  <2>2. AheadOf(fr2, A, ToSet(r[z]))
    BY <1>1, <1>8, <2>1 DEF AheadOf
  <2>3. CASE z # s
    BY <2>2, <2>3
  <2>4. CASE z = s
    <3>1. AheadOf(fr2, A, {n})
      BY <1>1, <1>8 DEF AheadOf
    <3>2. AheadOf(fr2, A, ToSet(r[s]) \union {n})
      BY <2>2, <2>4, <3>1, AheadOfUnion
    <3> QED
      BY <1>3, <2>4, <3>2
  <2> QED
    BY <2>3, <2>4
<1>9. /\ \A y \in Systems, i \in Lists, z \in Sessions : AheadOf(fr2, ToSet(g[y][i]), ToSet(r2[z]))
      /\ \A y \in Systems, z \in Sessions : AheadOf(fr2, ToSet(t[y]), ToSet(r2[z]))
  <2>1. ASSUME NEW y \in Systems, NEW z \in Sessions
        PROVE  AheadOf(fr2, ToSet(t[y]), ToSet(r2[z]))
    BY <1>0, <1>8 DEF InPlace, InTurn
  <2>2. ASSUME NEW y \in Systems, NEW i \in Lists, NEW z \in Sessions
        PROVE  AheadOf(fr2, ToSet(g[y][i]), ToSet(r2[z]))
    BY <1>0, <1>8 DEF InPlace, InTurn
  <2> QED
    BY <2>1, <2>2
<1>10. \A y \in Systems, i \in Lists : AheadOf(fr2, ToSet(t[y]), ToSet(g[y][i]))
  BY <1>0, <1>1 DEF InPlace, InTurn, AheadOf
<1>11. InTurn(fr2, r2, g, t)
  BY <1>6, <1>7, <1>9, <1>10 DEF InTurn
<1> QED
  BY <1>4, <1>5, <1>11 DEF Lined, fr2

LEMMA SplicesLined ==
  ASSUME NEW fr, NEW r, NEW g, NEW t, Lined(fr, r, g, t), NEW s \in Sessions,
         NEW y, NEW l, NEW r2, NEW g2, Spliced(s, y, l, r, g, r2, g2)
  PROVE  Lined(fr, r2, g2, t)
<1> USE DEF Spliced
<1>0. QueuesOf(r, g, t) /\ InPlace(fr, r, g, t) /\ InTurn(fr, r, g, t)
  BY DEF Lined
<1>1. r[s] \in Seq(Frames) /\ g[y][l] \in Seq(Frames)
  BY <1>0 DEF QueuesOf
<1>a. g2[y][l] = g[y][l] \o r[s] /\ y \in Systems /\ l \in Lists
  OBVIOUS
<1>2. ToSet(g2[y][l]) = ToSet(g[y][l]) \union ToSet(r[s])
  <2> HIDE DEF Spliced
  <2> QED
    BY <1>a, <1>1, SetOfConcat
<1>3. InOrderOf(fr, g2[y][l])
  <2> HIDE DEF Spliced
  <2>1. /\ InOrderOf(fr, g[y][l]) /\ InOrderOf(fr, r[s])
        /\ AheadOf(fr, ToSet(g[y][l]), ToSet(r[s]))
    BY <1>0, <1>a DEF InTurn
  <2>2. InOrderOf(fr, g[y][l] \o r[s])
    BY <1>1, <2>1, OrderOfConcat
  <2> QED
    BY <1>a, <2>2
<1>4. /\ \A z \in Sessions : r2[z] = r[z] \/ r2[z] = << >>
      /\ \A z \in Sessions : ToSet(r2[z]) \subseteq ToSet(r[z])
      /\ \A z \in Sessions : InOrderOf(fr, r2[z])
  BY <1>0, EmptyIsLined DEF InTurn
<1>5. QueuesOf(r2, g2, t)
  BY <1>0 DEF QueuesOf
<1>6. InPlace(fr, r2, g2, t)
  <2>1. ASSUME NEW z \in Systems, NEW i \in Lists, NEW f \in ToSet(g2[z][i])
        PROVE  f \in DOMAIN fr /\ SystemOf[fr[f]] = z /\ ListOf[AddressOf[fr[f]]] = i
    <3>1. CASE f \in ToSet(g[z][i])
      <4> HIDE DEF Spliced
      <4> QED
        BY <1>0, <3>1 DEF InPlace
    <3>2. CASE f \notin ToSet(g[z][i])
      <4>1. z = y /\ i = l
        <5>1. g2[z][i] # g[z][i]
          <6> HIDE DEF Spliced
          <6> QED
            BY <2>1, <3>2
        <5> QED
          BY <5>1
      <4>2. f \in ToSet(r[s])
        BY <1>2, <3>2, <4>1
      <4>3. f \in DOMAIN fr /\ fr[f] = s
        BY <1>0, <4>2 DEF InPlace
      <4> QED
        BY <4>1, <4>3
    <3> QED
      BY <3>1, <3>2
  <2> QED
    BY <1>0, <1>4, <2>1 DEF InPlace
<1>7. ASSUME NEW z \in Systems, NEW i \in Lists, NEW x \in Sessions
      PROVE  AheadOf(fr, ToSet(g2[z][i]), ToSet(r2[x]))
  <2>1. AheadOf(fr, ToSet(g[z][i]), ToSet(r2[x]))
    BY <1>0, <1>4, AheadOfParts DEF InTurn
  <2>2. AheadOf(fr, ToSet(r[s]), ToSet(r2[x]))
    <3>1. CASE x = s
      BY <3>1, EmptyIsLined
    <3>2. CASE x # s
      <4>1. \A f \in ToSet(r[s]), h \in ToSet(r2[x]) : fr[f] # fr[h]
        <5> HIDE DEF Spliced
        <5>1. ToSet(r2[x]) \subseteq ToSet(r[x])
          BY <1>4
        <5>2. /\ \A f \in ToSet(r[s]) : fr[f] = s
              /\ \A h \in ToSet(r[x]) : fr[h] = x
          BY <1>0 DEF InPlace
        <5> QED
          BY <3>2, <5>1, <5>2
      <4> QED
        BY <4>1, AheadOfApart
    <3> QED
      BY <3>1, <3>2
  <2>3. g2[z][i] = g[z][i] \/ ToSet(g2[z][i]) = ToSet(g[z][i]) \union ToSet(r[s])
    BY <1>2
  <2>4. AheadOf(fr, ToSet(g[z][i]) \union ToSet(r[s]), ToSet(r2[x]))
    BY <2>1, <2>2, AheadOfUnion
  <2> QED
    BY <2>1, <2>3, <2>4
<1>8. ASSUME NEW z \in Systems, NEW x \in Sessions
      PROVE  AheadOf(fr, ToSet(t[z]), ToSet(r2[x]))
  BY <1>0, <1>4, AheadOfParts DEF InTurn
<1>9. ASSUME NEW z \in Systems, NEW i \in Lists
      PROVE  AheadOf(fr, ToSet(t[z]), ToSet(g2[z][i]))
  <2>1. AheadOf(fr, ToSet(t[z]), ToSet(g[z][i])) /\ AheadOf(fr, ToSet(t[z]), ToSet(r[s]))
    BY <1>0 DEF InTurn
  <2>2. g2[z][i] = g[z][i] \/ ToSet(g2[z][i]) = ToSet(g[z][i]) \union ToSet(r[s])
    BY <1>2
  <2>3. AheadOf(fr, ToSet(t[z]), ToSet(g[z][i]) \union ToSet(r[s]))
    BY <2>1, AheadOfUnion
  <2> QED
    BY <2>1, <2>2, <2>3
<1>10. \A z \in Systems, i \in Lists : InOrderOf(fr, g2[z][i])
  BY <1>0, <1>3 DEF InTurn
<1>11. InTurn(fr, r2, g2, t)
  BY <1>0, <1>4, <1>7, <1>8, <1>9, <1>10 DEF InTurn
<1> QED
  BY <1>5, <1>6, <1>11 DEF Lined

LEMMA TakesLined ==
  ASSUME NEW fr, NEW r, NEW g, NEW t, Lined(fr, r, g, t), NEW y \in Systems,
         NEW l, NEW g2, NEW t2, TookList(y, l, g, t, g2, t2)
  PROVE  Lined(fr, r, g2, t2)
<1> USE DEF TookList
<1>0. QueuesOf(r, g, t) /\ InPlace(fr, r, g, t) /\ InTurn(fr, r, g, t)
  BY DEF Lined
<1>1. \A z \in Systems, i \in Lists : g2[z][i] = g[z][i] \/ g2[z][i] = << >>
  OBVIOUS
<1>2. /\ \A z \in Systems, i \in Lists : ToSet(g2[z][i]) \subseteq ToSet(g[z][i])
      /\ \A z \in Systems, i \in Lists : InOrderOf(fr, g2[z][i])
  BY <1>0, <1>1, EmptyIsLined DEF InTurn
<1>3. QueuesOf(r, g2, t2)
  BY <1>0 DEF QueuesOf
<1>4. InPlace(fr, r, g2, t2)
  <2>1. ASSUME NEW z \in Systems, NEW f \in ToSet(t2[z])
        PROVE  f \in DOMAIN fr /\ SystemOf[fr[f]] = z
    <3>1. CASE z = y
      BY <1>0, <2>1, <3>1 DEF InPlace
    <3>2. CASE z # y
      BY <1>0, <2>1, <3>2 DEF InPlace
    <3> QED
      BY <3>1, <3>2
  <2>2. ASSUME NEW z \in Systems, NEW i \in Lists, NEW f \in ToSet(g2[z][i])
        PROVE  f \in DOMAIN fr /\ SystemOf[fr[f]] = z /\ ListOf[AddressOf[fr[f]]] = i
    <3>1. f \in ToSet(g[z][i])
      BY <1>2
    <3> QED
      BY <1>0, <3>1 DEF InPlace
  <2> QED
    BY <1>0, <2>1, <2>2 DEF InPlace
<1>5. \A z \in Systems : InOrderOf(fr, t2[z])
  BY <1>0 DEF InTurn
<1>6. ASSUME NEW z \in Systems, NEW i \in Lists, NEW x \in Sessions
      PROVE  AheadOf(fr, ToSet(g2[z][i]), ToSet(r[x]))
  BY <1>0, <1>2, AheadOfParts DEF InTurn
<1>7. ASSUME NEW z \in Systems, NEW x \in Sessions
      PROVE  AheadOf(fr, ToSet(t2[z]), ToSet(r[x]))
  <2>1. AheadOf(fr, ToSet(t[z]), ToSet(r[x])) /\ AheadOf(fr, ToSet(g[y][l]), ToSet(r[x]))
    BY <1>0 DEF InTurn
  <2> QED
    BY <2>1
<1>8. ASSUME NEW z \in Systems, NEW i \in Lists
      PROVE  AheadOf(fr, ToSet(t2[z]), ToSet(g2[z][i]))
  <2>1. CASE z # y
    <3>1. AheadOf(fr, ToSet(t[z]), ToSet(g[z][i]))
      BY <1>0 DEF InTurn
    <3> QED
      BY <1>2, <2>1, <3>1, AheadOfParts
  <2>2. CASE z = y /\ i = l
    BY <2>2, EmptyIsLined
  <2>3. CASE z = y /\ i # l
    <3>1. ASSUME NEW f \in ToSet(g[y][l]), NEW h \in ToSet(g[y][i])
          PROVE  fr[f] # fr[h]
      <4>1. ListOf[AddressOf[fr[f]]] = l /\ ListOf[AddressOf[fr[h]]] = i
        BY <1>0 DEF InPlace
      <4> QED
        BY <2>3, <4>1
    <3>2. AheadOf(fr, ToSet(g[y][l]), ToSet(g[y][i]))
      BY <3>1, AheadOfApart
    <3> QED
      BY <2>3, <3>2
  <2> QED
    BY <2>1, <2>2, <2>3
<1>9. InTurn(fr, r, g2, t2)
  BY <1>0, <1>2, <1>5, <1>6, <1>7, <1>8 DEF InTurn
<1> QED
  BY <1>3, <1>4, <1>9 DEF Lined

\* The queue of a session is cleared, or the first frames in hand leave it.
LEMMA LosesLined ==
  ASSUME NEW fr, NEW r, NEW g, NEW t, Lined(fr, r, g, t),
         NEW r2 \in [Sessions -> Seq(Frames)], NEW t2 \in [Systems -> Seq(Frames)],
         \A s \in Sessions : r2[s] = r[s] \/ r2[s] = << >>,
         \A y \in Systems : ToSet(t2[y]) \subseteq ToSet(t[y]) /\ InOrderOf(fr, t2[y])
  PROVE  Lined(fr, r2, g, t2)
<1>0. QueuesOf(r, g, t) /\ InPlace(fr, r, g, t) /\ InTurn(fr, r, g, t)
  BY DEF Lined
<1>1. \A z \in Sessions : ToSet(r2[z]) \subseteq ToSet(r[z]) /\ InOrderOf(fr, r2[z])
  BY <1>0, EmptyIsLined DEF InTurn
<1>2. QueuesOf(r2, g, t2)
  BY <1>0 DEF QueuesOf
<1>3. InPlace(fr, r2, g, t2)
  BY <1>0, <1>1 DEF InPlace
<1>4. /\ \A z \in Systems, i \in Lists, x \in Sessions : AheadOf(fr, ToSet(g[z][i]), ToSet(r2[x]))
      /\ \A z \in Systems, x \in Sessions : AheadOf(fr, ToSet(t2[z]), ToSet(r2[x]))
      /\ \A z \in Systems, i \in Lists : AheadOf(fr, ToSet(t2[z]), ToSet(g[z][i]))
  BY <1>0, <1>1 DEF InTurn, AheadOf
<1>5. InTurn(fr, r2, g, t2)
  BY <1>0, <1>1, <1>4 DEF InTurn
<1> QED
  BY <1>2, <1>3, <1>5 DEF Lined

\* The frames of session s that are in one of the queues.
PendingIn(fr, r, g, t, s) ==
    {f \in ToSet(t[SystemOf[s]]) \union ToSet(g[SystemOf[s]][ListOf[AddressOf[s]]])
              \union ToSet(r[s]) : fr[f] = s}

LEMMA PendingOfQueues ==
  ASSUME NEW fr, NEW r, NEW g, NEW t, QueuesOf(r, g, t), NEW s \in Sessions
  PROVE  {f \in ToSet((t[SystemOf[s]] \o g[SystemOf[s]][ListOf[AddressOf[s]]]) \o r[s]) :
             fr[f] = s} = PendingIn(fr, r, g, t, s)
<1> DEFINE a == t[SystemOf[s]]
           b == g[SystemOf[s]][ListOf[AddressOf[s]]]
           c == r[s]
<1>1. a \in Seq(Frames) /\ b \in Seq(Frames) /\ c \in Seq(Frames)
  BY ListFacts DEF QueuesOf
<1>2. PendingIn(fr, r, g, t, s) = {f \in ToSet(a) \union ToSet(b) \union ToSet(c) : fr[f] = s}
  BY DEF PendingIn
<1> HIDE DEF a, b, c
<1> DEFINE u == a \o b
<1>3. u \in Seq(Frames) /\ ToSet(u) = ToSet(a) \union ToSet(b)
  BY <1>1, SetOfConcat
<1> HIDE DEF u
<1>4. ToSet(u \o c) = ToSet(u) \union ToSet(c)
  BY <1>1, <1>3, SetOfConcat
<1>5. ToSet((a \o b) \o c) = ToSet(a) \union ToSet(b) \union ToSet(c)
  BY <1>3, <1>4 DEF u
<1> QED
  BY <1>2, <1>5 DEF a, b, c

LEMMA ReceivesPending ==
  ASSUME NEW fr, NEW r, NEW g, NEW t, Lined(fr, r, g, t),
         NEW s \in Sessions, NEW n, NEW r2, Received(fr, s, n, r, r2)
  PROVE  \A z \in Sessions : PendingIn(Append(fr, s), r2, g, t, z) =
            PendingIn(fr, r, g, t, z) \union (IF z = s THEN {n} ELSE {})
<1> USE DEF Received
<1> DEFINE fr2 == Append(fr, s)
<1>0. QueuesOf(r, g, t) /\ InPlace(fr, r, g, t)
  BY DEF Lined
<1>1. fr2[n] = s /\ \A f \in DOMAIN fr : fr2[f] = fr[f]
  OBVIOUS
<1> HIDE DEF fr2
<1>2. ToSet(r2[s]) = ToSet(r[s]) \union {n}
  BY <1>0, SetOfAppend DEF QueuesOf
<1> SUFFICES ASSUME NEW z \in Sessions
             PROVE  PendingIn(fr2, r2, g, t, z) =
                       PendingIn(fr, r, g, t, z) \union (IF z = s THEN {n} ELSE {})
  BY DEF fr2
<1> DEFINE old == ToSet(t[SystemOf[z]]) \union ToSet(g[SystemOf[z]][ListOf[AddressOf[z]]])
                     \union ToSet(r[z])
           new == ToSet(t[SystemOf[z]]) \union ToSet(g[SystemOf[z]][ListOf[AddressOf[z]]])
                     \union ToSet(r2[z])
<1>3. \A f \in old : f \in DOMAIN fr
  BY <1>0, ListFacts DEF InPlace
<1>4. new = old \union (IF z = s THEN {n} ELSE {})
  BY <1>2
<1>5. PendingIn(fr2, r2, g, t, z) = {f \in new : fr2[f] = z}
  BY DEF PendingIn
<1>6. PendingIn(fr, r, g, t, z) = {f \in old : fr[f] = z}
  BY DEF PendingIn
<1> HIDE DEF old, new
<1>7. \A f \in old : fr2[f] = fr[f]
  BY <1>1, <1>3
<1> QED
  BY <1>1, <1>4, <1>5, <1>6, <1>7

LEMMA SplicesPending ==
  ASSUME NEW fr, NEW r, NEW g, NEW t, Lined(fr, r, g, t), NEW s \in Sessions,
         NEW y, NEW l, NEW r2, NEW g2, Spliced(s, y, l, r, g, r2, g2)
  PROVE  \A z \in Sessions : PendingIn(fr, r2, g2, t, z) = PendingIn(fr, r, g, t, z)
<1> USE DEF Spliced
<1>0. QueuesOf(r, g, t) /\ InPlace(fr, r, g, t)
  BY DEF Lined
<1>1. r[s] \in Seq(Frames) /\ g[y][l] \in Seq(Frames)
  BY <1>0 DEF QueuesOf
<1>2. ToSet(g2[y][l]) = ToSet(g[y][l]) \union ToSet(r[s]) /\ ToSet(r2[s]) = {}
  <2>1. g2[y][l] = g[y][l] \o r[s] /\ r2[s] = << >>
    OBVIOUS
  <2> HIDE DEF Spliced
  <2> QED
    BY <1>1, <2>1, SetOfConcat, SetOfEmpty
<1>3. \A f \in ToSet(r[s]) : fr[f] = s
  BY <1>0 DEF InPlace
<1> SUFFICES ASSUME NEW z \in Sessions
             PROVE  PendingIn(fr, r2, g2, t, z) = PendingIn(fr, r, g, t, z)
  OBVIOUS
<1>4. SystemOf[z] \in Systems /\ ListOf[AddressOf[z]] \in Lists
  BY ListFacts
<1>5. CASE z = s
  BY <1>2, <1>5 DEF PendingIn
<1>6. CASE z # s
  <2> DEFINE A == ToSet(t[SystemOf[z]]) \union ToSet(r[z])
             B == ToSet(g[SystemOf[z]][ListOf[AddressOf[z]]])
             B2 == ToSet(g2[SystemOf[z]][ListOf[AddressOf[z]]])
  <2>1. B2 = B \/ B2 = B \union ToSet(r[s])
    BY <1>2, <1>4
  <2>2. PendingIn(fr, r2, g2, t, z) = {f \in A \union B2 : fr[f] = z}
    BY <1>6 DEF PendingIn
  <2>3. PendingIn(fr, r, g, t, z) = {f \in A \union B : fr[f] = z}
    BY DEF PendingIn
  <2> HIDE DEF A, B, B2, Spliced
  <2>4. {f \in A \union B2 : fr[f] = z} = {f \in A \union B : fr[f] = z}
    <3>1. \A f \in ToSet(r[s]) : fr[f] # z
      BY <1>3, <1>6
    <3> QED
      BY <2>1, <3>1
  <2> QED
    BY <2>2, <2>3, <2>4
<1> QED
  BY <1>5, <1>6

LEMMA TakesPending ==
  ASSUME NEW fr, NEW r, NEW g, NEW t, Lined(fr, r, g, t), NEW y \in Systems,
         NEW l, NEW g2, NEW t2, TookList(y, l, g, t, g2, t2)
  PROVE  \A z \in Sessions : PendingIn(fr, r, g2, t2, z) = PendingIn(fr, r, g, t, z)
<1> USE DEF TookList
<1>0. InPlace(fr, r, g, t)
  BY DEF Lined
<1> SUFFICES ASSUME NEW z \in Sessions
             PROVE  PendingIn(fr, r, g2, t2, z) = PendingIn(fr, r, g, t, z)
  OBVIOUS
<1> DEFINE x == SystemOf[z]
           i == ListOf[AddressOf[z]]
<1>1. x \in Systems /\ i \in Lists
  BY ListFacts
<1>2. /\ PendingIn(fr, r, g2, t2, z) = {f \in ToSet(t2[x]) \union ToSet(g2[x][i]) \union ToSet(r[z]) : fr[f] = z}
      /\ PendingIn(fr, r, g, t, z) = {f \in ToSet(t[x]) \union ToSet(g[x][i]) \union ToSet(r[z]) : fr[f] = z}
  BY DEF PendingIn
<1>3. \A f : fr[f] = z => ListOf[AddressOf[fr[f]]] = i
  OBVIOUS
<1> HIDE DEF x, i
<1>4. CASE x # y
  BY <1>1, <1>2, <1>4
<1>5. CASE x = y /\ i = l
  BY <1>2, <1>5, SetOfEmpty
<1>6. CASE x = y /\ i # l
  <2>1. \A f \in ToSet(g[y][l]) : ListOf[AddressOf[fr[f]]] = l
    BY <1>0 DEF InPlace
  <2>2. \A f \in ToSet(t2[x]) : fr[f] # z
    BY <1>3, <1>6, <2>1
  <2>3. ToSet(t[x]) = {} /\ g2[x][i] = g[x][i]
    BY <1>1, <1>6, SetOfEmpty
  <2> QED
    BY <1>2, <2>2, <2>3
<1> QED
  BY <1>4, <1>5, <1>6

LEMMA LosesPending ==
  ASSUME NEW fr, NEW r, NEW g, NEW t, Lined(fr, r, g, t), NEW s \in Sessions,
         NEW r2, Cleared(s, r, r2)
  PROVE  /\ \A z \in Sessions : z # s => PendingIn(fr, r2, g, t, z) = PendingIn(fr, r, g, t, z)
         /\ Channel!First(PendingIn(fr, r2, g, t, s), PendingIn(fr, r, g, t, s))
<1> USE DEF Cleared
<1>1. \A z \in Sessions : z # s => PendingIn(fr, r2, g, t, z) = PendingIn(fr, r, g, t, z)
  BY DEF PendingIn
<1> DEFINE A == ToSet(t[SystemOf[s]])
           B == ToSet(g[SystemOf[s]][ListOf[AddressOf[s]]])
<1>2. AheadOf(fr, A, ToSet(r[s])) /\ AheadOf(fr, B, ToSet(r[s]))
  BY ListFacts DEF Lined, InTurn
<1>3. /\ PendingIn(fr, r, g, t, s) = {f \in A \union B \union ToSet(r[s]) : fr[f] = s}
      /\ PendingIn(fr, r2, g, t, s) = {f \in A \union B : fr[f] = s}
  BY SetOfEmpty DEF PendingIn
<1> HIDE DEF A, B
<1>4. Channel!First(PendingIn(fr, r2, g, t, s), PendingIn(fr, r, g, t, s))
  BY <1>2, <1>3 DEF Channel!First, AheadOf
<1> QED
  BY <1>1, <1>4

\* The first k frames in the hand of the writer of y leave it: they are the first of
\* their connections.
Leave(now, P, P2) == P2 = P \ now /\ Channel!First(now \intersect P, P)

LEMMA WritesPending ==
  ASSUME NEW fr, NEW r, NEW g, NEW t, Lined(fr, r, g, t), NEW y \in Systems, NEW k,
         NEW t2, NEW now, WroteFirst(y, k, now, t, t2), NEW s \in Sessions
  PROVE  Leave(now, PendingIn(fr, r, g, t, s), PendingIn(fr, r, g, t2, s))
<1> USE DEF WroteFirst, Leave
<1>0. QueuesOf(r, g, t) /\ InPlace(fr, r, g, t) /\ InTurn(fr, r, g, t)
  BY DEF Lined
<1> DEFINE x == SystemOf[s]
           B == ToSet(g[x][ListOf[AddressOf[s]]])
           C == ToSet(r[s])
           rest == ToSet(SubSeq(t[y], k + 1, Len(t[y])))
<1>1. /\ PendingIn(fr, r, g, t, s) = {f \in ToSet(t[x]) \union B \union C : fr[f] = s}
      /\ PendingIn(fr, r, g, t2, s) = {f \in ToSet(t2[x]) \union B \union C : fr[f] = s}
  BY DEF PendingIn
<1>2. /\ x \in Systems /\ ListOf[AddressOf[s]] \in Lists
      /\ \A f : fr[f] = s => SystemOf[fr[f]] = x
  BY ListFacts
<1>3. t[y] \in Seq(Frames)
  BY <1>0 DEF QueuesOf
<1>4. ToSet(t[y]) = now \union rest /\ AheadOf(fr, now, rest)
  <2>1. InOrderOf(fr, t[y])
    BY <1>0 DEF InTurn
  <2> QED
    BY <1>3, <2>1, SetOfSplit, OrderOfSplit
<1>5. \A f \in now : SystemOf[fr[f]] = y /\ ~ (f < f)
  <2>1. \A f \in now : f \in Frames
    BY <1>3, <1>4 DEF ToSet
  <2> QED
    BY <1>0, <1>4, <2>1 DEF InPlace, Frames
<1>6. CASE x # y
  <2>1. \A f \in now : fr[f] # s
    BY <1>2, <1>5, <1>6
  <2>2. t2[x] = t[x]
    BY <1>2, <1>6
  <2> HIDE DEF x, B, C
  <2> QED
    BY <1>1, <2>1, <2>2 DEF Channel!First
<1>7. CASE x = y
  <2>1. AheadOf(fr, ToSet(t[y]), B) /\ AheadOf(fr, ToSet(t[y]), C)
    BY <1>0, <1>2, <1>7 DEF InTurn
  <2>2. AheadOf(fr, now, B) /\ AheadOf(fr, now, C)
    BY <1>4, <2>1 DEF AheadOf
  <2>3. ToSet(t2[x]) = rest /\ ToSet(t[x]) = now \union rest
    BY <1>4, <1>7
  <2> HIDE DEF x, B, C, rest
  <2>4. PendingIn(fr, r, g, t2, s) = {f \in rest \union B \union C : fr[f] = s}
    BY <1>1, <2>3
  <2>5. PendingIn(fr, r, g, t, s) = {f \in now \union rest \union B \union C : fr[f] = s}
    BY <1>1, <2>3
  <2>6. \A f \in now, h \in rest \union B \union C : fr[f] = s /\ fr[h] = s => f < h /\ f # h
    BY <1>4, <1>5, <2>2 DEF AheadOf
  <2>7. PendingIn(fr, r, g, t2, s) = PendingIn(fr, r, g, t, s) \ now
    BY <2>4, <2>5, <2>6
  <2> QED
    BY <2>4, <2>5, <2>6, <2>7 DEF Channel!First
<1> QED
  BY <1>6, <1>7

-----------------------------------------------------------------------------
(* The steps of the channel.                                               *)

InLine == Lined(from, readQueue, gList, taken)
PendingOf(s) == PendingIn(from, readQueue, gList, taken, s)

LEMMA PendingNow ==
  ASSUME InLine PROVE PendingOfSessions = [s \in Sessions |-> PendingOf(s)]
<1>1. QueuesOf(readQueue, gList, taken)
  BY DEF InLine, Lined
<1>2. \A s \in Sessions : Pending(s) = PendingOf(s)
  BY <1>1, PendingOfQueues DEF Pending, Unwritten, PendingOf
<1> QED
  BY <1>2 DEF PendingOfSessions

LEMMA PendingNext ==
  ASSUME InLine' PROVE PendingOfSessions' = [s \in Sessions |-> PendingOf(s)']
<1>1. QueuesOf(readQueue', gList', taken')
  BY DEF InLine, Lined
<1>2. \A s \in Sessions : Pending(s)' = PendingOf(s)'
  BY <1>1, PendingOfQueues DEF Pending, Unwritten, PendingOf
<1> QED
  BY <1>2 DEF PendingOfSessions

LEMMA StartsInLine == Init => InLine
<1> SUFFICES ASSUME Init PROVE InLine
  OBVIOUS
<1>1. << >> \in Seq(Frames) /\ NoLists \in [Lists -> Seq(Frames)]
  BY DEF NoLists
<1>2. \A i \in Lists : NoLists[i] = << >>
  BY DEF NoLists
<1>3. /\ \A s \in Sessions : readQueue[s] = << >>
      /\ \A y \in Systems : taken[y] = << >>
      /\ \A y \in Systems : gList[y] = NoLists
  BY DEF Init
<1>4. \A y \in Systems, i \in Lists : gList[y][i] = << >>
  BY <1>2, <1>3
<1>5. QueuesOf(readQueue, gList, taken)
  BY <1>1 DEF Init, QueuesOf
<1>6. InPlace(from, readQueue, gList, taken)
  BY <1>3, <1>4, SetOfEmpty DEF InPlace
<1>7. InTurn(from, readQueue, gList, taken)
  BY <1>3, <1>4, EmptyIsLined DEF InTurn
<1> QED
  BY <1>5, <1>6, <1>7 DEF InLine, Lined

\* What a splice to the end of a global list does to it, and leaves alone.
LEMMA PutFacts ==
  ASSUME TypeOK, NEW s \in Sessions, NEW q \in Seq(Frames), Put(s, q),
         NEW r, r[s] = q, \A z \in Sessions : z # s => r[z] = readQueue[z]
  PROVE  Spliced(s, SystemOf[s], ListOf[AddressOf[s]], r, gList, readQueue', gList')
<1> DEFINE y == SystemOf[s]
           l == ListOf[AddressOf[s]]
<1>0. y \in Systems /\ l \in Lists
  BY ListFacts
<1>1. gList \in [Systems -> [Lists -> Seq(Frames)]] /\ readQueue \in [Sessions -> Seq(Frames)]
  BY TypesOf DEF QueueTypes
<1>2. readQueue' \in [Sessions -> Seq(Frames)] /\ gList' \in [Systems -> [Lists -> Seq(Frames)]]
  BY PutTypes
<1>3. /\ gList' = [gList EXCEPT ![y] = [gList[y] EXCEPT ![l] = gList[y][l] \o q]]
      /\ readQueue' = [readQueue EXCEPT ![s] = << >>]
  BY DEF Put
<1> HIDE DEF y, l
<1>4. gList[y] \in [Lists -> Seq(Frames)]
  BY <1>0, <1>1
<1>5. gList'[y] = [gList[y] EXCEPT ![l] = gList[y][l] \o q]
  BY <1>0, <1>1, <1>3
<1>6. gList'[y][l] = gList[y][l] \o q /\ \A i \in Lists : i # l => gList'[y][i] = gList[y][i]
  BY <1>0, <1>4, <1>5
<1>7. \A z \in Systems : z # y => gList'[z] = gList[z]
  BY <1>1, <1>3
<1>8. readQueue'[s] = << >> /\ \A z \in Sessions : z # s => readQueue'[z] = r[z]
  BY <1>1, <1>3
<1>9. \A z \in Systems, i \in Lists : z # y \/ i # l => gList'[z][i] = gList[z][i]
  BY <1>6, <1>7
<1> QED
  BY <1>0, <1>2, <1>6, <1>8, <1>9 DEF Spliced, y, l

LEMMA PushInLine ==
  ASSUME TypeOK, InLine, NEW s \in Sessions, NEW attached, Push(s, attached),
         UNCHANGED taken
  PROVE  /\ InLine'
         /\ \A z \in Sessions : PendingOf(z)' =
               PendingOf(z) \union (IF z = s THEN {Len(from')} ELSE {})
<1> DEFINE n == Len(from) + 1
           q == Append(readQueue[s], n)
           r1 == [readQueue EXCEPT ![s] = q]
<1>1. /\ from \in Seq(Sessions) /\ readQueue \in [Sessions -> Seq(Frames)]
      /\ Lined(from, readQueue, gList, taken)
  BY TypesOf DEF QueueTypes, RestTypes, InLine
<1>2. n \in Frames /\ from' = Append(from, s) /\ Len(from') = n
  BY <1>1, CaptureAssumption DEF Push, Frames
<1>3. q \in Seq(Frames)
  BY PushTypes
<1>4. /\ r1 \in [Sessions -> Seq(Frames)] /\ r1[s] = Append(readQueue[s], n)
      /\ \A z \in Sessions : z # s => r1[z] = readQueue[z]
  BY <1>1, <1>3
<1>5. \/ Put(s, q)
      \/ readQueue' = r1 /\ UNCHANGED gList
  BY DEF Push
<1> HIDE DEF n, q, r1
<1>6. /\ Lined(from', r1, gList, taken)
      /\ \A z \in Sessions : PendingIn(from', r1, gList, taken, z) =
            PendingIn(from, readQueue, gList, taken, z) \union (IF z = s THEN {n} ELSE {})
  <2>1. Received(from, s, n, readQueue, r1)
    BY <1>1, <1>2, <1>4 DEF Received, n
  <2> QED
    BY <1>1, <1>2, <2>1, ReceivesLined, ReceivesPending
<1>7. /\ Lined(from', readQueue', gList', taken)
      /\ \A z \in Sessions : PendingIn(from', readQueue', gList', taken, z) =
            PendingIn(from', r1, gList, taken, z)
  <2>1. CASE readQueue' = r1 /\ UNCHANGED gList
    BY <1>6, <2>1
  <2>2. CASE Put(s, q)
    <3>1. r1[s] = q
      BY <1>4 DEF q
    <3>2. Spliced(s, SystemOf[s], ListOf[AddressOf[s]], r1, gList, readQueue', gList')
      BY <1>3, <1>4, <2>2, <3>1, PutFacts
    <3> QED
      BY <1>6, <3>2, SplicesLined, SplicesPending
  <2> QED
    BY <1>5, <2>1, <2>2
<1> QED
  BY <1>2, <1>6, <1>7 DEF InLine, PendingOf

LEMMA CloseInLine ==
  ASSUME TypeOK, InLine, NEW s \in Sessions, CloseSession(s)
  PROVE  InLine' /\ \A z \in Sessions : PendingOf(z)' = PendingOf(z)
<1>1. readQueue[s] \in Seq(Frames) /\ Lined(from, readQueue, gList, taken)
  BY TypesOf DEF QueueTypes, InLine
<1>2. from' = from /\ taken' = taken
  BY DEF CloseSession, writerVars
<1>3. Put(s, readQueue[s]) \/ UNCHANGED <<readQueue, gList>>
  BY DEF CloseSession
<1>4. CASE UNCHANGED <<readQueue, gList>>
  BY <1>1, <1>2, <1>4 DEF InLine, PendingOf
<1>5. CASE Put(s, readQueue[s])
  <2>1. Spliced(s, SystemOf[s], ListOf[AddressOf[s]], readQueue, gList, readQueue', gList')
    BY <1>1, <1>5, PutFacts
  <2>2. /\ Lined(from, readQueue', gList', taken)
        /\ \A z \in Sessions : PendingIn(from, readQueue', gList', taken, z) =
              PendingIn(from, readQueue, gList, taken, z)
    BY <1>1, <2>1, SplicesLined, SplicesPending
  <2> QED
    BY <1>2, <2>2 DEF InLine, PendingOf
<1> QED
  BY <1>3, <1>4, <1>5

\* A session is deleted, or refused, with its queue.
LEMMA ClearInLine ==
  ASSUME TypeOK, InLine, NEW s \in Sessions, readQueue' = [readQueue EXCEPT ![s] = << >>],
         UNCHANGED <<from, gList, taken>>
  PROVE  /\ InLine' /\ \A z \in Sessions : z # s => PendingOf(z)' = PendingOf(z)
         /\ Channel!First(PendingOf(s)', PendingOf(s))
<1>1. /\ Lined(from, readQueue, gList, taken) /\ taken \in [Systems -> Seq(Frames)]
      /\ readQueue \in [Sessions -> Seq(Frames)]
  BY TypesOf DEF InLine, QueueTypes
<1>2. /\ readQueue' \in [Sessions -> Seq(Frames)] /\ readQueue'[s] = << >>
      /\ \A z \in Sessions : z # s => readQueue'[z] = readQueue[z]
  BY <1>1, EmptySeq
<1>3. \A y \in Systems : InOrderOf(from, taken[y])
  BY <1>1 DEF Lined, InTurn
<1>4. Lined(from, readQueue', gList, taken)
  BY <1>1, <1>2, <1>3, LosesLined
<1>5. /\ \A z \in Sessions : z # s => PendingIn(from, readQueue', gList, taken, z) = PendingIn(from, readQueue, gList, taken, z)
      /\ Channel!First(PendingIn(from, readQueue', gList, taken, s), PendingIn(from, readQueue, gList, taken, s))
  <2>1. Cleared(s, readQueue, readQueue')
    BY <1>2 DEF Cleared
  <2> QED
    BY <1>1, <2>1, LosesPending
<1> QED
  BY <1>4, <1>5 DEF InLine, PendingOf

LEMMA TakeInLine ==
  ASSUME TypeOK, InLine, NEW y \in Systems, TakeList(y)
  PROVE  InLine' /\ \A z \in Sessions : PendingOf(z)' = PendingOf(z)
<1> DEFINE l == index[y]
<1>1. /\ Lined(from, readQueue, gList, taken) /\ taken \in [Systems -> Seq(Frames)]
      /\ gList \in [Systems -> [Lists -> Seq(Frames)]] /\ l \in Lists
      /\ << >> \in Seq(Frames)
  BY TypesOf DEF InLine, QueueTypes, RestTypes
<1>2. /\ taken[y] = << >> /\ taken' = [taken EXCEPT ![y] = gList[y][l]]
      /\ gList' = [gList EXCEPT ![y] = [gList[y] EXCEPT ![l] = << >>]]
      /\ from' = from /\ readQueue' = readQueue
  BY DEF TakeList, sessionVars
<1> HIDE DEF l
<1>3. gList[y] \in [Lists -> Seq(Frames)] /\ gList[y][l] \in Seq(Frames)
  BY <1>1
<1>4. [gList[y] EXCEPT ![l] = << >>] \in [Lists -> Seq(Frames)]
  BY <1>1, <1>3
<1>5. /\ gList' \in [Systems -> [Lists -> Seq(Frames)]] /\ gList'[y][l] = << >>
      /\ \A z \in Systems, i \in Lists : z # y \/ i # l => gList'[z][i] = gList[z][i]
  BY <1>1, <1>2, <1>3, <1>4
<1>6. /\ taken' \in [Systems -> Seq(Frames)] /\ taken'[y] = gList[y][l]
      /\ \A z \in Systems : z # y => taken'[z] = taken[z]
  BY <1>1, <1>2, <1>3
<1>7. /\ Lined(from, readQueue, gList', taken')
      /\ \A z \in Sessions : PendingIn(from, readQueue, gList', taken', z) =
            PendingIn(from, readQueue, gList, taken, z)
  <2>1. TookList(y, l, gList, taken, gList', taken')
    BY <1>1, <1>2, <1>5, <1>6 DEF TookList
  <2> QED
    BY <1>1, <2>1, TakesLined, TakesPending
<1> QED
  BY <1>2, <1>7 DEF InLine, PendingOf

LEMMA WriteInLine ==
  ASSUME TypeOK, InLine, NEW y \in Systems, NEW k, NEW now,
         WroteFirst(y, k, now, taken, taken'), UNCHANGED <<from, readQueue, gList>>
  PROVE  /\ InLine'
         /\ now \subseteq UNION {PendingOf(s) : s \in Sessions}
         /\ \A s \in Sessions : /\ PendingOf(s)' = PendingOf(s) \ now
                                /\ Channel!First(now \intersect PendingOf(s), PendingOf(s))
         /\ \A f \in now : SystemOf[from[f]] = y
<1>1. /\ Lined(from, readQueue, gList, taken) /\ taken \in [Systems -> Seq(Frames)]
      /\ readQueue \in [Sessions -> Seq(Frames)] /\ from \in Seq(Sessions)
  BY TypesOf DEF InLine, QueueTypes, RestTypes
<1>2. taken[y] \in Seq(Frames)
  BY <1>1
<1>3. \A z \in Systems : InOrderOf(from, taken[z])
  BY <1>1 DEF Lined, InTurn
<1>4. /\ ToSet(taken[y]) = now \union ToSet(taken'[y])
      /\ InOrderOf(from, taken'[y])
  BY <1>2, <1>3, SetOfSplit, OrderOfSplit DEF WroteFirst
<1>5. Lined(from, readQueue, gList, taken')
  <2>1. \A z \in Systems : ToSet(taken'[z]) \subseteq ToSet(taken[z]) /\ InOrderOf(from, taken'[z])
    BY <1>3, <1>4 DEF WroteFirst
  <2>2. taken' \in [Systems -> Seq(Frames)]
    BY DEF WroteFirst
  <2> QED
    BY <1>1, <2>1, <2>2, LosesLined
<1>6. ASSUME NEW s \in Sessions
      PROVE  /\ PendingOf(s)' = PendingOf(s) \ now
             /\ Channel!First(now \intersect PendingOf(s), PendingOf(s))
  <2>1. Leave(now, PendingIn(from, readQueue, gList, taken, s), PendingIn(from, readQueue, gList, taken', s))
    BY <1>1, WritesPending
  <2> QED
    BY <2>1 DEF Leave, PendingOf
<1>7. \A f \in now : f \in DOMAIN from /\ from[f] \in Sessions /\ SystemOf[from[f]] = y
  <2>1. \A f \in now : f \in DOMAIN from /\ SystemOf[from[f]] = y
    BY <1>1, <1>4 DEF Lined, InPlace
  <2> QED
    BY <1>1, <2>1
<1>8. ASSUME NEW f \in now PROVE f \in PendingOf(from[f])
  BY <1>4, <1>7 DEF PendingOf, PendingIn
<1> QED
  BY <1>5, <1>6, <1>7, <1>8 DEF InLine

\* The process dies, and nothing is pending any more.
LEMMA KillInLine ==
  ASSUME TypeOK', InLine, Kill
  PROVE  InLine' /\ \A s \in Sessions : PendingOf(s)' = {}
<1>1. /\ \A s \in Sessions : readQueue'[s] = << >>
      /\ \A y \in Systems : taken'[y] = << >>
      /\ \A y \in Systems, i \in Lists : gList'[y][i] = << >>
  BY DEF Kill, NoLists
<1>2. QueuesOf(readQueue', gList', taken')
  BY DEF TypeOK, SessionTypeOK, ServerTypeOK, QueuesOf
<1>3. InPlace(from', readQueue', gList', taken')
  BY <1>1, SetOfEmpty DEF InPlace
<1>4. InTurn(from', readQueue', gList', taken')
  BY <1>1, EmptyIsLined DEF InTurn
<1>5. \A s \in Sessions : PendingIn(from', readQueue', gList', taken', s) = {}
  BY <1>1, SetOfEmpty, ListFacts DEF PendingIn
<1> QED
  BY <1>2, <1>3, <1>4, <1>5 DEF InLine, Lined, PendingOf

Over == {s \in Sessions : reads[s] = "done"}

\* A step that neither receives nor saves a frame and loses none is no step of the
\* channel.
LEMMA NoChannelStep ==
  ASSUME InLine, InLine', \A s \in Sessions : PendingOf(s)' = PendingOf(s),
         from' = from, file' = file, Over' = Over
  PROVE  UNCHANGED Channel!vars
<1>1. PendingOfSessions' = PendingOfSessions
  BY PendingNow, PendingNext
<1> QED
  BY <1>1 DEF Channel!vars, Over

\* A connection ends, and a session that has ended loses its queue.
LEMMA EndsChannel ==
  ASSUME InLine, InLine', NEW s \in Sessions,
         \A z \in Sessions : z # s => PendingOf(z)' = PendingOf(z),
         Channel!First(PendingOf(s)', PendingOf(s)),
         from' = from, file' = file, Over' = Over \union {s}
  PROVE  Channel!End(s)
<1>1. PendingOfSessions = [z \in Sessions |-> PendingOf(z)] /\ PendingOfSessions' = [z \in Sessions |-> PendingOf(z)']
  BY PendingNow, PendingNext
<1>2. PendingOfSessions' = [PendingOfSessions EXCEPT ![s] = PendingOf(s)']
  BY <1>1
<1>3. PendingOf(s)' \in SUBSET PendingOfSessions[s] /\ PendingOfSessions[s] = PendingOf(s)
  BY <1>1 DEF Channel!First
<1> QED
  BY <1>2, <1>3 DEF Channel!End, Over

LEMMA ReceivesChannel ==
  ASSUME TypeOK, InLine, InLine', NEW s \in Sessions, reads[s] = "open", Len(from) < MaxFrames,
         from' = Append(from, s),
         \A z \in Sessions : PendingOf(z)' = PendingOf(z) \union (IF z = s THEN {Len(from')} ELSE {}),
         file' = file, Over' = Over
  PROVE  Channel!Receive(s)
<1>1. PendingOfSessions = [z \in Sessions |-> PendingOf(z)] /\ PendingOfSessions' = [z \in Sessions |-> PendingOf(z)']
  BY PendingNow, PendingNext
<1>2. PendingOfSessions' = [PendingOfSessions EXCEPT ![s] = PendingOfSessions[s] \union {Len(from')}]
  <2>1. PendingOf(s)' = PendingOf(s) \union {Len(from')}
    OBVIOUS
  <2>2. \A z \in Sessions : z # s => PendingOf(z)' = PendingOf(z)
    OBVIOUS
  <2>3. PendingOfSessions[s] = PendingOf(s)
    BY <1>1
  <2> HIDE DEF PendingOf
  <2> QED
    BY <1>1, <2>1, <2>2, <2>3
<1> QED
  BY <1>2 DEF Channel!Receive, Over

LEMMA WritesChannel ==
  ASSUME TypeOK, InLine, NEW y \in Systems, NEW k \in 1 .. MaxFrames, WriteToLocal(y, k)
  PROVE  InLine' /\ Channel!Write
<1> DEFINE block == SubSeq(taken[y], 1, k)
           now == ToSet(block)
<1>0. /\ WroteFirst(y, k, now, taken, taken')
      /\ UNCHANGED <<from, readQueue, gList>>
  <2>1. /\ k \in 1 .. Len(taken[y]) /\ taken \in [Systems -> Seq(Frames)]
        /\ taken' = [taken EXCEPT ![y] = SubSeq(@, k + 1, Len(@))]
        /\ UNCHANGED <<from, readQueue, gList>>
    BY TypesOf DEF WriteToLocal, sessionVars, QueueTypes
  <2>2. SubSeq(taken[y], k + 1, Len(taken[y])) \in Seq(Frames)
    BY <2>1, SetOfSplit
  <2> QED
    BY <2>1, <2>2 DEF WroteFirst
<1>1. /\ InLine' /\ now \subseteq UNION {PendingOf(s) : s \in Sessions}
      /\ \A s \in Sessions : /\ PendingOf(s)' = PendingOf(s) \ now
                             /\ Channel!First(now \intersect PendingOf(s), PendingOf(s))
      /\ \A f \in now : SystemOf[from[f]] = y
  BY <1>0, WriteInLine
<1>2. /\ k \in 1 .. Len(taken[y]) /\ taken[y] \in Seq(Frames)
      /\ InOrderOf(from, taken[y])
  BY TypesOf DEF WriteToLocal, QueueTypes, InLine, Lined, InTurn
<1>3. /\ DOMAIN block = 1 .. k /\ InOrderOf(from, block)
      /\ block = [i \in 1 .. k |-> block[i]]
  BY <1>2, OrderOfSplit
<1>4. file' = file \/ file' = [file EXCEPT ![y] = @ \o block]
  BY DEF WriteToLocal
<1>5. from' = from /\ Over' = Over
  BY DEF WriteToLocal, sessionVars, Over
<1> HIDE DEF block
<1>6. block \in Channel!Blocks(now)
  <2>1. block \in [1 .. k -> now]
    BY <1>3 DEF ToSet
  <2>2. \A f \in now : \E i \in DOMAIN block : block[i] = f
    BY DEF ToSet
  <2> QED
    BY <2>1, <2>2 DEF Channel!Blocks
<1>7. Channel!InOrder(block)
  BY <1>3 DEF InOrderOf, Channel!InOrder
<1> HIDE DEF now
<1>8. PendingOfSessions = [s \in Sessions |-> PendingOf(s)] /\ PendingOfSessions' = [s \in Sessions |-> PendingOf(s)']
  BY <1>1, PendingNow, PendingNext
<1>9. /\ now \in SUBSET UNION {PendingOfSessions[s] : s \in Sessions}
      /\ \A s \in Sessions : Channel!First(now \intersect PendingOfSessions[s], PendingOfSessions[s])
      /\ PendingOfSessions' = [s \in Sessions |-> PendingOfSessions[s] \ now]
  BY <1>1, <1>8
<1> QED
  BY <1>1, <1>4, <1>5, <1>6, <1>7, <1>9 DEF Channel!Write, Over

LEMMA StartsChannel == Init => Channel!Init
<1> SUFFICES ASSUME Init PROVE Channel!Init
  OBVIOUS
<1>1. InLine
  BY StartsInLine
<1>2. /\ \A s \in Sessions : readQueue[s] = << >>
      /\ \A y \in Systems, i \in Lists : taken[y] = << >> /\ gList[y][i] = << >>
  BY DEF Init, NoLists
<1>3. \A s \in Sessions : SystemOf[s] \in Systems /\ ListOf[AddressOf[s]] \in Lists
  BY ListFacts
<1>4. \A s \in Sessions : PendingOf(s) = {}
  BY <1>2, <1>3, SetOfEmpty DEF PendingOf, PendingIn
<1>5. PendingOfSessions = [s \in Sessions |-> {}]
  BY <1>1, <1>4, PendingNow
<1> QED
  BY <1>5 DEF Init, Channel!Init

LEMMA StepsChannel ==
  TypeOK /\ TypeOK' /\ InLine /\ [Next]_vars => InLine' /\ [Channel!Next]_(Channel!vars)
<1> SUFFICES ASSUME TypeOK, TypeOK', InLine, [Next]_vars
             PROVE  InLine' /\ [Channel!Next]_(Channel!vars)
  OBVIOUS
<1>0. reads \in [Sessions -> {"none", "open", "done"}]
  BY TypesOf DEF RestTypes
\* Steps that leave every queue alone.
<1>1. ASSUME UNCHANGED <<readQueue, gList, taken, from, file>>
      PROVE  InLine' /\ \A s \in Sessions : PendingOf(s)' = PendingOf(s)
  BY <1>1 DEF InLine, PendingOf
<1>2. ASSUME NEW s \in Sessions, Accept(s)
      PROVE  InLine' /\ UNCHANGED Channel!vars
  <2>1. UNCHANGED <<readQueue, gList, taken, from, file>>
    BY <1>2 DEF Accept, writerVars
  <2>2. Over' = Over
    BY <1>0, <1>2 DEF Accept, Over
  <2> QED
    BY <1>1, <2>1, <2>2, NoChannelStep
<1>3. ASSUME NEW s \in Sessions, Written(s)
      PROVE  InLine' /\ UNCHANGED Channel!vars
  <2>1. UNCHANGED <<readQueue, gList, taken, from, file, reads>>
    BY <1>3 DEF Written, writerVars
  <2> QED
    BY <1>1, <2>1, NoChannelStep DEF Over
<1>4. ASSUME NEW s \in Sessions, WriteError(s)
      PROVE  InLine' /\ UNCHANGED Channel!vars
  <2>1. CloseSession(s) /\ UNCHANGED <<from, file, reads>>
    BY <1>4 DEF WriteError, CloseSession, writerVars
  <2> QED
    BY <2>1, CloseInLine, NoChannelStep DEF Over
<1>5. ASSUME NEW s \in Sessions, ReadFrame(s) \/ Login(s)
      PROVE  InLine' /\ Channel!Receive(s)
  <2>1. /\ reads[s] = "open" /\ \E attached \in {TRUE, isLogin[s]} : Push(s, attached)
        /\ UNCHANGED <<reads, taken, file>>
    BY <1>5 DEF ReadFrame, Login, writerVars
  <2>2. PICK attached \in {TRUE, isLogin[s]} : Push(s, attached)
    BY <2>1
  <2>3. /\ InLine'
        /\ \A z \in Sessions : PendingOf(z)' =
              PendingOf(z) \union (IF z = s THEN {Len(from')} ELSE {})
    BY <2>1, <2>2, PushInLine
  <2>4. Len(from) < MaxFrames /\ from' = Append(from, s)
    BY <2>2 DEF Push
  <2> QED
    BY <2>1, <2>3, <2>4, ReceivesChannel DEF Over
<1>6. ASSUME NEW s \in Sessions, reads' = [reads EXCEPT ![s] = "done"]
      PROVE  Over' = Over \union {s}
  BY <1>0, <1>6 DEF Over
<1>7. ASSUME NEW s \in Sessions, LoginRefused(s) \/ Delete(s)
      PROVE  InLine' /\ Channel!End(s)
  <2>1. /\ readQueue' = [readQueue EXCEPT ![s] = << >>]
        /\ UNCHANGED <<from, gList, taken, file>>
    BY <1>7 DEF LoginRefused, Delete, writerVars
  <2>2. \/ reads' = [reads EXCEPT ![s] = "done"]
        \/ reads[s] = "done" /\ reads' = reads
    BY <1>7 DEF LoginRefused, Delete
  <2>3. Over' = Over \union {s}
    BY <1>6, <2>2 DEF Over
  <2> QED
    BY <2>1, <2>3, ClearInLine, EndsChannel
<1>8. ASSUME NEW s \in Sessions, ReadError(s) \/ BadLeadCode(s)
      PROVE  InLine' /\ Channel!End(s)
  <2>1. InLine' /\ \A z \in Sessions : PendingOf(z)' = PendingOf(z)
    <3>1. CASE CloseSession(s)
      BY <3>1, CloseInLine
    <3>2. CASE BadLeadCode(s)
      <4>1. UNCHANGED <<readQueue, gList, taken, from, file>>
        BY <3>2 DEF BadLeadCode, writerVars
      <4> QED
        BY <1>1, <4>1
    <3> QED
      BY <1>8, <3>1, <3>2 DEF ReadError
  <2>2. UNCHANGED <<from, file>> /\ Over' = Over \union {s}
    BY <1>6, <1>8 DEF ReadError, BadLeadCode, CloseSession, writerVars
  <2>3. Channel!First(PendingOf(s)', PendingOf(s))
    BY <2>1 DEF Channel!First
  <2> QED
    BY <2>1, <2>2, <2>3, EndsChannel
<1>9. ASSUME NEW y \in Systems, Writer(y)
      PROVE  InLine' /\ (Channel!Write \/ UNCHANGED Channel!vars)
  <2>1. CASE TakeList(y)
    <3>1. UNCHANGED <<from, file, reads>>
      BY <2>1 DEF TakeList, sessionVars
    <3> QED
      BY <2>1, <3>1, TakeInLine, NoChannelStep DEF Over
  <2>2. CASE \E k \in 1 .. MaxFrames : WriteToLocal(y, k)
    BY <2>2, WritesChannel
  <2> QED
    BY <1>9, <2>1, <2>2 DEF Writer
<1>10. ASSUME Kill
       PROVE  InLine' /\ Channel!Crash
  <2>1. InLine' /\ \A s \in Sessions : PendingOf(s)' = {}
    BY <1>10, KillInLine
  <2>2. PendingOfSessions' = [s \in Sessions |-> {}]
    BY <2>1, PendingNext
  <2>3. Over' \in SUBSET Sessions /\ Over \subseteq Over' /\ from' = from /\ file' = file
    BY <1>10 DEF Kill, Over
  <2> QED
    BY <2>1, <2>2, <2>3 DEF Channel!Crash, Over
<1>11. CASE UNCHANGED vars
  <2>1. UNCHANGED <<readQueue, gList, taken, from, file, reads>>
    BY <1>11 DEF vars, sessionVars, writerVars
  <2> QED
    BY <1>1, <2>1, NoChannelStep DEF Over
<1> QED
  BY <1>2, <1>3, <1>4, <1>5, <1>7, <1>8, <1>9, <1>10, <1>11 DEF Next, Io, Channel!Next

\* The queue of a session, the global list and the frames in the writer's hand are,
\* for each connection, one channel: its frames come to the file in the order they
\* were received, and none twice, whatever connections end and writes fail and
\* wherever the process is killed.
THEOREM CaptureIsChannel == Spec => IsChannel
  BY CaptureTypeCorrect, StartsInLine, StartsChannel, StepsChannel, PTL DEF Spec, IsChannel, Channel!Spec

-----------------------------------------------------------------------------
(* What the channel says of the files.                                     *)

\* The frames of each connection are in the order they were received in the file of
\* its system, and none is there twice.
FilesInOrder ==
    \A y \in Systems : \A i, j \in DOMAIN file[y] :
        i < j /\ from[file[y][i]] = from[file[y][j]] => file[y][i] < file[y][j]

\* The frames in the files were received before those that are pending.
FilesAhead ==
    /\ \A s \in Sessions : \A f \in PendingOfSessions[s] : f \in DOMAIN from /\ from[f] = s
    /\ \A y \in Systems : ToSet(file[y]) \subseteq DOMAIN from
    /\ \A y \in Systems : InOrderOf(from, file[y])
    /\ \A y \in Systems, s \in Sessions : AheadOf(from, ToSet(file[y]), PendingOfSessions[s])

LEMMA FilesStart == Init => FilesAhead
<1> SUFFICES ASSUME Init PROVE FilesAhead
  OBVIOUS
<1>1. \A s \in Sessions : PendingOfSessions[s] = {}
  BY StartsChannel DEF Channel!Init
<1>2. \A y \in Systems : file[y] = << >>
  BY DEF Init
<1> QED
  BY <1>1, <1>2, EmptyIsLined DEF FilesAhead

LEMMA FilesStep ==
  TypeOK /\ TypeOK' /\ FilesAhead /\ [Channel!Next]_(Channel!vars) => FilesAhead'
<1> SUFFICES ASSUME TypeOK, TypeOK', FilesAhead, [Channel!Next]_(Channel!vars)
             PROVE  FilesAhead'
  OBVIOUS
<1> DEFINE pend == PendingOfSessions
<1>0. /\ from \in Seq(Sessions) /\ Len(from) \in Nat /\ DOMAIN from = 1 .. Len(from)
      /\ Len(from) <= MaxFrames /\ MaxFrames \in Nat
      /\ file \in [Systems -> Seq(Frames)]
  BY TypesOf, CaptureAssumption DEF QueueTypes, RestTypes
<1>1. /\ \A s \in Sessions : \A f \in pend[s] : f \in DOMAIN from /\ from[f] = s
      /\ \A y \in Systems : ToSet(file[y]) \subseteq DOMAIN from
      /\ \A y \in Systems : InOrderOf(from, file[y])
      /\ \A y \in Systems, s \in Sessions : AheadOf(from, ToSet(file[y]), pend[s])
  BY DEF FilesAhead
<1> HIDE DEF pend
\* Nothing is saved, and nothing else becomes pending.
<1>2. ASSUME from' = from, file' = file, \A s \in Sessions : pend'[s] \subseteq pend[s]
      PROVE  FilesAhead'
  <2>1. \A y \in Systems, s \in Sessions : AheadOf(from, ToSet(file[y]), pend'[s])
    BY <1>1, <1>2 DEF AheadOf
  <2> QED
    BY <1>1, <1>2, <2>1 DEF FilesAhead, pend
<1>3. ASSUME NEW s \in Sessions, Channel!Receive(s) PROVE FilesAhead'
  <2> DEFINE n == Len(from')
             fr == from'
  <2>1. /\ fr = Append(from, s) /\ file' = file
        /\ pend' = [pend EXCEPT ![s] = @ \union {n}]
    BY <1>3 DEF Channel!Receive, pend
  <2>2. /\ n = Len(from) + 1 /\ fr[n] = s /\ n \in DOMAIN fr
        /\ \A f \in DOMAIN from : fr[f] = from[f] /\ f \in DOMAIN fr /\ f < n
    BY <1>0, <2>1
  <2>3. \A z \in Sessions : pend'[z] = pend[z] \/ (z = s /\ pend'[z] = pend[z] \union {n})
    <3>1. pend = [z \in Sessions |-> pend[z]]
      BY DEF pend, PendingOfSessions
    <3> QED
      BY <2>1, <3>1
  <2> HIDE DEF n, fr
  <2>4. \A z \in Sessions : \A f \in pend'[z] : f \in DOMAIN fr /\ fr[f] = z
    BY <1>1, <2>2, <2>3
  <2>5. \A y \in Systems : InOrderOf(fr, file[y])
    BY <1>1, <2>2 DEF InOrderOf, ToSet
  <2>6. ASSUME NEW y \in Systems, NEW z \in Sessions
        PROVE  AheadOf(fr, ToSet(file[y]), pend'[z])
    <3>1. AheadOf(fr, ToSet(file[y]), pend[z])
      BY <1>1, <2>2 DEF AheadOf
    <3>2. AheadOf(fr, ToSet(file[y]), {n})
      BY <1>1, <2>2 DEF AheadOf
    <3>3. AheadOf(fr, ToSet(file[y]), pend[z] \union {n})
      BY <3>1, <3>2, AheadOfUnion
    <3> QED
      BY <2>3, <3>1, <3>3
  <2>7. \A y \in Systems : ToSet(file[y]) \subseteq DOMAIN fr
    BY <1>1, <2>2
  <2> QED
    BY <2>1, <2>4, <2>5, <2>6, <2>7 DEF FilesAhead, pend, fr
<1>4. ASSUME NEW s \in Sessions, Channel!End(s) PROVE FilesAhead'
  <2>1. pend = [z \in Sessions |-> pend[z]]
    BY DEF pend, PendingOfSessions
  <2>2. PICK rest \in SUBSET pend[s] : pend' = [pend EXCEPT ![s] = rest]
    BY <1>4 DEF Channel!End, pend
  <2>3. \A z \in Sessions : pend'[z] \subseteq pend[z]
    BY <2>1, <2>2
  <2> QED
    BY <1>2, <1>4, <2>3 DEF Channel!End
<1>5. CASE Channel!Crash
  <2>1. \A z \in Sessions : pend'[z] = {}
    BY <1>5 DEF Channel!Crash, pend
  <2> QED
    BY <1>2, <1>5, <2>1 DEF Channel!Crash
<1>6. CASE Channel!Write
  <2>1. PICK now \in SUBSET UNION {pend[s] : s \in Sessions} :
          /\ \A s \in Sessions : Channel!First(now \intersect pend[s], pend[s])
          /\ pend' = [s \in Sessions |-> pend[s] \ now]
          /\ \/ file' = file
             \/ \E y \in Systems, block \in Channel!Blocks(now) :
                   /\ Channel!InOrder(block)
                   /\ file' = [file EXCEPT ![y] = @ \o block]
          /\ from' = from
    BY <1>6 DEF Channel!Write, pend
  <2>2. \A s \in Sessions : pend'[s] = pend[s] \ now
    BY <2>1
  <2>3. CASE file' = file
    BY <1>2, <2>1, <2>2, <2>3
  <2>4. ASSUME NEW y \in Systems, NEW block \in Channel!Blocks(now), Channel!InOrder(block),
               file' = [file EXCEPT ![y] = @ \o block]
        PROVE  FilesAhead'
    <3>1. \A f \in now : f \in DOMAIN from /\ f \in Frames /\ from[f] \in Sessions /\ f \in pend[from[f]]
      BY <1>0, <1>1 DEF Frames
    <3>2. block \in Seq(Frames) /\ ToSet(block) = now /\ InOrderOf(from, block)
      <4>1. PICK n \in 1 .. MaxFrames : block \in [1 .. n -> now]
        BY DEF Channel!Blocks
      <4>2. \A f \in now : \E i \in DOMAIN block : block[i] = f
        BY DEF Channel!Blocks
      <4>3. block \in [1 .. n -> Frames] /\ DOMAIN block = 1 .. n
        BY <3>1, <4>1
      <4>4. block \in Seq(Frames)
        BY <1>0, <4>3
      <4>5. ToSet(block) = now
        BY <4>1, <4>2 DEF ToSet
      <4> QED
        BY <2>4, <4>4, <4>5 DEF InOrderOf, Channel!InOrder
    <3>3. file[y] \in Seq(Frames) /\ file'[y] = file[y] \o block
      BY <1>0, <2>4
    <3>4. ToSet(file'[y]) = ToSet(file[y]) \union now
      BY <3>2, <3>3, SetOfConcat
    <3>5. AheadOf(from, ToSet(file[y]), now)
      BY <1>1, <3>1 DEF AheadOf
    <3>6. InOrderOf(from, file'[y])
      BY <1>1, <3>2, <3>3, <3>5, OrderOfConcat
    <3>7. \A x \in Systems : x # y => file'[x] = file[x]
      BY <1>0, <2>4
    <3>8. ASSUME NEW x \in Systems, NEW s \in Sessions
          PROVE  AheadOf(from, ToSet(file'[x]), pend'[s])
      <4>1. AheadOf(from, ToSet(file[x]), pend'[s])
        BY <1>1, <2>2 DEF AheadOf
      <4>2. AheadOf(from, now, pend'[s])
        <5> SUFFICES ASSUME NEW f \in now, NEW g \in pend'[s], from[f] = from[g]
                     PROVE  f < g
          BY DEF AheadOf
        <5>1. g \in pend[s] /\ g \notin now /\ from[g] = s /\ f \in pend[s]
          BY <1>1, <2>2, <3>1
        <5>2. Channel!First(now \intersect pend[s], pend[s])
          BY <2>1
        <5> QED
          BY <5>1, <5>2 DEF Channel!First
      <4>3. AheadOf(from, ToSet(file[x]) \union now, pend'[s])
        BY <4>1, <4>2, AheadOfUnion
      <4> QED
        BY <3>4, <3>7, <4>1, <4>3
    <3>9. \A x \in Systems : ToSet(file'[x]) \subseteq DOMAIN from /\ InOrderOf(from, file'[x])
      BY <1>1, <3>1, <3>4, <3>6, <3>7
    <3>10. \A s \in Sessions : \A f \in pend'[s] : f \in DOMAIN from /\ from[f] = s
      BY <1>1, <2>2
    <3> QED
      BY <2>1, <3>8, <3>9, <3>10 DEF FilesAhead, pend
  <2> QED
    BY <2>1, <2>3, <2>4
<1>7. CASE UNCHANGED Channel!vars
  BY <1>2, <1>7 DEF Channel!vars, pend
<1> QED
  BY <1>3, <1>4, <1>5, <1>6, <1>7 DEF Channel!Next

\* In every file the frames of a connection are in the order they were received, and
\* none is there twice: what the channel promises, said of the files themselves.
THEOREM FramesInOrder == Spec => []FilesInOrder
<1>1. FilesAhead => FilesInOrder
  BY DEF FilesAhead, FilesInOrder, InOrderOf
<1>2. IsChannel => [][Channel!Next]_(Channel!vars)
  BY DEF IsChannel, Channel!Spec
<1> QED
  BY CaptureTypeCorrect, CaptureIsChannel, FilesStart, FilesStep, <1>1, <1>2, PTL DEF Spec
=============================================================================
