--------------------------- MODULE FileSyncProofs ---------------------------
(***************************************************************************)
(* What holds of the hand-over of files for every set of systems, every    *)
(* bound and every interleaving of the writers, the uploader and the       *)
(* kills.  A writer of FileSync is one of PackFileSync whose lists have a  *)
(* single buffer, so what is proved of PackFileSync holds of both.         *)
(***************************************************************************)
EXTENDS PackFileSync, TLAPS

-----------------------------------------------------------------------------
(* One step of the system, action by action.                               *)

StepOfWriter(s) == \/ \E k \in 1 .. MaxList : WriterAppend(s, k)
                   \/ WriterClose(s) \/ WriterCreate(s) \/ WriterCreateFails(s)
                   \/ WriterCountPlus(s) \/ WriterPersist(s)

Step == \/ \E s \in Systems : StepOfWriter(s)
        \/ WriterKill
        \/ Scan \/ Upload
        \/ UploaderKill

LEMMA PackNextIsStep == PackNext => Step
  BY DEF PackNext, PackWriter, PackWriteToLocal, PackClose, PackOpen, PackCount,
         PackWriterKill, PackScan, PackUpload, PackTake, PackCopy,
         PackUploaderKill, Step, StepOfWriter, Upload

LEMMA NextIsPackNext == Next => PackNext
<1>1. \A s \in Systems : Writer(s) => PackWriter(s)
  <2>1. 1 \in 1 .. MaxList
    BY MaxListAssumption
  <2> QED
    BY <2>1 DEF Writer, WriterWrite, PackWriter, PackWriteToLocal, PackClose,
                PackOpen, PackCount
<1> QED
  BY <1>1 DEF Next, Upload, PackNext, PackWriterKill, PackScan, PackUpload,
              PackTake, PackCopy, PackUploaderKill

\* A writer that asks for the file again before each buffer does what one that
\* asks once for a list may do: the programs under src/DataServer implement
\* what is proved of those under src/pack.
THEOREM BufferIsList == Spec => PackSpec
  BY NextIsPackNext, PTL DEF Spec, PackSpec

-----------------------------------------------------------------------------
(* The inductive invariant, by parts.                                      *)

\* The types of the two file systems, whatever the size of a file.
StoreTypes ==
    /\ dirs \subseteq Systems
    /\ disk \in [Systems -> [Files -> Nat \union {NoFile}]]
    /\ hdfs \in [Systems -> [Files -> Nat \union {NoFile}]]
    /\ written \in [Systems -> [Files -> Nat]]
    /\ excused \subseteq Systems \X Files
    /\ stale \subseteq {"DataServer", "HDFSFileSync"}
    /\ lost \subseteq {"DataServer", "HDFSFileSync"}
    /\ faults \in 0 .. MaxFaults

\* At most one writer is inside GetWriteFile, with the file it created open;
\* a thread's open file is the one its count names, or is about to name.
WriterInv ==
    /\ \A s \in Systems : wStream[s] = "open" =>
          /\ wFile[s] \in Files
          /\ wFile[s] = IF wPc[s] = "counting" THEN wCount[s] + 1
                                               ELSE wCount[s]
    /\ \A s \in Systems : wPc[s] # "run" => wStream[s] = "open"
    /\ \A s, t \in Systems : wPc[s] # "run" /\ wPc[t] # "run" => s = t

JobInv == uPc # "pick" => uFile \in Files

Typed == /\ WriterTypeOK /\ UploaderTypeOK /\ StoreTypes
         /\ WriterInv /\ JobInv

\* While DataServer's counts survive: a count file that was written agrees with
\* memory, no file is beyond the one after the count, that one is empty and is
\* not there while the counted one is open, and the uploader is behind.
CountsKept ==
    "DataServer" \notin lost =>
        /\ (\A s \in Systems : wPc[s] # "persist") /\ "DataServer" \notin stale
              => wDisk = wCount
        /\ \A s \in Systems : \A n \in Files :
              /\ n > wCount[s] + 1 => disk[s][n] = NoFile
              /\ n = wCount[s] + 1 => disk[s][n] \in {NoFile, 0}
              /\ n = wCount[s] + 1 /\ wStream[s] = "open" /\ wPc[s] # "counting"
                    => disk[s][n] = NoFile
        /\ uPc # "pick" => /\ uFile <= wCount[uSys]
                           /\ wStream[uSys] = "open" => uFile < wFile[uSys]

\* The last writing of HDFSFileSync's count file went through.
DiskCounts == uPc # "persist" /\ "HDFSFileSync" \notin stale

\* While HDFSFileSync's counts survive: every file begun in HDFS is behind the
\* count, in memory and on disk, and the file about to be sent is not there yet.
UploadsCounted ==
    "HDFSFileSync" \notin lost =>
        /\ \A s \in Systems : \A n \in Files : hdfs[s][n] # NoFile =>
              n < uCount[s] /\ (DiskCounts => n < uDisk[s])
        /\ uPc # "pick" =>
              uFile < uCount[uSys] /\ (DiskCounts => uFile < uDisk[uSys])
        /\ uPc \in {"persist", "open"} => hdfs[uSys][uFile] = NoFile

\* While both survive: a count is of no file, or of one past the first; a file
\* the uploader has passed is one the writer has left;
PassedLeft ==
    lost = {} =>
        /\ \A s \in Systems :
              uCount[s] # 1 /\ uDisk[s] # 1 /\ uDisk[s] <= uCount[s]
        /\ \A s \in Systems : \A n \in 2 .. MaxFile :
              n < uCount[s] => /\ n <= wCount[s]
                               /\ ~ (wStream[s] = "open" /\ wFile[s] = n)
        /\ uPc # "pick" => uFile >= 2 /\ uFile < uCount[uSys]

\* a file left by the writer holds all it was given; what has been sent of the
\* current file is what has been read of it;
CopyExact ==
    /\ uPc \in {"pick", "persist", "open"} => uRead = 0 /\ uSent = 0
    /\ lost = {} =>
        /\ \A s \in Systems : \A n \in Files :
              disk[s][n] # NoFile /\ ~ (wStream[s] = "open" /\ wFile[s] = n)
                  => disk[s][n] = written[s][n]
        /\ uPc \in {"persist", "open", "copy"} =>
              disk[uSys][uFile] # NoFile /\ uRead <= disk[uSys][uFile]
        /\ <<uSys, uFile>> \notin excused =>
              /\ uPc = "copy" => uSent = uRead
              /\ uPc = "close" => uSent = written[uSys][uFile]

-----------------------------------------------------------------------------
(* Type correctness.                                                       *)

\* Storing a value in a matrix of values keeps it one.
LEMMA ExceptTwice ==
  ASSUME NEW S, NEW T, NEW V, NEW f \in [S -> [T -> V]], NEW s, NEW t, NEW v \in V
  PROVE  [f EXCEPT ![s][t] = v] \in [S -> [T -> V]]
  OBVIOUS

LEMMA ExceptTwiceAt ==
  ASSUME NEW S, NEW T, NEW V, NEW f \in [S -> [T -> V]],
         NEW s \in S, NEW t \in T, NEW v
  PROVE  \A a \in S : \A b \in T :
            [f EXCEPT ![s][t] = v][a][b] = IF a = s /\ b = t THEN v ELSE f[a][b]
  OBVIOUS

\* Whether a count file was written or not, the record of it has its type.
LEMMA StaleTyped ==
  ASSUME StoreTypes, NEW p \in {"DataServer", "HDFSFileSync"},
         \/ stale' \in {stale, stale \ {p}} /\ UNCHANGED faults
         \/ CountFileFails(p)
  PROVE  stale' \subseteq {"DataServer", "HDFSFileSync"} /\ faults' \in 0 .. MaxFaults
<1>1. faults' \in 0 .. MaxFaults
  BY BoundsAssumption DEF StoreTypes, CountFileFails, Fault
<1>2. stale' \subseteq {"DataServer", "HDFSFileSync"}
  BY DEF StoreTypes, CountFileFails
<1> QED
  BY <1>1, <1>2

LEMMA InitTyped == Init => Typed
  BY SystemsAssumption, BoundsAssumption
     DEF Init, Typed, WriterTypeOK, UploaderTypeOK, StoreTypes,
         WriterInv, JobInv, EmptyCounts, Files, NoFile

LEMMA NextTyped == Typed /\ [Step]_vars => Typed'
<1> SUFFICES ASSUME Typed, [Step]_vars PROVE Typed'
  OBVIOUS
<1> USE BoundsAssumption DEF Typed, Files, NoFile
<1>1. ASSUME NEW s \in Systems, NEW k \in 1 .. MaxList, WriterAppend(s, k) PROVE Typed'
  <2>1. UploaderTypeOK' /\ JobInv'
    BY <1>1 DEF WriterAppend, Flushed, NotFull, wVars, UploaderTypeOK, JobInv, uVars,
                job
  <2>2. WriterTypeOK' /\ WriterInv'
    BY <1>1 DEF WriterAppend, Flushed, NotFull, wVars, WriterTypeOK, WriterInv
  <2>3. StoreTypes'
    <3>1. wFile[s] \in Files /\ k \in Nat
      BY <1>1 DEF WriterAppend, WriterInv
    <3>2. written' \in [Systems -> [Files -> Nat]]
      <4>1. written' = [written EXCEPT ![s][wFile[s]] = written[s][wFile[s]] + k]
        BY <1>1 DEF WriterAppend
      <4>2. /\ written \in [Systems -> [Files -> Nat]]
            /\ written[s][wFile[s]] + k \in Nat
        BY <3>1 DEF StoreTypes
      <4> QED
        BY ONLY <4>1, <4>2, ExceptTwice
    <3>3. disk' \in [Systems -> [Files -> Nat \union {NoFile}]]
      <4>1. disk \in [Systems -> [Files -> Nat \union {NoFile}]]
        BY DEF StoreTypes
      <4>2. PICK d \in disk[s][wFile[s]] .. written[s][wFile[s]] + k :
               disk' = [disk EXCEPT ![s][wFile[s]] =
                           IF disk[s][wFile[s]] = NoFile THEN NoFile ELSE d]
        BY <1>1 DEF WriterAppend, Flushed
      <4>3. (IF disk[s][wFile[s]] = NoFile THEN NoFile ELSE d) \in Nat \union {NoFile}
        BY <3>1, <4>1, <4>2
      <4> QED
        BY ONLY <4>1, <4>2, <4>3, ExceptTwice
    <3> QED
      BY <1>1, <3>2, <3>3 DEF WriterAppend, StoreTypes
  <2> QED
    BY <2>1, <2>2, <2>3
<1>2. ASSUME NEW s \in Systems, WriterClose(s) PROVE Typed'
  <2>1. UploaderTypeOK' /\ JobInv'
    BY <1>2 DEF WriterClose, Flushed, NotFull, UploaderTypeOK, JobInv, uVars, job
  <2>2. WriterTypeOK' /\ WriterInv'
    BY <1>2 DEF WriterClose, Flushed, NotFull, WriterTypeOK, WriterInv
  <2>3. StoreTypes'
    BY <1>2, SMTT(20) DEF WriterClose, Flushed, NotFull, WriterTypeOK, WriterInv,
                          StoreTypes
  <2> QED
    BY <2>1, <2>2, <2>3
<1>3. ASSUME NEW s \in Systems, WriterCreate(s) PROVE Typed'
  <2>1. UploaderTypeOK' /\ JobInv'
    BY <1>3 DEF WriterCreate, CountMutexFree, UploaderTypeOK, JobInv, uVars, job
  <2>2. WriterTypeOK' /\ WriterInv'
    BY <1>3 DEF WriterCreate, CountMutexFree, WriterTypeOK, WriterInv
  <2>3. StoreTypes'
    BY <1>3, SMTT(20) DEF WriterCreate, CountMutexFree, WriterTypeOK, WriterInv,
                          StoreTypes
  <2> QED
    BY <2>1, <2>2, <2>3
<1>4. ASSUME NEW s \in Systems, WriterCreateFails(s) PROVE Typed'
  <2>1. UploaderTypeOK' /\ JobInv'
    BY <1>4 DEF WriterCreateFails, CountMutexFree, Fault, UploaderTypeOK, JobInv,
                uVars, job
  <2>2. WriterTypeOK' /\ WriterInv'
    BY <1>4 DEF WriterCreateFails, CountMutexFree, Fault, WriterTypeOK, WriterInv
  <2>3. StoreTypes'
    BY <1>4 DEF WriterCreateFails, CountMutexFree, Fault, WriterTypeOK, WriterInv,
                StoreTypes
  <2> QED
    BY <2>1, <2>2, <2>3
<1>5. ASSUME NEW s \in Systems, WriterCountPlus(s) PROVE Typed'
  <2>1. UploaderTypeOK' /\ JobInv'
    BY <1>5 DEF WriterCountPlus, CountFileFails, Fault, EmptyCounts, UploaderTypeOK,
                JobInv, uVars, job
  <2>2. WriterTypeOK' /\ WriterInv'
    BY <1>5 DEF WriterCountPlus, CountFileFails, Fault, EmptyCounts, WriterTypeOK,
                WriterInv
  <2>3. StoreTypes'
    <3>1. \/ stale' \in {stale, stale \ {"DataServer"}} /\ UNCHANGED faults
          \/ CountFileFails("DataServer")
      BY <1>5 DEF WriterCountPlus
    <3>2. stale' \subseteq {"DataServer", "HDFSFileSync"} /\ faults' \in 0 .. MaxFaults
      BY <3>1, StaleTyped
    <3>3. UNCHANGED <<dirs, disk, hdfs, written, excused, lost>>
      BY <1>5 DEF WriterCountPlus
    <3> QED
      BY <3>2, <3>3 DEF StoreTypes
  <2> QED
    BY <2>1, <2>2, <2>3
<1>6. ASSUME NEW s \in Systems, WriterPersist(s) PROVE Typed'
  <2>1. UploaderTypeOK' /\ JobInv'
    BY <1>6 DEF WriterPersist, CountFileFails, Fault, UploaderTypeOK, JobInv, uVars,
                job
  <2>2. WriterTypeOK' /\ WriterInv'
    BY <1>6 DEF WriterPersist, CountFileFails, Fault, WriterTypeOK, WriterInv
  <2>3. StoreTypes'
    <3>1. \/ stale' \in {stale, stale \ {"DataServer"}} /\ UNCHANGED faults
          \/ CountFileFails("DataServer")
      BY <1>6 DEF WriterPersist
    <3>2. stale' \subseteq {"DataServer", "HDFSFileSync"} /\ faults' \in 0 .. MaxFaults
      BY <3>1, StaleTyped
    <3>3. UNCHANGED <<dirs, disk, hdfs, written, excused, lost>>
      BY <1>6 DEF WriterPersist
    <3> QED
      BY <3>2, <3>3 DEF StoreTypes
  <2> QED
    BY <2>1, <2>2, <2>3
<1>7. CASE WriterKill
  <2>1. UploaderTypeOK' /\ JobInv'
    BY <1>7 DEF WriterKill, Fault, UploaderTypeOK, JobInv, uVars, job
  <2>2. WriterTypeOK' /\ WriterInv'
    BY <1>7 DEF WriterKill, Fault, WriterTypeOK, WriterInv
  <2>3. StoreTypes'
    BY <1>7, SMTT(20) DEF WriterKill, Fault, WriterTypeOK, WriterInv, StoreTypes
  <2> QED
    BY <2>1, <2>2, <2>3
<1>8. CASE Scan
  <2>1. WriterTypeOK' /\ WriterInv'
    BY <1>8, KeysAssumption DEF Scan, WriterTypeOK, WriterInv, wVars
  <2>2. UploaderTypeOK' /\ JobInv'
    <3>1. KeysInOrder[{s \in Systems : uCount'[s] # 0}] \in Seq(Systems)
      <4>1. {s \in Systems : uCount'[s] # 0} \in SUBSET Systems
        OBVIOUS
      <4> QED
        BY <4>1, KeysAssumption
    <3>2. uQueue' \in Seq(Systems)
      BY <3>1, <1>8 DEF Scan
    <3>3. uCount' \in [Systems -> Nat]
      BY <1>8 DEF Scan, UploaderTypeOK
    <3> QED
      BY <3>2, <3>3, <1>8 DEF Scan, UploaderTypeOK, JobInv, job
  <2>3. StoreTypes'
    BY <1>8, KeysAssumption DEF Scan, UploaderTypeOK, JobInv, StoreTypes
  <2> QED
    BY <2>1, <2>2, <2>3
<1>9. ASSUME NEW s \in Systems, TakeNothing(s) PROVE Typed'
  <2>1. WriterTypeOK' /\ WriterInv'
    BY <1>9 DEF TakeNothing, NextSystem, WriterTypeOK, WriterInv, wVars
  <2>2. UploaderTypeOK' /\ JobInv'
    BY <1>9 DEF TakeNothing, NextSystem, UploaderTypeOK, JobInv, job
  <2>3. StoreTypes'
    BY <1>9 DEF TakeNothing, NextSystem, UploaderTypeOK, JobInv, StoreTypes
  <2> QED
    BY <2>1, <2>2, <2>3
<1>10. ASSUME NEW s \in Systems, TakeFile(s) PROVE Typed'
  <2>1. WriterTypeOK' /\ WriterInv'
    BY <1>10 DEF TakeFile, CountFileFails, Fault, NextSystem, Takeable, Readable,
                 EmptyCounts, WriterTypeOK, WriterInv, wVars
  <2>2. UploaderTypeOK' /\ JobInv'
    BY <1>10, SMTT(20) DEF TakeFile, CountFileFails, Fault, NextSystem, Takeable,
                           Readable, EmptyCounts, UploaderTypeOK, JobInv, job
  <2>3. StoreTypes'
    <3>1. \/ stale' \in {stale, stale \ {"HDFSFileSync"}} /\ UNCHANGED faults
          \/ CountFileFails("HDFSFileSync")
      BY <1>10 DEF TakeFile
    <3>2. stale' \subseteq {"DataServer", "HDFSFileSync"} /\ faults' \in 0 .. MaxFaults
      BY <3>1, StaleTyped
    <3>3. UNCHANGED <<dirs, disk, hdfs, written, excused, lost>>
      BY <1>10 DEF TakeFile
    <3> QED
      BY <3>2, <3>3 DEF StoreTypes
  <2> QED
    BY <2>1, <2>2, <2>3
<1>11. CASE UploaderPersist
  <2>1. WriterTypeOK' /\ WriterInv'
    BY <1>11 DEF UploaderPersist, CountFileFails, Fault, WriterTypeOK, WriterInv,
                 wVars
  <2>2. UploaderTypeOK' /\ JobInv'
    BY <1>11 DEF UploaderPersist, CountFileFails, Fault, UploaderTypeOK, JobInv, job
  <2>3. StoreTypes'
    <3>1. \/ stale' \in {stale, stale \ {"HDFSFileSync"}} /\ UNCHANGED faults
          \/ CountFileFails("HDFSFileSync")
      BY <1>11 DEF UploaderPersist
    <3>2. stale' \subseteq {"DataServer", "HDFSFileSync"} /\ faults' \in 0 .. MaxFaults
      BY <3>1, StaleTyped
    <3>3. UNCHANGED <<dirs, disk, hdfs, written, excused, lost>>
      BY <1>11 DEF UploaderPersist
    <3> QED
      BY <3>2, <3>3 DEF StoreTypes
  <2> QED
    BY <2>1, <2>2, <2>3
<1>12. CASE OpenHdfs
  <2>1. WriterTypeOK' /\ WriterInv'
    BY <1>12 DEF OpenHdfs, WriterTypeOK, WriterInv, wVars
  <2>2. UploaderTypeOK' /\ JobInv'
    BY <1>12 DEF OpenHdfs, UploaderTypeOK, JobInv, job
  <2>3. StoreTypes'
    BY <1>12 DEF OpenHdfs, UploaderTypeOK, JobInv, StoreTypes
  <2> QED
    BY <2>1, <2>2, <2>3
<1>13. CASE OpenHdfsFails
  <2>1. WriterTypeOK' /\ WriterInv'
    BY <1>13 DEF OpenHdfsFails, Fault, IdleJob, WriterTypeOK, WriterInv, wVars
  <2>2. UploaderTypeOK' /\ JobInv'
    BY <1>13 DEF OpenHdfsFails, Fault, IdleJob, UploaderTypeOK, JobInv, job
  <2>3. StoreTypes'
    BY <1>13 DEF OpenHdfsFails, Fault, IdleJob, UploaderTypeOK, JobInv, StoreTypes
  <2> QED
    BY <2>1, <2>2, <2>3
<1>14. CASE CopyChunk
  <2>1. WriterTypeOK' /\ WriterInv'
    BY <1>14 DEF CopyChunk, Fault, WriterTypeOK, WriterInv, wVars
  <2>2. UploaderTypeOK' /\ JobInv'
    <3>1. disk[uSys][uFile] \in Nat \union {NoFile} /\ uRead \in Nat
      BY <1>14 DEF CopyChunk, UploaderTypeOK, StoreTypes, JobInv
    <3>2. uRead' \in Nat /\ uSent' \in Nat
      BY <1>14, <3>1 DEF CopyChunk, UploaderTypeOK
    <3> QED
      BY <1>14, <3>2 DEF CopyChunk, UploaderTypeOK, JobInv
  <2>3. StoreTypes'
    <3>1. <<uSys, uFile>> \in Systems \X Files
      BY <1>14 DEF CopyChunk, UploaderTypeOK, JobInv
    <3>2. excused' \subseteq Systems \X Files
      BY <1>14, <3>1 DEF CopyChunk, StoreTypes
    <3>3. faults' \in 0 .. MaxFaults
      BY <1>14 DEF CopyChunk, Fault, StoreTypes
    <3> QED
      BY <1>14, <3>2, <3>3 DEF CopyChunk, StoreTypes
  <2> QED
    BY <2>1, <2>2, <2>3
<1>15. CASE RemoveLocal
  <2>1. WriterTypeOK' /\ WriterInv'
    BY <1>15 DEF RemoveLocal, Fault, WriterTypeOK, WriterInv, wVars
  <2>2. UploaderTypeOK' /\ JobInv'
    BY <1>15 DEF RemoveLocal, Fault, UploaderTypeOK, JobInv, job
  <2>3. StoreTypes'
    <3>1. disk' \in [Systems -> [Files -> Nat \union {NoFile}]]
      <4>1. [disk EXCEPT ![uSys][uFile] = NoFile]
               \in [Systems -> [Files -> Nat \union {NoFile}]]
        BY ExceptTwice DEF StoreTypes
      <4> QED
        BY <1>15, <4>1 DEF RemoveLocal, StoreTypes
    <3>2. faults' \in 0 .. MaxFaults
      <4>1. Fault \/ UNCHANGED faults
        BY <1>15 DEF RemoveLocal
      <4> QED
        BY <4>1 DEF Fault, StoreTypes
    <3> QED
      BY <1>15, <3>1, <3>2 DEF RemoveLocal, StoreTypes
  <2> QED
    BY <2>1, <2>2, <2>3
<1>16. CASE CloseHdfs
  <2>1. WriterTypeOK' /\ WriterInv'
    BY <1>16 DEF CloseHdfs, Fault, IdleJob, WriterTypeOK, WriterInv, wVars
  <2>2. UploaderTypeOK' /\ JobInv'
    BY <1>16 DEF CloseHdfs, Fault, IdleJob, UploaderTypeOK, JobInv, job
  <2>3. StoreTypes'
    <3>1. \A k \in 0 .. uSent :
             [hdfs EXCEPT ![uSys][uFile] = k]
                \in [Systems -> [Files -> Nat \union {NoFile}]]
      <4> TAKE k \in 0 .. uSent
      <4>1. k \in Nat \union {NoFile}
        BY DEF UploaderTypeOK
      <4>2. hdfs \in [Systems -> [Files -> Nat \union {NoFile}]]
        BY DEF StoreTypes
      <4> QED
        BY ONLY <4>1, <4>2, ExceptTwice
    <3>2. hdfs' \in [Systems -> [Files -> Nat \union {NoFile}]]
      <4>0. uSent \in 0 .. uSent
        BY DEF UploaderTypeOK
      <4>1. \/ hdfs' = hdfs
            \/ \E k \in 0 .. uSent : hdfs' = [hdfs EXCEPT ![uSys][uFile] = k]
        BY ONLY <1>16, <4>0, SMTT(20) DEF CloseHdfs
      <4>2. hdfs \in [Systems -> [Files -> Nat \union {NoFile}]]
        BY DEF StoreTypes
      <4> QED
        BY ONLY <3>1, <4>1, <4>2
    <3>3. excused' \subseteq Systems \X Files
      <4>1. uPc # "pick" => <<uSys, uFile>> \in Systems \X Files
        BY DEF UploaderTypeOK, JobInv
      <4> QED
        BY <1>16, <4>1 DEF CloseHdfs, StoreTypes
    <3>4. faults' \in 0 .. MaxFaults
      BY <1>16 DEF CloseHdfs, Fault, StoreTypes
    <3> QED
      BY <1>16, <3>2, <3>3, <3>4 DEF CloseHdfs, StoreTypes
  <2> QED
    BY <2>1, <2>2, <2>3
<1>17. CASE UploaderKill
  <2>1. WriterTypeOK' /\ WriterInv'
    BY <1>17 DEF UploaderKill, Fault, IdleJob, WriterTypeOK, WriterInv, wVars
  <2>2. UploaderTypeOK' /\ JobInv'
    BY <1>17 DEF UploaderKill, Fault, IdleJob, UploaderTypeOK, JobInv, job
  <2>3. StoreTypes'
    <3>1. \A k \in 0 .. uSent :
             [hdfs EXCEPT ![uSys][uFile] = k]
                \in [Systems -> [Files -> Nat \union {NoFile}]]
      <4> TAKE k \in 0 .. uSent
      <4>1. k \in Nat \union {NoFile}
        BY DEF UploaderTypeOK
      <4>2. hdfs \in [Systems -> [Files -> Nat \union {NoFile}]]
        BY DEF StoreTypes
      <4> QED
        BY ONLY <4>1, <4>2, ExceptTwice
    <3>2. hdfs' \in [Systems -> [Files -> Nat \union {NoFile}]]
      <4>1. \/ hdfs' = hdfs
            \/ \E k \in 0 .. uSent : hdfs' = [hdfs EXCEPT ![uSys][uFile] = k]
        BY <1>17 DEF UploaderKill, UploaderTypeOK
      <4>2. hdfs \in [Systems -> [Files -> Nat \union {NoFile}]]
        BY DEF StoreTypes
      <4> QED
        BY ONLY <3>1, <4>1, <4>2
    <3>3. excused' \subseteq Systems \X Files
      <4>1. uPc # "pick" => <<uSys, uFile>> \in Systems \X Files
        BY DEF UploaderTypeOK, JobInv
      <4> QED
        BY <1>17, <4>1 DEF UploaderKill, StoreTypes
    <3>4. faults' \in 0 .. MaxFaults
      BY <1>17 DEF UploaderKill, Fault, StoreTypes
    <3> QED
      BY <1>17, <3>2, <3>3, <3>4 DEF UploaderKill, StoreTypes
  <2> QED
    BY <2>1, <2>2, <2>3
<1>18. CASE UNCHANGED vars
  BY <1>18 DEF vars, wVars, uVars, job, WriterTypeOK, WriterInv,
               UploaderTypeOK, JobInv, StoreTypes
<1> QED
  BY <1>1, <1>2, <1>3, <1>4, <1>5, <1>6, <1>7, <1>8, <1>9, <1>10, <1>11,
     <1>12, <1>13, <1>14, <1>15, <1>16, <1>17, <1>18
     DEF Step, StepOfWriter, Upload

\* Removing a local file leaves every file as it was or gone.
LEMMA RemoveEffect ==
  ASSUME Typed, RemoveLocal
  PROVE  \A a \in Systems : \A b \in Files :
            disk'[a][b] = disk[a][b] \/ disk'[a][b] = NoFile
<1>1. \/ disk' = disk
      \/ disk' = [disk EXCEPT ![uSys][uFile] = NoFile]
  BY DEF RemoveLocal
<1>2. uSys \in Systems /\ uFile \in Files
  BY DEF RemoveLocal, Typed, UploaderTypeOK, JobInv
<1>3. disk \in [Systems -> [Files -> Nat \union {NoFile}]]
  BY DEF Typed, StoreTypes
<1> QED
  BY <1>1, <1>2, <1>3

LEMMA SpecTyped == PackSpec => []Typed
  BY InitTyped, NextTyped, PackNextIsStep, PTL DEF PackSpec

-----------------------------------------------------------------------------
(* The size of a file.                                                     *)

\* No file is longer than size, in either file system, and neither is what has
\* been read or sent of the file in hand.
Within(size) ==
    /\ \A s \in Systems : \A n \in Files :
          /\ written[s][n] <= size /\ disk[s][n] <= size /\ hdfs[s][n] <= size
    /\ uRead <= size /\ uSent <= uRead

LEMMA InitWithin ==
  ASSUME NEW CONSTANT size \in Nat, Init
  PROVE  Within(size)
  BY DEF Init, Within, NoFile

\* A writer that found its file below MaxFileSize passes it by less than what it
\* had to write.
LEMMA AppendWithin ==
  ASSUME NEW CONSTANT size \in Nat, Typed, Within(size),
         NEW s \in Systems, NEW k \in Nat, WriterAppend(s, k),
         MaxFileSize + k <= size + 1
  PROVE  Within(size)'
<1>1. /\ wFile[s] \in Files /\ written[s][wFile[s]] < MaxFileSize
      /\ written \in [Systems -> [Files -> Nat]]
      /\ disk \in [Systems -> [Files -> Nat \union {NoFile}]]
  BY DEF Typed, StoreTypes, WriterInv, WriterAppend, NotFull
<1>2. PICK d \in disk[s][wFile[s]] .. written[s][wFile[s]] + k :
         disk' = [disk EXCEPT ![s][wFile[s]] = IF disk[s][wFile[s]] = NoFile THEN NoFile ELSE d]
  BY <1>1 DEF WriterAppend, Flushed
<1>3. written' = [written EXCEPT ![s][wFile[s]] = written[s][wFile[s]] + k]
  BY <1>1 DEF WriterAppend
<1>4. written[s][wFile[s]] + k <= size /\ d <= size /\ NoFile <= size
  BY <1>1, <1>2, BoundsAssumption DEF NoFile
<1>5. \A a \in Systems : \A b \in Files :
         written'[a][b] <= size /\ disk'[a][b] <= size
  BY <1>1, <1>2, <1>3, <1>4, ExceptTwiceAt DEF Within
<1> QED
  BY <1>5 DEF Within, WriterAppend, uVars, job

\* The steps that write nothing.
Rest == \/ \E s \in Systems : \/ WriterClose(s) \/ WriterCreate(s)
                              \/ WriterCreateFails(s)
                              \/ WriterCountPlus(s) \/ WriterPersist(s)
        \/ WriterKill
        \/ Scan \/ Upload
        \/ UploaderKill

LEMMA RestWithin ==
  ASSUME NEW CONSTANT size \in Nat, Typed, Within(size), Rest \/ UNCHANGED vars
  PROVE  Within(size)'
<1>a. /\ written \in [Systems -> [Files -> Nat]]
      /\ disk \in [Systems -> [Files -> Nat \union {NoFile}]]
      /\ hdfs \in [Systems -> [Files -> Nat \union {NoFile}]]
      /\ uSys \in Systems /\ uFile \in Nat /\ uRead \in Nat /\ uSent \in Nat
      /\ uPc # "pick" => uFile \in Files
  BY DEF Typed, StoreTypes, UploaderTypeOK, JobInv
<1>b. NoFile <= size /\ 0 <= size /\ NoFile \in Int
  BY DEF NoFile
<1>c. uSent <= size
  BY <1>a DEF Within
<1>1. ASSUME NEW s \in Systems, WriterClose(s) PROVE Within(size)'
  <2>1. wFile[s] \in Files
    BY <1>1 DEF WriterClose, Typed, WriterInv
  <2>2. disk' = [disk EXCEPT ![s][wFile[s]] =
           IF disk[s][wFile[s]] = NoFile THEN NoFile ELSE written[s][wFile[s]]]
    BY <1>1, <1>a, <2>1 DEF WriterClose, Flushed
  <2>3. \A a \in Systems : \A b \in Files : disk'[a][b] <= size
    BY <1>a, <1>b, <2>1, <2>2, ExceptTwiceAt DEF Within
  <2> QED
    BY <1>1, <2>3 DEF WriterClose, uVars, job, Within
<1>2. ASSUME NEW s \in Systems, WriterCreate(s) PROVE Within(size)'
  BY <1>2, <1>a, <1>b DEF WriterCreate, uVars, job, Within
<1>3. CASE WriterKill
  <2>1. \A a \in Systems : \A b \in Files :
           written'[a][b] = disk[a][b] \/ written'[a][b] = written[a][b]
    BY <1>3 DEF WriterKill
  <2> QED
    BY <1>3, <2>1 DEF WriterKill, uVars, job, Within
<1>4. CASE OpenHdfs
  BY <1>4, <1>a, <1>b DEF OpenHdfs, Within
<1>5. CASE CopyChunk
  <2>1. /\ uRead < disk[uSys][uFile]
        /\ \/ uRead' = uRead + 1 /\ uSent' = uSent + 1
           \/ uRead' \in {uRead + 1, disk[uSys][uFile]} /\ uSent' = uSent
        /\ UNCHANGED <<disk, hdfs, written>>
    BY <1>5 DEF CopyChunk
  <2>2. disk[uSys][uFile] \in Int /\ disk[uSys][uFile] <= size
    BY <1>5, <1>a, <1>b DEF CopyChunk, Within
  <2>3. uRead' <= size /\ uSent' <= uRead'
    BY <2>1, <2>2, <1>a DEF Within
  <2> QED
    BY <2>1, <2>3 DEF Within
<1>6. CASE RemoveLocal
  <2>1. \A a \in Systems : \A b \in Files :
           disk'[a][b] = disk[a][b] \/ disk'[a][b] = NoFile
    BY <1>6, RemoveEffect
  <2> QED
    BY <1>6, <2>1, <1>b DEF RemoveLocal, Within
<1>7. CASE CloseHdfs \/ UploaderKill
  <2>1. \/ UNCHANGED hdfs
        \/ /\ uPc # "pick"
           /\ \E k \in 0 .. uSent : hdfs' = [hdfs EXCEPT ![uSys][uFile] = k]
    <3>1. CASE CloseHdfs
      BY <3>1, <1>a, SMTT(30) DEF CloseHdfs
    <3>2. CASE UploaderKill
      BY <3>2 DEF UploaderKill
    <3> QED
      BY <1>7, <3>1, <3>2
  <2>2. \A a \in Systems : \A b \in Files : hdfs'[a][b] <= size
    <3>1. CASE UNCHANGED hdfs
      BY <3>1 DEF Within
    <3>2. ASSUME uPc # "pick", NEW k \in 0 .. uSent, hdfs' = [hdfs EXCEPT ![uSys][uFile] = k]
          PROVE  \A a \in Systems : \A b \in Files : hdfs'[a][b] <= size
      <4>1. k <= size /\ uFile \in Files
        BY <3>2, <1>a, <1>c
      <4> QED
        BY <3>2, <4>1, <1>a, ExceptTwiceAt DEF Within
    <3> QED
      BY <2>1, <3>1, <3>2
  <2>3. uRead' = 0 /\ uSent' = 0 /\ UNCHANGED <<disk, written>>
    BY <1>7 DEF CloseHdfs, UploaderKill, IdleJob
  <2> QED
    BY <2>2, <2>3 DEF Within
<1>8. CASE OpenHdfsFails
  BY <1>8 DEF OpenHdfsFails, IdleJob, Within
<1>9. CASE UNCHANGED <<written, disk, hdfs, uRead, uSent>>
  BY <1>9 DEF Within
<1> QED
  <2>1. ASSUME NEW s \in Systems,
               WriterCreateFails(s) \/ WriterCountPlus(s) \/ WriterPersist(s)
        PROVE  UNCHANGED <<written, disk, hdfs, uRead, uSent>>
    BY <2>1 DEF WriterCreateFails, WriterCountPlus, CountFileFails, Fault,
                WriterPersist, uVars, job
  <2>2. ASSUME NEW s \in Systems, TakeNothing(s) \/ TakeFile(s)
        PROVE  UNCHANGED <<written, disk, hdfs, uRead, uSent>>
    BY <2>2 DEF TakeNothing, TakeFile, CountFileFails, Fault, job
  <2>3. Scan \/ UploaderPersist \/ UNCHANGED vars
        => UNCHANGED <<written, disk, hdfs, uRead, uSent>>
    BY DEF Scan, UploaderPersist, CountFileFails, Fault, vars, uVars, job
  <2> QED
    BY <1>1, <1>2, <1>3, <1>4, <1>5, <1>6, <1>7, <1>8, <1>9, <2>1, <2>2, <2>3
       DEF Rest, Upload

\* Every variable keeps its type, whatever the bounds and the number of systems:
\* a file whose size is tested before each chunk never passes MaxFileSize.
THEOREM TypeCorrect == Spec => []TypeOK
<1>1. Init => Within(MaxFileSize)
  BY InitWithin, BoundsAssumption
<1>2. Typed /\ Within(MaxFileSize) /\ [Next]_vars => Within(MaxFileSize)'
  <2> SUFFICES ASSUME Typed, Within(MaxFileSize), [Next]_vars
               PROVE  Within(MaxFileSize)'
    OBVIOUS
  <2>1. ASSUME NEW s \in Systems, WriterWrite(s) PROVE Within(MaxFileSize)'
    BY <2>1, AppendWithin, BoundsAssumption DEF WriterWrite
  <2>2. Next => Rest \/ \E s \in Systems : WriterWrite(s)
    BY DEF Next, Writer, Rest
  <2> QED
    BY <2>1, <2>2, RestWithin, BoundsAssumption
<1>3. Typed /\ Within(MaxFileSize) => TypeOK
  BY BoundsAssumption DEF Typed, Within, TypeOK, StoreTypes, StoreTypeOK, NoFile
<1>4. Spec => []Typed
  BY BufferIsList, SpecTyped, PTL
<1> QED
  BY <1>1, <1>2, <1>3, <1>4, PTL DEF Spec

\* However long a list, and whatever is killed, a file passes MaxFileSize by less
\* than one list, in both file systems.
THEOREM SizeKept == PackSpec => []SizeBounded
<1> DEFINE most == MaxFileSize + MaxList - 1
<1>1. most \in Nat
  BY BoundsAssumption, MaxListAssumption
<1> HIDE DEF most
<1>2. Init => Within(most)
  BY <1>1, InitWithin
<1>3. Typed /\ Within(most) /\ [Step]_vars => Within(most)'
  <2> SUFFICES ASSUME Typed, Within(most), [Step]_vars PROVE Within(most)'
    OBVIOUS
  <2>1. ASSUME NEW s \in Systems, NEW k \in 1 .. MaxList, WriterAppend(s, k)
        PROVE  Within(most)'
    <3>1. k \in Nat /\ MaxFileSize + k <= most + 1
      BY BoundsAssumption, MaxListAssumption DEF most
    <3> QED
      BY <1>1, <2>1, <3>1, AppendWithin
  <2>2. Step => \/ Rest
                \/ \E s \in Systems : \E k \in 1 .. MaxList : WriterAppend(s, k)
    BY DEF Step, StepOfWriter, Rest
  <2> QED
    BY <1>1, <2>1, <2>2, RestWithin
<1>4. Typed /\ Within(most) => SizeBounded
  BY BoundsAssumption, MaxListAssumption
     DEF most, Typed, StoreTypes, Within, SizeBounded, NoFile
<1> QED
  BY <1>2, <1>3, <1>4, SpecTyped, PackNextIsStep, PTL DEF PackSpec

-----------------------------------------------------------------------------
(* The uploader stays off the file a writer has open.                      *)

\* A file that can be taken is behind the one the writer has open.
LEMMA TakeableBehind ==
  ASSUME Typed, CountsKept, "DataServer" \notin lost,
         NEW s \in Systems, Takeable(s)
  PROVE  /\ uCount[s] <= wCount[s]
         /\ wStream[s] = "open" => uCount[s] < wFile[s]
<1>1. /\ uCount[s] \in Files /\ uCount[s] + 1 \in Files
      /\ disk[s][uCount[s] + 1] # NoFile
  BY DEF Takeable, Readable
<1>2. WriterTypeOK /\ WriterInv
  BY DEF Typed
<1> QED
  BY <1>1, <1>2 DEF CountsKept, WriterTypeOK, WriterInv, Files, NoFile

LEMMA InitCountsKept == Init => CountsKept
  BY DEF Init, CountsKept, EmptyCounts, Files, NoFile

LEMMA NextCountsKept == Typed /\ Typed' /\ CountsKept /\ [Step]_vars => CountsKept'
<1> SUFFICES ASSUME Typed, Typed', CountsKept, [Step]_vars,
                    "DataServer" \notin lost'
             PROVE  CountsKept'
  BY DEF CountsKept
<1> USE DEF Files, NoFile
<1>a. /\ uSys \in Systems /\ uFile \in Nat /\ uCount \in [Systems -> Nat]
      /\ uSys' \in Systems
  BY DEF Typed, UploaderTypeOK
<1>b. WriterTypeOK /\ WriterInv /\ StoreTypes /\ WriterInv'
  BY DEF Typed
<1>c. "DataServer" \notin lost
  BY <1>b DEF Step, StepOfWriter, Upload, vars, WriterAppend, WriterClose,
              WriterCreate, WriterCreateFails, WriterCountPlus, CountFileFails, Fault,
              WriterPersist, WriterKill, Scan, TakeNothing, TakeFile, UploaderPersist,
              OpenHdfs, OpenHdfsFails, CopyChunk, RemoveLocal, CloseHdfs,
              UploaderKill
<1>1. ASSUME NEW s \in Systems, NEW k \in 1 .. MaxList, WriterAppend(s, k) PROVE CountsKept'
  <2>1. wFile[s] = wCount[s] /\ wFile[s] \in Files
    BY <1>b, <1>1 DEF WriterAppend, WriterInv
  <2>2. \A a \in Systems : \A b \in Files :
           disk'[a][b] # disk[a][b] => a = s /\ b = wCount[s]
    <3>1. PICK d : disk' = [disk EXCEPT ![s][wFile[s]] = d]
      BY <1>1 DEF WriterAppend, Flushed
    <3>2. disk \in [Systems -> [Files -> Nat \union {NoFile}]]
      BY <1>b DEF StoreTypes
    <3> QED
      BY ONLY <2>1, <3>1, <3>2, ExceptTwiceAt
  <2> QED
    BY <1>a, <1>b, <1>c, <1>1, <2>2, SMTT(20)
       DEF WriterAppend, wVars, uVars, job, CountsKept, WriterTypeOK
<1>2. ASSUME NEW s \in Systems, WriterClose(s) PROVE CountsKept'
  <2>1. wFile[s] = wCount[s] /\ wFile[s] \in Files
    BY <1>b, <1>2 DEF WriterClose, WriterInv
  <2>2. \A a \in Systems : \A b \in Files :
           disk'[a][b] # disk[a][b] => a = s /\ b = wCount[s]
    <3>1. PICK d : disk' = [disk EXCEPT ![s][wFile[s]] = d]
      BY <1>2 DEF WriterClose, Flushed
    <3>2. disk \in [Systems -> [Files -> Nat \union {NoFile}]]
      BY <1>b DEF StoreTypes
    <3> QED
      BY ONLY <2>1, <3>1, <3>2, ExceptTwiceAt
  <2> QED
    BY <1>a, <1>b, <1>c, <1>2, <2>2, SMTT(20)
       DEF WriterClose, wVars, uVars, job, CountsKept, WriterTypeOK
<1>3. ASSUME NEW s \in Systems, WriterCreate(s) PROVE CountsKept'
  <2>1. wCount[s] \in Nat /\ wCount[s] + 1 \in Files
    BY <1>b, <1>3 DEF WriterCreate, WriterTypeOK
  <2>2. \A a \in Systems : \A b \in Files :
           disk'[a][b] = IF a = s /\ b = wCount[s] + 1 THEN 0 ELSE disk[a][b]
    <3>1. disk' = [disk EXCEPT ![s][wCount[s] + 1] = 0]
      BY <1>3 DEF WriterCreate
    <3>2. disk \in [Systems -> [Files -> Nat \union {NoFile}]]
      BY <1>b DEF StoreTypes
    <3> QED
      BY <2>1, <3>1, <3>2
  <2>3. /\ wCount' = wCount /\ wDisk' = wDisk /\ uPc' = uPc /\ uFile' = uFile
        /\ uSys' = uSys /\ stale' = stale
        /\ wStream' = [wStream EXCEPT ![s] = "open"]
        /\ wFile' = [wFile EXCEPT ![s] = wCount[s] + 1]
        /\ wPc' = [wPc EXCEPT ![s] = "counting"]
        /\ \A a \in Systems : wPc[a] = "run"
    BY <1>3 DEF WriterCreate, CountMutexFree, uVars, job
  <2> QED
    BY <1>a, <1>b, <1>c, <2>1, <2>2, <2>3, SMTT(20) DEF CountsKept, WriterTypeOK
<1>4. ASSUME NEW s \in Systems, WriterCreateFails(s) PROVE CountsKept'
  BY <1>a, <1>b, <1>c, <1>4
     DEF WriterCreateFails, CountMutexFree, uVars, job, CountsKept, WriterTypeOK,
         WriterInv, StoreTypes
<1>5. ASSUME NEW s \in Systems, WriterCountPlus(s) PROVE CountsKept'
  <2>1. wPc'[s] = "persist" \/ "DataServer" \in stale'
    BY <1>b, <1>5 DEF WriterCountPlus, CountFileFails, WriterTypeOK
  <2>2. /\ wPc[s] = "counting" /\ wCount' = [wCount EXCEPT ![s] = wCount[s] + 1]
        /\ \A a \in Systems : a # s => wPc'[a] = wPc[a]
        /\ wPc'[s] # "counting"
        /\ UNCHANGED <<wStream, wFile, disk, uPc, uSys, uFile>>
    BY <1>b, <1>5 DEF WriterCountPlus, CountFileFails, WriterTypeOK, uVars, job
  <2>3. wStream[s] = "open" /\ wFile[s] = wCount[s] + 1 /\ wCount[s] \in Nat
    BY <1>b, <2>2 DEF WriterInv, WriterTypeOK
  <2>4. \A a \in Systems : wCount'[a] = IF a = s THEN wCount[s] + 1 ELSE wCount[a]
    BY <1>b, <2>2 DEF WriterTypeOK
  <2> QED
    <3>1. ~ (\A a \in Systems : wPc'[a] # "persist") \/ "DataServer" \in stale'
      BY <2>1
    <3>2. ASSUME NEW a \in Systems, NEW n \in Files
          PROVE  /\ n > wCount'[a] + 1 => disk[a][n] = NoFile
                 /\ n = wCount'[a] + 1 => disk[a][n] \in {NoFile, 0}
                 /\ n = wCount'[a] + 1 /\ wStream[a] = "open" /\ wPc'[a] # "counting"
                       => disk[a][n] = NoFile
      <4>1. CASE a = s
        <5>1. wCount'[a] = wCount[s] + 1 /\ n \in Nat
          BY <4>1, <2>4
        <5>2. n > wCount[s] + 1 => disk[s][n] = NoFile
          BY <1>c DEF CountsKept
        <5> QED
          BY ONLY <4>1, <5>1, <5>2, <2>3
      <4>2. CASE a # s
        <5>1. wCount'[a] = wCount[a] /\ wPc'[a] = wPc[a]
          BY <4>2, <2>2, <2>4
        <5> QED
          BY <5>1, <1>c DEF CountsKept
      <4> QED
        BY <4>1, <4>2
    <3>3. uPc # "pick" => /\ uFile <= wCount'[uSys]
                          /\ wStream[uSys] = "open" => uFile < wFile[uSys]
      <4>1. wCount[uSys] \in Nat
        BY <1>a, <1>b DEF WriterTypeOK
      <4> QED
        BY <4>1, <1>a, <1>c, <2>3, <2>4 DEF CountsKept
    <3> QED
      BY <2>2, <3>1, <3>2, <3>3 DEF CountsKept
<1>6. ASSUME NEW s \in Systems, WriterPersist(s) PROVE CountsKept'
  BY <1>a, <1>b, <1>c, <1>6 DEF WriterPersist, CountFileFails, Fault, uVars, job,
                                CountsKept, WriterTypeOK, WriterInv, StoreTypes
<1>7. CASE WriterKill
  BY <1>a, <1>b, <1>c, <1>7
     DEF WriterKill, uVars, job, CountsKept, WriterTypeOK, WriterInv, StoreTypes
<1>8. CASE Scan
  BY <1>a, <1>b, <1>c, <1>8
     DEF Scan, wVars, job, CountsKept, WriterTypeOK, WriterInv, StoreTypes
<1>9. ASSUME NEW s \in Systems, TakeNothing(s) PROVE CountsKept'
  <2>1. UNCHANGED <<wCount, wDisk, wStream, wFile, wPc, uPc, uSys, uFile, disk, stale>>
    BY <1>9 DEF TakeNothing, wVars, job
  <2> QED
    BY <1>c, <2>1 DEF CountsKept
<1>10. ASSUME NEW s \in Systems, TakeFile(s) PROVE CountsKept'
  <2>1. /\ uSys' = s /\ uFile' = uCount[s] /\ uCount[s] \in Files
        /\ uCount[s] + 1 \in Files /\ disk[s][uCount[s] + 1] # NoFile
        /\ UNCHANGED <<wVars, disk>>
        /\ "DataServer" \notin stale' => "DataServer" \notin stale
    BY <1>10 DEF TakeFile, CountFileFails, Fault, Takeable, Readable
  <2>2. /\ uCount[s] <= wCount[s]
        /\ wStream[s] = "open" => uCount[s] < wFile[s]
    BY <1>10, <1>c, TakeableBehind DEF TakeFile, CountFileFails, Fault
  <2> QED
    BY <1>c, <2>1, <2>2 DEF CountsKept, wVars
<1>11. CASE UploaderPersist
  BY <1>a, <1>b, <1>c, <1>11 DEF UploaderPersist, CountFileFails, Fault, wVars,
                                 CountsKept, WriterTypeOK, WriterInv, StoreTypes
<1>12. CASE OpenHdfs
  BY <1>a, <1>b, <1>c, <1>12
     DEF OpenHdfs, wVars, CountsKept, WriterTypeOK, WriterInv, StoreTypes
<1>13. CASE OpenHdfsFails
  BY <1>a, <1>b, <1>c, <1>13
     DEF OpenHdfsFails, IdleJob, wVars, CountsKept, WriterTypeOK, WriterInv,
         StoreTypes
<1>14. CASE CopyChunk
  BY <1>a, <1>b, <1>c, <1>14
     DEF CopyChunk, wVars, CountsKept, WriterTypeOK, WriterInv, StoreTypes
<1>15. CASE RemoveLocal
  BY <1>a, <1>b, <1>c, <1>15, RemoveEffect DEF RemoveLocal, wVars, CountsKept
<1>16. CASE CloseHdfs
  BY <1>a, <1>b, <1>c, <1>16
     DEF CloseHdfs, IdleJob, wVars, CountsKept, WriterTypeOK, WriterInv, StoreTypes
<1>17. CASE UploaderKill
  BY <1>a, <1>b, <1>c, <1>17
     DEF UploaderKill, IdleJob, wVars, CountsKept, WriterTypeOK, WriterInv, StoreTypes
<1>18. CASE UNCHANGED vars
  BY <1>18 DEF vars, wVars, uVars, job, CountsKept
<1> QED
  BY <1>1, <1>2, <1>3, <1>4, <1>5, <1>6, <1>7, <1>8, <1>9, <1>10, <1>11,
     <1>12, <1>13, <1>14, <1>15, <1>16, <1>17, <1>18
     DEF Step, StepOfWriter, Upload

LEMMA SpecCountsKept == PackSpec => [](Typed /\ CountsKept)
<1>1. Init => Typed /\ CountsKept
  BY InitTyped, InitCountsKept
<1>2. Typed /\ CountsKept /\ [Step]_vars => (Typed /\ CountsKept)'
  BY NextTyped, NextCountsKept
<1> QED
  BY <1>1, <1>2, PackNextIsStep, PTL DEF PackSpec

\* However the writers, the uploader and the kills interleave, the uploader never
\* has in hand the file a writer thread has open, as long as no kill and no error
\* has left DataServer's count file empty or old.
THEOREM UploaderExclusive == PackSpec => []Exclusive
<1>1. Typed /\ CountsKept => Exclusive
  BY DEF Typed, WriterTypeOK, UploaderTypeOK, WriterInv, CountsKept,
         Exclusive, Busy, Files
<1> QED
  BY <1>1, SpecCountsKept, PTL

\* Under the same condition no step of the system truncates a file with data.
THEOREM NothingOverwritten == PackSpec => NoOverwrite
<1> DEFINE Kept == \A s \in Systems : \A n \in Files :
              disk[s][n] > 0 /\ disk'[s][n] = 0 => "DataServer" \in lost
<1>1. Typed /\ CountsKept /\ [Step]_vars => [Kept]_vars
  <2> SUFFICES ASSUME Typed, CountsKept, Step, "DataServer" \notin lost,
                      NEW a \in Systems, NEW n \in Files, disk[a][n] > 0,
                      disk'[a][n] = 0
               PROVE  FALSE
    BY DEF Kept
  <2> USE BoundsAssumption DEF Files, NoFile
  <2>a. /\ disk \in [Systems -> [Files -> Nat \union {NoFile}]]
        /\ written \in [Systems -> [Files -> Nat]]
        /\ wCount \in [Systems -> 0 .. MaxFile]
    BY DEF Typed, WriterTypeOK, StoreTypes
  <2>b. \A s \in Systems : wStream[s] = "open" => wFile[s] \in Files
    BY DEF Typed, WriterInv
  <2>1. ASSUME NEW s \in Systems, NEW k \in 1 .. MaxList, WriterAppend(s, k) PROVE FALSE
    BY <2>1, <2>a, <2>b, SMTT(20) DEF WriterAppend, Flushed, NotFull
  <2>2. ASSUME NEW s \in Systems, WriterClose(s) PROVE FALSE
    BY <2>2, <2>a, <2>b, SMTT(20) DEF WriterClose, Flushed, NotFull
  <2>3. ASSUME NEW s \in Systems, WriterCreate(s) PROVE FALSE
    <3>1. disk[s][wCount[s] + 1] \in {NoFile, 0}
      BY <2>3, <2>a DEF WriterCreate, CountsKept
    <3> QED
      BY <2>3, <2>a, <3>1, SMTT(20) DEF WriterCreate
  <2>4. CASE RemoveLocal
    <3>1. \A x \in Systems : \A b \in Files :
             disk'[x][b] = disk[x][b] \/ disk'[x][b] = NoFile
      BY <2>4, RemoveEffect
    <3>2. disk'[a][n] = disk[a][n] \/ disk'[a][n] = NoFile
      BY <3>1
    <3> QED
      BY <3>2
  <2>5. UNCHANGED disk \/ RemoveLocal
        \/ \E s \in Systems : \/ \E k \in 1 .. MaxList : WriterAppend(s, k)
                              \/ WriterClose(s) \/ WriterCreate(s)
    <3>1. ASSUME NEW s \in Systems, StepOfWriter(s)
          PROVE  \/ UNCHANGED disk
                 \/ \E k \in 1 .. MaxList : WriterAppend(s, k)
                 \/ WriterClose(s) \/ WriterCreate(s)
      BY <3>1 DEF StepOfWriter, WriterCreateFails, WriterCountPlus, CountFileFails,
                  Fault, WriterPersist
    <3>2. Upload => UNCHANGED disk \/ RemoveLocal
      BY DEF Upload, TakeNothing, TakeFile, CountFileFails, Fault, UploaderPersist,
             OpenHdfs, OpenHdfsFails, CopyChunk, CloseHdfs
    <3>3. WriterKill \/ Scan \/ UploaderKill => UNCHANGED disk
      BY DEF WriterKill, Scan, UploaderKill
    <3> QED
      BY <3>1, <3>2, <3>3 DEF Step
  <2> QED
    BY <2>1, <2>2, <2>3, <2>4, <2>5
<1> QED
  BY <1>1, SpecCountsKept, PackNextIsStep, PTL DEF PackSpec, NoOverwrite, Kept
-----------------------------------------------------------------------------
(* No file is sent twice.                                                  *)

LEMMA InitUploadsCounted == Init => UploadsCounted
  BY DEF Init, UploadsCounted, DiskCounts

LEMMA NextUploadsCounted ==
  Typed /\ Typed' /\ UploadsCounted /\ [Step]_vars => UploadsCounted'
<1> SUFFICES ASSUME Typed, Typed', UploadsCounted, [Step]_vars,
                    "HDFSFileSync" \notin lost'
             PROVE  UploadsCounted'
  BY DEF UploadsCounted
<1>a. /\ uSys \in Systems /\ uFile \in Nat
      /\ uCount \in [Systems -> Nat] /\ uDisk \in [Systems -> Nat]
      /\ uPc \in {"pick", "persist", "open", "copy", "close"}
      /\ hdfs \in [Systems -> [Files -> Nat \union {NoFile}]]
      /\ (uPc # "pick" => uFile \in Files)
  BY SMTT(20) DEF Typed, UploaderTypeOK, StoreTypes, JobInv
<1>b. /\ uSys' \in Systems /\ uFile' \in Nat
      /\ uCount' \in [Systems -> Nat] /\ uDisk' \in [Systems -> Nat]
  BY SMTT(20) DEF Typed, UploaderTypeOK
<1>c. "HDFSFileSync" \notin lost
  BY DEF Step, StepOfWriter, Upload, vars, WriterAppend, WriterClose, WriterCreate,
         WriterCreateFails, WriterCountPlus, CountFileFails, Fault, WriterPersist,
         WriterKill, Scan, TakeNothing, TakeFile, UploaderPersist, OpenHdfs,
         OpenHdfsFails, CopyChunk, RemoveLocal, CloseHdfs, UploaderKill
<1>d. Files \subseteq Nat /\ NoFile \notin Nat
  BY DEF Files, NoFile
<1>1. CASE /\ UNCHANGED <<uCount, uDisk, job, hdfs>>
           /\ "HDFSFileSync" \notin stale' => "HDFSFileSync" \notin stale
  BY <1>1, <1>c DEF UploadsCounted, DiskCounts, job
<1>2. CASE Scan
  <2>1. /\ uPc # "persist" /\ UNCHANGED <<uDisk, uPc, uSys, uFile, hdfs, stale>>
        /\ \A s \in Systems : uCount[s] <= uCount'[s]
    BY <1>2, <1>a DEF Scan, job
  <2> QED
    BY <2>1, <1>a, <1>b, <1>c, <1>d DEF UploadsCounted, DiskCounts
<1>3. ASSUME NEW s \in Systems, TakeFile(s) PROVE UploadsCounted'
  <2>1. /\ uPc' = "persist" \/ "HDFSFileSync" \in stale'
        /\ uSys' = s /\ uFile' = uCount[s] /\ uFile' \in Files
        /\ uCount' = [uCount EXCEPT ![s] = @ + 1] /\ UNCHANGED hdfs
    BY <1>3 DEF TakeFile, CountFileFails, Fault, Takeable, Readable
  <2>2. \A t \in Systems : uCount[t] \in Nat /\ uCount[t] <= uCount'[t]
    BY <2>1, <1>a
  <2>3. \A t \in Systems : \A n \in Files : hdfs[t][n] # NoFile => n < uCount[t]
    BY <1>c DEF UploadsCounted
  <2>4. \A t \in Systems : \A n \in Files : hdfs'[t][n] # NoFile => n < uCount'[t]
    BY <2>1, <2>2, <2>3, <1>b, <1>d
  <2>5. uFile' < uCount'[s]
    BY <2>1, <1>a
  <2>6. hdfs'[s][uFile'] = NoFile
    BY <2>1, <2>2, <2>3
  <2> QED
    BY <2>1, <2>4, <2>5, <2>6 DEF UploadsCounted, DiskCounts
<1>4. CASE UploaderPersist
  BY <1>4, <1>a, <1>b, <1>c, <1>d DEF UploaderPersist, CountFileFails, Fault,
                                      UploadsCounted, DiskCounts
<1>5. CASE OpenHdfsFails
  BY <1>5, <1>a, <1>b, <1>c, <1>d DEF OpenHdfsFails, IdleJob, UploadsCounted,
                                      DiskCounts
<1>6. CASE CopyChunk \/ RemoveLocal
  BY <1>6, <1>a, <1>b, <1>c, <1>d DEF CopyChunk, RemoveLocal, UploadsCounted,
                                      DiskCounts
<1>7. ASSUME uPc \in {"open", "copy", "close"},
             \E k \in Nat : hdfs' = [hdfs EXCEPT ![uSys][uFile] = k]
      PROVE  \A s \in Systems : \A n \in Files : hdfs'[s][n] # NoFile =>
                n < uCount[s] /\ (DiskCounts => n < uDisk[s])
  <2>1. PICK k \in Nat : hdfs' = [hdfs EXCEPT ![uSys][uFile] = k]
    BY <1>7
  <2>2. uFile \in Files
    BY <1>7, <1>a
  <2>3. \A s \in Systems : \A n \in Files :
           hdfs'[s][n] = IF s = uSys /\ n = uFile THEN k ELSE hdfs[s][n]
    BY ONLY <1>a, <2>1, <2>2, ExceptTwiceAt
  <2> QED
    BY <1>7, <1>a, <1>c, <1>d, <2>3 DEF UploadsCounted
<1>8. CASE OpenHdfs
  BY <1>8, <1>7, <1>a, <1>b, <1>c, <1>d DEF OpenHdfs, UploadsCounted, DiskCounts
<1>9. CASE CloseHdfs
  <2>1. \E k \in Nat : hdfs' = [hdfs EXCEPT ![uSys][uFile] = k]
    BY <1>9, SMTT(20) DEF CloseHdfs, Typed, UploaderTypeOK
  <2> QED
    BY <1>9, <2>1, <1>7, <1>a, <1>b, <1>c, <1>d
       DEF CloseHdfs, IdleJob, UploadsCounted, DiskCounts
<1>10. CASE UploaderKill
  <2>1. DiskCounts
    BY <1>10 DEF UploaderKill, DiskCounts
  <2>2. \/ UNCHANGED hdfs
        \/ /\ uPc \in {"copy", "close"}
           /\ \E k \in Nat : hdfs' = [hdfs EXCEPT ![uSys][uFile] = k]
    BY <1>10 DEF UploaderKill, Typed, UploaderTypeOK
  <2>3. \A s \in Systems : \A n \in Files : hdfs'[s][n] # NoFile => n < uDisk[s]
    BY <2>1, <2>2, <1>7, <1>c DEF UploadsCounted
  <2> QED
    BY <1>10, <2>3 DEF UploaderKill, IdleJob, UploadsCounted
<1> QED
  <2>1. (\E s \in Systems : StepOfWriter(s)) \/ WriterKill \/ UNCHANGED vars
           => /\ UNCHANGED <<uCount, uDisk, job, hdfs>>
              /\ "HDFSFileSync" \notin stale' => "HDFSFileSync" \notin stale
    BY DEF StepOfWriter, vars, uVars, WriterAppend, WriterClose, WriterCreate,
           WriterCreateFails, WriterCountPlus, CountFileFails, Fault, WriterPersist,
           WriterKill
  <2>2. \A s \in Systems :
           TakeNothing(s) => UNCHANGED <<uCount, uDisk, job, hdfs, stale>>
    BY DEF TakeNothing
  <2> QED
    BY <1>1, <1>2, <1>3, <1>4, <1>5, <1>6, <1>8, <1>9, <1>10, <2>1, <2>2
       DEF Step, StepOfWriter, Upload

\* However often the two processes are killed, no HDFS file is opened twice for
\* writing, as long as no kill and no error has left HDFSFileSync's count file
\* empty or old.
THEOREM SentOnce == PackSpec => []NoReupload
<1>1. Init => Typed /\ UploadsCounted
  BY InitTyped, InitUploadsCounted
<1>2. Typed /\ UploadsCounted /\ [Step]_vars => (Typed /\ UploadsCounted)'
  BY NextTyped, NextUploadsCounted
<1>3. UploadsCounted => NoReupload
  BY DEF UploadsCounted, NoReupload
<1> QED
  BY <1>1, <1>2, <1>3, PackNextIsStep, PTL DEF PackSpec
-----------------------------------------------------------------------------
(* Every file passed is whole.                                             *)

\* Nothing that was lost is found again.
LEMMA LostStays == Typed /\ [Step]_vars /\ lost' = {} => lost = {}
  BY DEF Step, StepOfWriter, Upload, vars, WriterAppend, WriterClose, WriterCreate,
         WriterCreateFails, WriterCountPlus, CountFileFails, Fault, WriterPersist,
         WriterKill, Scan, TakeNothing, TakeFile, UploaderPersist, OpenHdfs,
         OpenHdfsFails, CopyChunk, RemoveLocal, CloseHdfs, UploaderKill

LEMMA InitPassedLeft == Init => PassedLeft
  BY DEF Init, PassedLeft, EmptyCounts

LEMMA NextPassedLeft ==
  Typed /\ Typed' /\ CountsKept /\ PassedLeft /\ [Step]_vars => PassedLeft'
<1> SUFFICES ASSUME Typed, Typed', CountsKept, PassedLeft, [Step]_vars, lost' = {}
             PROVE  PassedLeft'
  BY DEF PassedLeft
<1>a. /\ uSys \in Systems /\ uFile \in Nat
      /\ uCount \in [Systems -> Nat] /\ uDisk \in [Systems -> Nat]
      /\ uPc \in {"pick", "persist", "open", "copy", "close"}
      /\ disk \in [Systems -> [Files -> Nat \union {NoFile}]]
      /\ MaxFile \in Nat
  BY BoundsAssumption DEF Typed, UploaderTypeOK, StoreTypes
<1>b. WriterTypeOK /\ WriterInv /\ WriterTypeOK' /\ WriterInv'
  BY DEF Typed
<1>c. lost = {}
  BY LostStays
<1>d. /\ uSys' \in Systems /\ uFile' \in Nat
      /\ uCount' \in [Systems -> Nat] /\ uDisk' \in [Systems -> Nat]
  BY SMTT(20) DEF Typed, UploaderTypeOK
<1> USE DEF Files, NoFile
<1>1. ASSUME NEW s \in Systems,
             \/ \E k \in 1 .. MaxList : WriterAppend(s, k)
             \/ WriterPersist(s) \/ TakeNothing(s)
      PROVE  PassedLeft'
  BY <1>1, <1>c DEF WriterAppend, WriterPersist, CountFileFails, Fault, TakeNothing,
                    wVars, uVars, job, PassedLeft
<1>2. ASSUME NEW s \in Systems, WriterClose(s) \/ WriterCreateFails(s)
      PROVE  PassedLeft'
  BY <1>2, <1>b, <1>c DEF WriterClose, WriterCreateFails, uVars, job,
                          PassedLeft, WriterTypeOK
<1>3. ASSUME NEW s \in Systems, WriterCreate(s) PROVE PassedLeft'
  <2>1. /\ UNCHANGED <<wCount, uCount, uDisk, uPc, uSys, uFile>>
        /\ wStream' = [wStream EXCEPT ![s] = "open"]
        /\ wFile' = [wFile EXCEPT ![s] = wCount[s] + 1]
    BY <1>3 DEF WriterCreate, uVars, job
  <2>2. \A a \in Systems : \A n \in 2 .. MaxFile : n < uCount[a] =>
           n <= wCount[a] /\ ~ (wStream'[a] = "open" /\ wFile'[a] = n)
    <3> TAKE a \in Systems
    <3> TAKE n \in 2 .. MaxFile
    <3> HAVE n < uCount[a]
    <3>1. n <= wCount[a] /\ ~ (wStream[a] = "open" /\ wFile[a] = n)
      BY <1>c DEF PassedLeft
    <3>2. a = s => wFile'[a] = wCount[a] + 1 /\ wCount[a] \in Nat
      BY <2>1, <1>b DEF WriterTypeOK
    <3>3. a # s => wStream'[a] = wStream[a] /\ wFile'[a] = wFile[a]
      BY <2>1, <1>b DEF WriterTypeOK
    <3> QED
      BY <3>1, <3>2, <3>3, <1>a
  <2> QED
    BY <2>1, <2>2, <1>c DEF PassedLeft
<1>4. ASSUME NEW s \in Systems, WriterCountPlus(s) PROVE PassedLeft'
  <2>1. /\ UNCHANGED <<wStream, wFile, uCount, uDisk, uPc, uSys, uFile>>
        /\ \A a \in Systems : wCount'[a] \in Nat /\ wCount[a] \in Nat
                                /\ wCount[a] <= wCount'[a]
    BY <1>4, <1>b DEF WriterCountPlus, CountFileFails, Fault, uVars, job, WriterTypeOK
  <2>2. \A a \in Systems : \A n \in 2 .. MaxFile : n < uCount[a] =>
           n <= wCount'[a] /\ ~ (wStream[a] = "open" /\ wFile[a] = n)
    <3> TAKE a \in Systems
    <3> TAKE n \in 2 .. MaxFile
    <3> HAVE n < uCount[a]
    <3>1. n <= wCount[a] /\ ~ (wStream[a] = "open" /\ wFile[a] = n)
      BY <1>c DEF PassedLeft
    <3> QED
      BY <2>1, <3>1, <1>a
  <2> QED
    BY <2>1, <2>2, <1>c DEF PassedLeft
<1>5. CASE WriterKill
  <2>1. wCount' = wCount
    BY <1>5, <1>b, <1>c DEF WriterKill, CountsKept
  <2> QED
    BY <1>5, <2>1, <1>c DEF WriterKill, uVars, job, PassedLeft
<1>6. CASE Scan
  BY <1>6, <1>a, <1>c, <1>d DEF Scan, wVars, job, PassedLeft
<1>7. ASSUME NEW s \in Systems, TakeFile(s) PROVE PassedLeft'
  <2>1. /\ uSys' = s /\ uFile' = uCount[s]
        /\ uCount[s] \in Files /\ uCount[s] + 1 \in Files
        /\ disk[s][uCount[s] + 1] # NoFile
        /\ uCount' = [uCount EXCEPT ![s] = @ + 1] /\ uDisk' \in {EmptyCounts, uDisk}
        /\ UNCHANGED wVars
    BY <1>7 DEF TakeFile, CountFileFails, Fault, Takeable, Readable
  <2>2. /\ uCount[s] <= wCount[s]
        /\ ~ (wStream[s] = "open" /\ wFile[s] = uCount[s])
    <3>1. "DataServer" \notin lost
      BY <1>c
    <3>2. /\ uCount[s] <= wCount[s]
          /\ wStream[s] = "open" => uCount[s] < wFile[s]
      BY <1>7, <3>1, TakeableBehind DEF TakeFile, CountFileFails, Fault
    <3> QED
      BY <1>a, <3>2
  <2>3. \A a \in Systems :
           /\ uCount'[a] = (IF a = s THEN uCount[s] + 1 ELSE uCount[a])
           /\ uDisk'[a] \in {0, uDisk[a]}
    BY <1>a, <2>1 DEF EmptyCounts
  <2>4. \A a \in Systems : /\ uCount[a] \in Nat /\ uDisk[a] \in Nat
                             /\ uCount[a] # 1 /\ uDisk[a] # 1 /\ uDisk[a] <= uCount[a]
    BY <1>a, <1>c DEF PassedLeft
  <2>5. uCount[s] >= 2
    BY <2>1, <2>4
  <2>6. \A a \in Systems :
           uCount'[a] # 1 /\ uDisk'[a] # 1 /\ uDisk'[a] <= uCount'[a]
    BY <2>3, <2>4, <2>5
  <2>7. \A a \in Systems : \A n \in 2 .. MaxFile : n < uCount'[a] =>
           n <= wCount[a] /\ ~ (wStream[a] = "open" /\ wFile[a] = n)
    <3> TAKE a \in Systems
    <3> TAKE n \in 2 .. MaxFile
    <3> HAVE n < uCount'[a]
    <3>1. n < uCount[a] \/ (a = s /\ n = uCount[s])
      BY <1>a, <2>3, <2>4
    <3> QED
      BY <3>1, <2>2, <1>c DEF PassedLeft
  <2> QED
    BY <2>1, <2>3, <2>4, <2>5, <2>6, <2>7 DEF PassedLeft, wVars
<1>8. CASE UploaderPersist
  BY <1>8, <1>a, <1>c DEF UploaderPersist, CountFileFails, Fault, wVars, PassedLeft
<1>9. CASE OpenHdfs \/ OpenHdfsFails \/ CopyChunk \/ RemoveLocal \/ CloseHdfs
  BY <1>9, <1>a, <1>c
     DEF OpenHdfs, OpenHdfsFails, CopyChunk, RemoveLocal, CloseHdfs, IdleJob,
         wVars, PassedLeft
<1>10. CASE UploaderKill
  BY <1>10, <1>a, <1>c DEF UploaderKill, IdleJob, wVars, PassedLeft
<1>11. CASE UNCHANGED vars
  BY <1>11 DEF vars, wVars, uVars, job, PassedLeft
<1> QED
  BY <1>1, <1>2, <1>3, <1>4, <1>5, <1>6, <1>7, <1>8, <1>9, <1>10, <1>11
     DEF Step, StepOfWriter, Upload

LEMMA InitCopyExact == Init => CopyExact
  BY DEF Init, CopyExact

LEMMA NextCopyExact ==
  Typed /\ Typed' /\ PassedLeft /\ CopyExact /\ [Step]_vars => CopyExact'
<1> SUFFICES ASSUME Typed, Typed', PassedLeft, CopyExact, [Step]_vars
             PROVE  CopyExact'
  OBVIOUS
<1> USE DEF NoFile
<1>a. /\ uSys \in Systems /\ uFile \in Nat /\ uRead \in Nat /\ uSent \in Nat
      /\ uPc \in {"pick", "persist", "open", "copy", "close"}
      /\ (uPc # "pick" => uFile \in Files)
      /\ disk \in [Systems -> [Files -> Nat \union {NoFile}]]
      /\ written \in [Systems -> [Files -> Nat]]
      /\ MaxFileSize \in Nat /\ Files = 1 .. MaxFile /\ MaxFile \in Nat
  <2>1. MaxFileSize \in Nat /\ Files = 1 .. MaxFile /\ MaxFile \in Nat
    BY BoundsAssumption DEF Files
  <2>2. /\ uSys \in Systems /\ uFile \in Nat /\ uRead \in Nat /\ uSent \in Nat
        /\ uPc \in {"pick", "persist", "open", "copy", "close"}
    BY <2>1 DEF Typed, UploaderTypeOK
  <2>3. /\ (uPc # "pick" => uFile \in Files)
        /\ disk \in [Systems -> [Files -> Nat \union {NoFile}]]
        /\ written \in [Systems -> [Files -> Nat]]
    BY DEF Typed, StoreTypes, JobInv
  <2> QED
    BY <2>1, <2>2, <2>3
<1>b. WriterTypeOK /\ WriterInv
  BY DEF Typed
\* The file in hand is one the writer has left, and is not its next one.
<1>c. lost = {} /\ uPc # "pick" =>
         /\ ~ (wStream[uSys] = "open" /\ wFile[uSys] = uFile)
         /\ uFile # wCount[uSys] + 1
  <2> HAVE lost = {} /\ uPc # "pick"
  <2>1. uFile \in 2 .. MaxFile /\ uFile < uCount[uSys]
    BY <1>a DEF PassedLeft
  <2>2. uFile <= wCount[uSys] /\ ~ (wStream[uSys] = "open" /\ wFile[uSys] = uFile)
    BY <2>1, <1>a DEF PassedLeft
  <2> QED
    BY <2>2, <1>a, <1>b DEF WriterTypeOK
<1>1. ASSUME NEW s \in Systems,
             \/ \E k \in 1 .. MaxList : WriterAppend(s, k)
             \/ WriterClose(s) PROVE CopyExact'
  <2>1. wFile[s] \in Files /\ wStream[s] = "open"
    BY <1>1, <1>b DEF WriterAppend, WriterClose, WriterInv
  <2>2. PICK d, w :
           /\ disk' = [disk EXCEPT ![s][wFile[s]] =
                          IF disk[s][wFile[s]] = NoFile THEN NoFile ELSE d]
           /\ written' = [written EXCEPT ![s][wFile[s]] = w]
           /\ WriterClose(s) => w = d
    <3>1. CASE \E k \in 1 .. MaxList : WriterAppend(s, k)
      <4>1. ~ WriterClose(s)
        BY <3>1 DEF WriterAppend, WriterClose
      <4> QED
        BY <3>1, <4>1 DEF WriterAppend, Flushed
    <3>2. CASE WriterClose(s)
      <4>1. written' = [written EXCEPT ![s][wFile[s]] = written[s][wFile[s]]]
        BY <3>2, <1>a DEF WriterClose
      <4> QED
        BY <3>2, <4>1 DEF WriterClose, Flushed
    <3> QED
      BY <1>1, <3>1, <3>2
  <2>3. \A a \in Systems : \A b \in Files : ~ (a = s /\ b = wFile[s]) =>
           disk'[a][b] = disk[a][b] /\ written'[a][b] = written[a][b]
    BY <2>1, <2>2, <1>a
  <2>4. WriterClose(s) => \/ disk'[s][wFile[s]] = NoFile
                          \/ disk'[s][wFile[s]] = written'[s][wFile[s]]
    BY <2>1, <2>2, <1>a
  <2>5. UNCHANGED <<uPc, uSys, uFile, uRead, uSent, excused, lost, wFile>>
    BY <1>1 DEF WriterAppend, WriterClose, wVars, uVars, job
  <2>6. \A a \in Systems : \A b \in Files :
           lost = {} /\ disk'[a][b] # NoFile
              /\ ~ (wStream'[a] = "open" /\ wFile[a] = b)
           => disk'[a][b] = written'[a][b]
    <3>1. CASE \E k \in 1 .. MaxList : WriterAppend(s, k)
      BY <3>1, <2>1, <2>3 DEF WriterAppend, wVars, CopyExact
    <3>2. CASE WriterClose(s)
      <4>1. \A a \in Systems : a # s => wStream'[a] = wStream[a]
        BY <3>2, <1>b DEF WriterClose, WriterTypeOK
      <4> QED
        BY <3>2, <4>1, <2>1, <2>3, <2>4 DEF CopyExact
    <3> QED
      BY <1>1, <3>1, <3>2
  <2>7. lost = {} /\ uPc # "pick" =>
           disk'[uSys][uFile] = disk[uSys][uFile]
           /\ written'[uSys][uFile] = written[uSys][uFile]
    BY <2>1, <2>3, <1>a, <1>c
  <2> QED
    BY <2>5, <2>6, <2>7 DEF CopyExact
<1>2. ASSUME NEW s \in Systems, WriterCreate(s) PROVE CopyExact'
  <2>1. /\ wCount[s] + 1 \in Files
        /\ disk' = [disk EXCEPT ![s][wCount[s] + 1] = 0]
        /\ written' = [written EXCEPT ![s][wCount[s] + 1] = 0]
        /\ wStream' = [wStream EXCEPT ![s] = "open"]
        /\ wFile' = [wFile EXCEPT ![s] = wCount[s] + 1]
        /\ wStream[s] = "null"
        /\ UNCHANGED <<uPc, uSys, uFile, uRead, uSent, excused, lost>>
    BY <1>2 DEF WriterCreate, uVars, job
  <2>2. \A a \in Systems : \A b \in Files : ~ (a = s /\ b = wCount[s] + 1) =>
           disk'[a][b] = disk[a][b] /\ written'[a][b] = written[a][b]
    BY <2>1, <1>a
  <2>3. disk'[s][wCount[s] + 1] = 0 /\ written'[s][wCount[s] + 1] = 0
    BY <2>1, <1>a
  <2>4. \A a \in Systems : \A b \in Files :
           lost = {} /\ disk'[a][b] # NoFile
              /\ ~ (wStream'[a] = "open" /\ wFile'[a] = b)
           => disk'[a][b] = written'[a][b]
    <3>1. \A a \in Systems : a # s => wStream'[a] = wStream[a] /\ wFile'[a] = wFile[a]
      BY <2>1, <1>b DEF WriterTypeOK
    <3> QED
      BY <2>1, <2>2, <2>3, <3>1 DEF CopyExact
  <2>5. lost = {} /\ uPc # "pick" =>
           disk'[uSys][uFile] = disk[uSys][uFile]
           /\ written'[uSys][uFile] = written[uSys][uFile]
    BY <2>2, <1>a, <1>c
  <2> QED
    BY <2>1, <2>4, <2>5 DEF CopyExact
<1>3. ASSUME NEW s \in Systems,
             WriterCreateFails(s) \/ WriterCountPlus(s) \/ WriterPersist(s)
      PROVE  CopyExact'
  <2>1. UNCHANGED <<uPc, uSys, uFile, uRead, uSent, excused, wFile, disk, written>>
    BY <1>3 DEF WriterCreateFails, WriterCountPlus, CountFileFails, Fault,
                WriterPersist, uVars, job
  <2>2. \A a \in Systems : wStream[a] = "open" => wStream'[a] = "open"
    BY <1>3, <1>b DEF WriterCreateFails, WriterCountPlus, CountFileFails, Fault,
                      WriterPersist, WriterTypeOK
  <2>3. lost' = {} => lost = {}
    BY LostStays
  <2> QED
    BY <2>1, <2>2, <2>3 DEF CopyExact
<1>4. CASE WriterKill
  <2>1. \A a \in Systems : \A b \in Files : written'[a][b] =
           IF wStream[a] = "open" /\ wFile[a] = b /\ disk[a][b] # NoFile
           THEN disk[a][b] ELSE written[a][b]
    BY <1>4 DEF WriterKill
  <2>2. UNCHANGED <<uPc, uSys, uFile, uRead, uSent, excused, disk>>
    BY <1>4 DEF WriterKill, uVars, job
  <2>3. lost' = {} => lost = {}
    BY LostStays
  <2>4. lost = {} /\ uPc # "pick" => written'[uSys][uFile] = written[uSys][uFile]
    BY <2>1, <1>a, <1>c
  <2> QED
    BY <2>1, <2>2, <2>3, <2>4 DEF CopyExact
<1>5. CASE Scan
  BY <1>5 DEF Scan, wVars, job, CopyExact
<1>6. ASSUME NEW s \in Systems, TakeNothing(s) PROVE CopyExact'
  BY <1>6 DEF TakeNothing, wVars, job, CopyExact
<1>7. ASSUME NEW s \in Systems, TakeFile(s) PROVE CopyExact'
  <2>1. /\ uSys' = s /\ uFile' = uCount[s] /\ uPc' \in {"persist", "open"}
        /\ uCount[s] \in Files /\ disk[s][uCount[s]] # NoFile
        /\ uRead = 0 /\ uSent = 0
        /\ UNCHANGED <<uRead, uSent, wStream, wFile, disk, written>>
    BY <1>7 DEF TakeFile, CountFileFails, Fault, NextSystem, Takeable, Readable,
                wVars, CopyExact
  <2>2. 0 <= disk[s][uCount[s]]
    BY <2>1, <1>a
  <2>3. lost' = {} => lost = {}
    BY LostStays
  <2> QED
    BY <2>1, <2>2, <2>3 DEF CopyExact
<1>8. CASE UploaderPersist \/ OpenHdfs
  BY <1>8, LostStays DEF UploaderPersist, CountFileFails, Fault, OpenHdfs, wVars,
                         CopyExact
<1>9. CASE OpenHdfsFails \/ CloseHdfs \/ UploaderKill
  <2>1. /\ uPc' = "pick" /\ uRead' = 0 /\ uSent' = 0
        /\ UNCHANGED <<wStream, wFile, disk, written>>
    BY <1>9 DEF OpenHdfsFails, CloseHdfs, UploaderKill, IdleJob, wVars
  <2>2. lost' = {} => lost = {}
    BY LostStays
  <2> QED
    BY <2>1, <2>2 DEF CopyExact
<1>10. CASE CopyChunk
  <2>1. /\ uPc = "copy" /\ uPc' = "copy" /\ uRead < disk[uSys][uFile]
        /\ uRead' \in {uRead + 1, disk[uSys][uFile]}
        /\ UNCHANGED <<uSys, uFile, wStream, wFile, disk, written, lost>>
        /\ \/ uRead' = uRead + 1 /\ uSent' = uSent + 1 /\ excused' = excused
           \/ <<uSys, uFile>> \in excused'
    BY <1>10 DEF CopyChunk, wVars
  <2>2. disk[uSys][uFile] \in Int
    BY <2>1, <1>a
  <2>3. lost = {} => uRead <= disk[uSys][uFile] /\ disk[uSys][uFile] # NoFile
    BY <2>1 DEF CopyExact
  <2>4. uRead' <= disk[uSys][uFile]
    BY <2>1, <2>2, <1>a
  <2>5. lost = {} /\ <<uSys, uFile>> \notin excused' => uSent' = uRead'
    <3> HAVE lost = {} /\ <<uSys, uFile>> \notin excused'
    <3>1. /\ uRead' = uRead + 1 /\ uSent' = uSent + 1
          /\ <<uSys, uFile>> \notin excused
      BY <2>1
    <3>2. uSent = uRead
      BY <3>1, <2>1 DEF CopyExact
    <3> QED
      BY <3>1, <3>2, <2>1
  <2>6. /\ lost' = {} => lost = {}
        /\ uPc' = "copy" /\ uRead' <= disk'[uSys'][uFile']
        /\ lost' = {} => disk'[uSys'][uFile'] # NoFile
    BY <2>1, <2>3, <2>4
  <2>7. lost' = {} /\ <<uSys', uFile'>> \notin excused' => uSent' = uRead'
    BY <2>1, <2>5
  <2> QED
    BY <2>1, <2>6, <2>7 DEF CopyExact
<1>11. CASE RemoveLocal
  <2>1. /\ uPc = "copy" /\ uPc' = "close" /\ uRead >= disk[uSys][uFile]
        /\ UNCHANGED <<uSys, uFile, uRead, uSent, wStream, wFile, written,
                       excused, lost>>
    BY <1>11 DEF RemoveLocal, wVars
  <2>2. lost = {} /\ <<uSys, uFile>> \notin excused => uSent = written[uSys][uFile]
    <3> HAVE lost = {} /\ <<uSys, uFile>> \notin excused
    <3>1. /\ disk[uSys][uFile] # NoFile /\ uRead <= disk[uSys][uFile]
          /\ uSent = uRead
      BY <2>1 DEF CopyExact
    <3>2. disk[uSys][uFile] = written[uSys][uFile]
      BY <3>1, <2>1, <1>a, <1>c DEF CopyExact
    <3>3. written[uSys][uFile] \in Nat
      BY <2>1, <1>a
    <3> QED
      BY <3>1, <3>2, <3>3, <2>1, <1>a
  <2>3. \A a \in Systems : \A b \in Files :
           disk'[a][b] = disk[a][b] \/ disk'[a][b] = NoFile
    BY <1>11, RemoveEffect
  <2> QED
    BY <2>1, <2>2, <2>3 DEF CopyExact
<1>12. CASE UNCHANGED vars
  BY <1>12 DEF vars, wVars, uVars, job, CopyExact
<1> QED
  BY <1>1, <1>2, <1>3, <1>4, <1>5, <1>6, <1>7, <1>8, <1>9, <1>10, <1>11, <1>12
     DEF Step, StepOfWriter, Upload

\* What a writer does leaves the files the uploader has passed as they were.
LEMMA WriterKeepsPassed ==
  ASSUME Typed, PassedLeft, lost = {},
         WriterKill \/ (\E s \in Systems : StepOfWriter(s))
  PROVE  \A a \in Systems : \A n \in 2 .. MaxFile :
            n < uCount[a] => written'[a][n] = written[a][n]
<1>a. /\ written \in [Systems -> [Files -> Nat]]
      /\ WriterTypeOK /\ WriterInv
  BY DEF Typed, StoreTypes
<1>b. MaxFile \in Nat /\ Files = 1 .. MaxFile
  BY BoundsAssumption DEF Files
<1> TAKE a \in Systems
<1> TAKE n \in 2 .. MaxFile
<1> HAVE n < uCount[a]
<1>c. n <= wCount[a] /\ ~ (wStream[a] = "open" /\ wFile[a] = n)
  BY DEF PassedLeft
<1>d. n \in Files
  BY <1>b
<1>1. ASSUME NEW s \in Systems, NEW k \in 1 .. MaxList, WriterAppend(s, k)
      PROVE  written'[a][n] = written[a][n]
  <2>1. /\ wStream[s] = "open" /\ wFile[s] \in Files
        /\ written' = [written EXCEPT ![s][wFile[s]] = written[s][wFile[s]] + k]
    BY <1>1, <1>a DEF WriterAppend, WriterInv
  <2>2. written'[a][n] = IF a = s /\ n = wFile[s] THEN written[s][wFile[s]] + k
                         ELSE written[a][n]
    BY <2>1, <1>a, <1>d
  <2> QED
    BY <2>1, <2>2, <1>c
<1>2. ASSUME NEW s \in Systems, WriterCreate(s)
      PROVE  written'[a][n] = written[a][n]
  <2>1. /\ wCount[s] + 1 \in Files
        /\ written' = [written EXCEPT ![s][wCount[s] + 1] = 0]
    BY <1>2 DEF WriterCreate
  <2>2. written'[a][n] = IF a = s /\ n = wCount[s] + 1 THEN 0 ELSE written[a][n]
    BY <2>1, <1>a, <1>d
  <2>3. wCount[a] \in Nat
    BY <1>a, <1>b DEF WriterTypeOK
  <2> QED
    BY <2>2, <2>3, <1>c
<1>3. ASSUME NEW s \in Systems,
             \/ WriterClose(s) \/ WriterCreateFails(s)
             \/ WriterCountPlus(s) \/ WriterPersist(s)
      PROVE  written'[a][n] = written[a][n]
  BY <1>3 DEF WriterClose, WriterCreateFails, WriterCountPlus, CountFileFails, Fault,
              WriterPersist
<1>4. CASE WriterKill
  BY <1>4, <1>c, <1>d DEF WriterKill
<1> QED
  BY <1>1, <1>2, <1>3, <1>4 DEF StepOfWriter

LEMMA InitNoSilentLoss == Init => NoSilentLoss
  BY DEF Init, NoSilentLoss, EmptyCounts

LEMMA NextNoSilentLoss ==
  /\ Typed /\ Typed' /\ PassedLeft /\ CopyExact /\ NoSilentLoss /\ [Step]_vars
  => NoSilentLoss'
<1> SUFFICES ASSUME Typed, Typed', PassedLeft, CopyExact, NoSilentLoss,
                    [Step]_vars, lost' = {}
             PROVE  NoSilentLoss'
  BY DEF NoSilentLoss
<1>a. lost = {}
  BY LostStays
<1>b. /\ uSys \in Systems /\ (uPc # "pick" => uFile \in Files)
      /\ uCount \in [Systems -> Nat] /\ uDisk \in [Systems -> Nat]
      /\ uCount' \in [Systems -> Nat]
      /\ hdfs \in [Systems -> [Files -> Nat \union {NoFile}]]
  BY DEF Typed, UploaderTypeOK, StoreTypes, JobInv
<1>c. MaxFile \in Nat /\ Files = 1 .. MaxFile
  BY BoundsAssumption DEF Files
\* A step that keeps the job, the counts and hdfs, and what was written to the
\* files passed.
<1>1. ASSUME WriterKill \/ (\E s \in Systems : StepOfWriter(s)) PROVE NoSilentLoss'
  <2>1. UNCHANGED <<uCount, uPc, uSys, uFile, hdfs, excused>>
    BY <1>1 DEF StepOfWriter, uVars, job, WriterAppend, WriterClose, WriterCreate,
                WriterCreateFails, WriterCountPlus, CountFileFails, Fault,
                WriterPersist, WriterKill
  <2>2. \A a \in Systems : \A n \in 2 .. MaxFile :
           n < uCount[a] => written'[a][n] = written[a][n]
    BY <1>1, <1>a, WriterKeepsPassed
  <2> QED
    BY <2>1, <2>2, <1>a DEF NoSilentLoss, Busy
<1>2. CASE Scan
  <2>1. UNCHANGED <<uPc, uSys, uFile, hdfs, excused, written>>
    BY <1>2 DEF Scan, job
  <2>2. \A a \in Systems : uCount'[a] = uCount[a] \/ uCount'[a] = 2
    BY <1>2 DEF Scan
  <2>3. \A a \in Systems : \A n \in 2 .. MaxFile : n < uCount'[a] => n < uCount[a]
    BY <2>2, <1>b, <1>c, SMTT(20)
  <2> QED
    BY <2>1, <2>3, <1>a DEF NoSilentLoss, Busy
<1>3. ASSUME NEW s \in Systems, TakeNothing(s) PROVE NoSilentLoss'
  BY <1>3, <1>a DEF TakeNothing, job, NoSilentLoss, Busy
<1>4. ASSUME NEW s \in Systems, TakeFile(s) PROVE NoSilentLoss'
  <2>1. /\ uPc = "pick" /\ uPc' # "pick" /\ uSys' = s /\ uFile' = uCount[s]
        /\ uCount' = [uCount EXCEPT ![s] = uCount[s] + 1]
        /\ UNCHANGED <<hdfs, excused, written>>
    BY <1>4 DEF TakeFile, CountFileFails, Fault, NextSystem
  <2> SUFFICES ASSUME NEW a \in Systems, NEW n \in 2 .. MaxFile,
                      n < uCount'[a], ~ Busy(a, n)', <<a, n>> \notin excused'
               PROVE  hdfs'[a][n] = written'[a][n]
    BY DEF NoSilentLoss
  <2>2. ~ (a = s /\ n = uCount[s])
    BY <2>1 DEF Busy
  <2>3. n < uCount[a]
    <3>1. uCount'[a] = IF a = s THEN uCount[s] + 1 ELSE uCount[a]
      BY <2>1, <1>b
    <3> QED
      BY <3>1, <2>2, <1>b, <1>c
  <2>4. ~ Busy(a, n) /\ <<a, n>> \notin excused
    BY <2>1 DEF Busy
  <2> QED
    BY <2>1, <2>3, <2>4, <1>a DEF NoSilentLoss
<1>5. CASE UploaderPersist \/ CopyChunk \/ RemoveLocal
  <2>1. /\ UNCHANGED <<uCount, uSys, uFile, hdfs, written>>
        /\ uPc # "pick" /\ uPc' # "pick" /\ excused \subseteq excused'
    BY <1>5 DEF UploaderPersist, CountFileFails, Fault, CopyChunk, RemoveLocal
  <2> QED
    BY <2>1, <1>a DEF NoSilentLoss, Busy
\* Only the file in hand changes in HDFS.
<1>6. CASE OpenHdfs \/ OpenHdfsFails \/ CloseHdfs \/ UploaderKill
  <2>1. /\ UNCHANGED <<uSys, written>> /\ excused \subseteq excused'
        /\ \A a \in Systems : uCount'[a] <= uCount[a]
    <3>1. \A a \in Systems : uCount[a] <= uCount[a]
      BY <1>b
    <3>2. CASE UploaderKill
      BY <3>2, <1>a DEF UploaderKill, IdleJob, PassedLeft
    <3> QED
      BY <1>6, <3>1, <3>2 DEF OpenHdfs, OpenHdfsFails, CloseHdfs, IdleJob
  <2>2. \A a \in Systems : \A n \in Files : ~ Busy(a, n) => hdfs'[a][n] = hdfs[a][n]
    <3>1. hdfs' = hdfs \/ (uPc # "pick" /\ \E k : hdfs' = [hdfs EXCEPT ![uSys][uFile] = k])
      BY <1>6 DEF OpenHdfs, OpenHdfsFails, CloseHdfs, UploaderKill
    <3> QED
      BY <3>1, <1>b DEF Busy
  <2>3. ASSUME NEW a \in Systems, NEW n \in 2 .. MaxFile, Busy(a, n), ~ Busy(a, n)',
               <<a, n>> \notin excused'
        PROVE  hdfs'[a][n] = written[a][n]
    <3>1. uPc # "pick" /\ a = uSys /\ n = uFile
      BY <2>3 DEF Busy
    <3>2. CASE CloseHdfs
      <4>1. uPc = "close" /\ <<uSys, uFile>> \notin excused
        BY <3>2, <3>1, <2>1, <2>3 DEF CloseHdfs
      <4>2. hdfs' = [hdfs EXCEPT ![uSys][uFile] = uSent]
        BY <3>2, <3>1, <2>3 DEF CloseHdfs
      <4>3. hdfs'[uSys][uFile] = uSent
        BY <4>2, <3>1, <1>b
      <4>4. uSent = written[uSys][uFile]
        BY <4>1, <1>a DEF CopyExact
      <4> QED
        BY <4>3, <4>4, <3>1
    <3>3. CASE OpenHdfs
      BY <3>3, <3>1, <2>3 DEF OpenHdfs, Busy
    <3>4. CASE OpenHdfsFails \/ UploaderKill
      BY <3>4, <3>1, <2>3 DEF OpenHdfsFails, UploaderKill
    <3> QED
      BY <1>6, <3>2, <3>3, <3>4
  <2> SUFFICES ASSUME NEW a \in Systems, NEW n \in 2 .. MaxFile,
                      n < uCount'[a], ~ Busy(a, n)', <<a, n>> \notin excused'
               PROVE  hdfs'[a][n] = written'[a][n]
    BY DEF NoSilentLoss
  <2>4. CASE Busy(a, n)
    BY <2>1, <2>3, <2>4
  <2>5. CASE ~ Busy(a, n)
    <3>1. n < uCount[a] /\ n \in Files
      <4>1. uCount'[a] <= uCount[a] /\ uCount[a] \in Nat /\ uCount'[a] \in Nat
        BY <2>1, <1>b
      <4> QED
        BY <4>1, <1>c
    <3>2. <<a, n>> \notin excused
      BY <2>1
    <3>3. hdfs[a][n] = written[a][n]
      BY <2>5, <3>1, <3>2, <1>a DEF NoSilentLoss
    <3> QED
      BY <2>1, <2>2, <2>5, <3>1, <3>3
  <2> QED
    BY <2>4, <2>5
<1>7. CASE UNCHANGED vars
  BY <1>7, <1>a DEF vars, uVars, job, NoSilentLoss, Busy
<1> QED
  BY <1>1, <1>2, <1>3, <1>4, <1>5, <1>6, <1>7 DEF Step, StepOfWriter, Upload

\* Whatever the interleaving of the writers, the scan, the uploader and the
\* kills, a file the uploader has passed is whole in HDFS or was hit itself by
\* an error or a kill, as long as both count files were written.
THEOREM NothingLostSilently == PackSpec => []NoSilentLoss
<1>1. Init => /\ Typed /\ CountsKept /\ PassedLeft /\ CopyExact /\ NoSilentLoss
  BY InitTyped, InitCountsKept, InitPassedLeft, InitCopyExact, InitNoSilentLoss
<1>2. /\ Typed /\ CountsKept /\ PassedLeft /\ CopyExact /\ NoSilentLoss
      /\ [Step]_vars
      => (Typed /\ CountsKept /\ PassedLeft /\ CopyExact /\ NoSilentLoss)'
  BY NextTyped, NextCountsKept, NextPassedLeft, NextCopyExact, NextNoSilentLoss
<1> QED
  BY <1>1, <1>2, PackNextIsStep, PTL DEF PackSpec
=============================================================================
