------------------------------ MODULE FileSync ------------------------------
(***************************************************************************)
(* The hand-over of data files from DataServer to HDFSFileSync.            *)
(*                                                                         *)
(* DataServer has one writer thread per system identity; it appends to the *)
(* file /root/hadoop/<system>/<n> and moves to file n+1 when n is full.    *)
(* HDFSFileSync is another process: it copies file n to HDFS and removes   *)
(* it.  The two share nothing but the directory: the uploader takes n only *)
(* when n+1 exists.  Each process keeps the number it has come to, per     *)
(* system, in a map in memory and in a count file of its own that it       *)
(* rewrites whole; each is killed (kill -9) and restarted at any moment.   *)
(*                                                                         *)
(* Data is counted in chunks: a chunk is what one HDFSWrite call passes.   *)
(***************************************************************************)
EXTENDS Integers, Sequences, FiniteSets

CONSTANTS
    Systems,      \* system identities (the names of the directories)
    KeysInOrder,  \* the keys of a std::map in its order, for each set of keys
    MaxFile,      \* bound: highest file number the model lets a writer reach
    MaxFileSize,  \* chunks after which the writer changes file (maxfilesize)
    MaxFaults     \* bound: kills of either process and errors of a file system

ASSUME KeysAssumption == KeysInOrder \in [SUBSET Systems -> Seq(Systems)]
ASSUME SystemsAssumption == Systems # {}
ASSUME BoundsAssumption == /\ MaxFile \in Nat
                           /\ MaxFileSize \in Nat \ {0}
                           /\ MaxFaults \in Nat

Files  == 1 .. MaxFile
NoFile == -1
\* What is left of a count file that has been opened with ios::out.
EmptyCounts == [s \in Systems |-> 0]

VARIABLES
    \* DataServer
    wCount,   \* BufferedFileName::m_sysCountMap: last file number counted
    wDisk,    \* its copy in /root/hadoop/syscount.txt
    wStream,  \* HdfsFileInfo::writeFile: "null", "open", or "bad" (not open)
    wFile,    \* number of the file wStream writes
    wPc,      \* where the writer is in BufferedFileName::GetWriteFile
    \* HDFSFileSync
    uCount,   \* m_sysCountMap: number of the next file to upload, 0 = no key
    uDisk,    \* its copy in syscount.txt
    uQueue,   \* uploadService::m_sysIdenQueue
    uPc,      \* where uploadService::Upload is
    uSys, uFile,   \* the file being uploaded
    uRead, uSent,  \* chunks of it read, chunks of it accepted by hdfsWrite
    \* The two file systems
    dirs,     \* systems whose local directory exists
    disk,     \* chunks of each local file that reached the disk, or NoFile
    hdfs,     \* chunks of each HDFS file, or NoFile
    \* History
    written,  \* chunks the writer gave to each file
    excused,  \* files an error or a kill of the uploader may have cut
    stale,    \* processes whose count file an error has left empty or old
    lost,     \* processes started again from a count file that was empty or old
    faults

wVars == <<wCount, wDisk, wStream, wFile, wPc>>
job   == <<uPc, uSys, uFile, uRead, uSent>>
uVars == <<uCount, uDisk, uQueue, job>>
vars  == <<wVars, uVars, dirs, disk, hdfs, written, excused, lost, stale, faults>>

Init ==
    /\ wCount = EmptyCounts /\ wDisk = EmptyCounts
    /\ wStream = [s \in Systems |-> "null"]
    /\ wFile = [s \in Systems |-> 0]
    /\ wPc = [s \in Systems |-> "run"]
    /\ uCount = EmptyCounts /\ uDisk = EmptyCounts
    /\ uQueue = << >>
    /\ uPc = "pick" /\ uSys = CHOOSE s \in Systems : TRUE
    /\ uFile = 0 /\ uRead = 0 /\ uSent = 0
    /\ dirs = {}
    /\ disk = [s \in Systems |-> [n \in Files |-> NoFile]]
    /\ hdfs = [s \in Systems |-> [n \in Files |-> NoFile]]
    /\ written = [s \in Systems |-> [n \in Files |-> 0]]
    /\ excused = {} /\ stale = {} /\ lost = {} /\ faults = 0

\* A process is killed, or a call on a file system fails.
Fault == faults < MaxFaults /\ faults' = faults + 1

\* writeFileNameCount of process p cannot open or write the count file; nobody
\* looks at its result.
CountFileFails(p) == Fault /\ stale' = stale \union {p}

-----------------------------------------------------------------------------
(* DataServer: the writer thread of system s.                              *)

\* The disk once d chunks of the stream have reached it: those of a file that
\* was removed while open reach no name.
Flushed(s, d) ==
    [disk EXCEPT ![s][wFile[s]] = IF @ = NoFile THEN NoFile ELSE d]

\* m_sysCountMapMutex, held through GetWriteFile, is free.
CountMutexFree == \A s \in Systems : wPc[s] = "run"

\* The current file takes more data: bytesWriten < MaxFileSize.
NotFullOffByOne(s) == written[s][wFile[s]] <= MaxFileSize  \* mutant
NotFull(s) == written[s][wFile[s]] < MaxFileSize

\* WriteToLocal hands k chunks to the stream GetWriteFile returned.  The stream
\* buffers: some of what it holds reaches the disk now, the rest at close().
\* A stream that is null or not open swallows them and nothing changes.
WriterAppend(s, k) ==
    /\ wPc[s] = "run" /\ wStream[s] = "open" /\ NotFull(s)
    /\ written' = [written EXCEPT ![s][wFile[s]] = @ + k]
    /\ \E d \in disk[s][wFile[s]] .. written[s][wFile[s]] + k :
          disk' = Flushed(s, d)
    /\ UNCHANGED <<wVars, uVars, dirs, hdfs, excused, lost, stale, faults>>

\* GetWriteFile is asked again for every chunk.
WriterWrite(s) == WriterAppend(s, 1)

\* tsdb_server::GetWriteFile closes a full file, which flushes it.
WriterClose(s) ==
    /\ wPc[s] = "run" /\ wStream[s] = "open" /\ ~ NotFull(s)
    /\ disk' = Flushed(s, written[s][wFile[s]])
    /\ wStream' = [wStream EXCEPT ![s] = "null"]
    /\ UNCHANGED <<wCount, wDisk, wFile, wPc, uVars, dirs, hdfs,
                   written, excused, lost, stale, faults>>

\* BufferedFileName::GetWriteFile makes the directory and opens the next file,
\* truncating a file of that name.  (When mkdir fails nothing changes.)
WriterCreate(s) ==
    LET n == wCount[s] + 1 IN
    /\ CountMutexFree /\ wStream[s] = "null" /\ n \in Files
    /\ dirs' = dirs \union {s}
    /\ disk' = [disk EXCEPT ![s][n] = 0]
    /\ written' = [written EXCEPT ![s][n] = 0]
    /\ wStream' = [wStream EXCEPT ![s] = "open"]
    /\ wFile' = [wFile EXCEPT ![s] = n]
    /\ wPc' = [wPc EXCEPT ![s] = "counting"]
    /\ UNCHANGED <<wCount, wDisk, uVars, hdfs, excused, lost, stale, faults>>

\* The directory is there but the open fails: the stream is returned, and kept,
\* all the same; bytesWriten stays 0, so it is never replaced.
WriterCreateFails(s) ==
    /\ CountMutexFree /\ wStream[s] = "null" /\ wCount[s] + 1 \in Files
    /\ dirs' = dirs \union {s}
    /\ wStream' = [wStream EXCEPT ![s] = "bad"]
    /\ Fault
    /\ UNCHANGED <<wCount, wDisk, wFile, wPc, uVars, disk, hdfs, written,
                   excused, lost, stale>>

\* countPlus: the count in memory, then the open that empties the count file, or
\* fails and leaves it as it is.
WriterCountPlus(s) ==
    /\ wPc[s] = "counting"
    /\ wCount' = [wCount EXCEPT ![s] = @ + 1]
    /\ \/ /\ wDisk' = EmptyCounts /\ wPc' = [wPc EXCEPT ![s] = "persist"]
          /\ UNCHANGED <<stale, faults>>
       \/ /\ CountFileFails("DataServer")
          /\ wPc' = [wPc EXCEPT ![s] = "run"] /\ UNCHANGED wDisk
    /\ UNCHANGED <<wStream, wFile, uVars, dirs, disk, hdfs, written, excused,
                   lost>>

\* writeFileNameCount writes the counts of every system, or leaves the file empty.
WriterPersistStale(s) ==  \* mutant: written before the increment
    /\ wPc[s] = "persist"
    /\ wDisk' = [wCount EXCEPT ![s] = @ - 1]
    /\ wPc' = [wPc EXCEPT ![s] = "run"]
    /\ UNCHANGED <<wCount, wStream, wFile, uVars, dirs, disk, hdfs, written,
                   excused, lost, stale, faults>>
WriterPersist(s) ==
    /\ wPc[s] = "persist"
    /\ \/ wDisk' = wCount /\ stale' = stale \ {"DataServer"} /\ UNCHANGED faults
       \/ CountFileFails("DataServer") /\ UNCHANGED wDisk
    /\ wPc' = [wPc EXCEPT ![s] = "run"]
    /\ UNCHANGED <<wCount, wStream, wFile, uVars, dirs, disk, hdfs, written,
                   excused, lost>>

\* start.sh kills DataServer and starts it again: the streams' buffers are gone
\* and RestoreFileName reads the counts.
WriterKill ==
    /\ Fault
    /\ wCount' = wDisk
    /\ lost' = IF "DataServer" \in stale \/ \E s \in Systems : wPc[s] = "persist"
               THEN lost \union {"DataServer"} ELSE lost
    /\ stale' = stale \ {"DataServer"}
    /\ written' = [s \in Systems |-> [n \in Files |->
          IF wStream[s] = "open" /\ wFile[s] = n /\ disk[s][n] # NoFile
          THEN disk[s][n] ELSE written[s][n]]]
    /\ wStream' = [s \in Systems |-> "null"]
    /\ wFile' = [s \in Systems |-> 0]
    /\ wPc' = [s \in Systems |-> "run"]
    /\ UNCHANGED <<wDisk, uVars, dirs, disk, hdfs, excused>>

-----------------------------------------------------------------------------
(* HDFSFileSync: the scan thread and the upload thread.                    *)

IdleJob == /\ uPc' = "pick" /\ uFile' = 0 /\ uRead' = 0 /\ uSent' = 0
           /\ UNCHANGED uSys

\* StartSearchSysIden: give each new directory a count, then replace the whole
\* queue.  It comes every two minutes, whatever the upload thread is at and
\* whichever systems it has served since.
Scan ==
    /\ uPc # "persist"  \* GetReadFileStream holds m_sysCountMapMutex
    /\ uCount' = [s \in Systems |->
          IF s \in dirs /\ uCount[s] = 0 THEN 2 ELSE uCount[s]]
    /\ uQueue' = KeysInOrder[{s \in Systems : uCount'[s] # 0}]
    /\ UNCHANGED <<wVars, uDisk, job, dirs, disk, hdfs, written, excused,
                   lost, stale, faults>>

\* One turn of Upload's loop takes the head of the queue, puts it at the tail...
NextSystem(s) ==
    /\ uPc = "pick" /\ uQueue # << >> /\ s = Head(uQueue)
    /\ uQueue' = Append(Tail(uQueue), s)

Readable(s, n) == n \in Files /\ disk[s][n] # NoFile
TakeableLater(s) == Readable(s, uCount[s] + 2) /\ Readable(s, uCount[s])  \* mutant
TakeableAtOnce(s) == Readable(s, uCount[s])  \* mutant: no look at the next file
Takeable(s) == Readable(s, uCount[s] + 1) /\ Readable(s, uCount[s])

\* ... and GetReadFileStream finds no file after the current one, or no current
\* one: the thread sleeps.
TakeNothing(s) ==
    /\ NextSystem(s)
    /\ ~ Takeable(s)
    /\ UNCHANGED <<wVars, uCount, uDisk, job, dirs, disk, hdfs, written,
                   excused, lost, stale, faults>>

\* ... or opens the current file and counts it: in memory, and by the open that
\* empties the count file, or fails.
TakeFile(s) ==
    /\ NextSystem(s)
    /\ Takeable(s)
    /\ uSys' = s /\ uFile' = uCount[s]
    /\ uCount' = [uCount EXCEPT ![s] = @ + 1]
    /\ \/ uPc' = "persist" /\ uDisk' = EmptyCounts /\ UNCHANGED <<stale, faults>>
       \/ uPc' = "open" /\ CountFileFails("HDFSFileSync") /\ UNCHANGED uDisk
    /\ UNCHANGED <<wVars, uRead, uSent, dirs, disk, hdfs, written, excused, lost>>

UploaderPersistStale ==  \* mutant: written before the increment
    /\ uPc = "persist"
    /\ uDisk' = [uCount EXCEPT ![uSys] = @ - 1]
    /\ uPc' = "open"
    /\ UNCHANGED <<wVars, uCount, uQueue, uSys, uFile, uRead, uSent,
                   dirs, disk, hdfs, written, excused, lost, stale, faults>>
UploaderPersist ==
    /\ uPc = "persist"
    /\ \/ uDisk' = uCount /\ stale' = stale \ {"HDFSFileSync"} /\ UNCHANGED faults
       \/ CountFileFails("HDFSFileSync") /\ UNCHANGED uDisk
    /\ uPc' = "open"
    /\ UNCHANGED <<wVars, uCount, uQueue, uSys, uFile, uRead, uSent,
                   dirs, disk, hdfs, written, excused, lost>>

OpenHdfs ==
    /\ uPc = "open"
    /\ hdfs' = [hdfs EXCEPT ![uSys][uFile] = 0]
    /\ uPc' = "copy"
    /\ UNCHANGED <<wVars, uCount, uDisk, uQueue, uSys, uFile, uRead,
                   uSent, dirs, disk, written, excused, lost, stale, faults>>

\* hdfsOpenFile returns NULL: on to the next system; the file was counted.
OpenHdfsFails ==
    /\ uPc = "open"
    /\ excused' = excused \union {<<uSys, uFile>>}
    /\ Fault
    /\ IdleJob
    /\ UNCHANGED <<wVars, uCount, uDisk, uQueue, dirs, disk, hdfs,
                   written, lost, stale>>

\* Read a chunk and write it; the result of HDFSWrite is not looked at, and a read
\* that fails ends the loop as the end of the file does.
CopyChunk ==
    /\ uPc = "copy" /\ uRead < disk[uSys][uFile]
    /\ \/ /\ uRead' = uRead + 1 /\ uSent' = uSent + 1
          /\ UNCHANGED <<excused, faults>>
       \/ /\ uRead' \in {uRead + 1, disk[uSys][uFile]} /\ uSent' = uSent
          /\ excused' = excused \union {<<uSys, uFile>>}
          /\ Fault
    /\ UNCHANGED <<wVars, uCount, uDisk, uQueue, uPc, uSys, uFile,
                   dirs, disk, hdfs, written, lost, stale>>

\* At the end of the local file, remove it (it may fail: the file just stays).
RemoveLocal ==
    /\ uPc = "copy" /\ uRead >= disk[uSys][uFile]
    /\ \/ disk' = [disk EXCEPT ![uSys][uFile] = NoFile] /\ UNCHANGED faults
       \/ UNCHANGED disk /\ Fault
    /\ uPc' = "close"
    /\ UNCHANGED <<wVars, uCount, uDisk, uQueue, uSys, uFile, uRead,
                   uSent, dirs, hdfs, written, excused, lost, stale>>

\* hdfsCloseFile completes the HDFS file, or fails and leaves a part of it.
CloseHdfs ==
    /\ uPc = "close"
    /\ \/ /\ hdfs' = [hdfs EXCEPT ![uSys][uFile] = uSent]
          /\ UNCHANGED <<excused, faults>>
       \/ /\ \E k \in 0 .. uSent : hdfs' = [hdfs EXCEPT ![uSys][uFile] = k]
          /\ excused' = excused \union {<<uSys, uFile>>}
          /\ Fault
    /\ IdleJob
    /\ UNCHANGED <<wVars, uCount, uDisk, uQueue, dirs, disk, written,
                   lost, stale>>

\* HDFSFileSync is killed and started again; HDFS keeps a part of what was sent.
UploaderKill ==
    /\ Fault
    /\ uCount' = uDisk /\ uQueue' = << >>
    /\ lost' = IF uPc = "persist" \/ "HDFSFileSync" \in stale
               THEN lost \union {"HDFSFileSync"} ELSE lost
    /\ stale' = stale \ {"HDFSFileSync"}
    /\ excused' = IF uPc = "pick" THEN excused
                  ELSE excused \union {<<uSys, uFile>>}
    /\ IF uPc \in {"copy", "close"}
       THEN \E k \in 0 .. uSent : hdfs' = [hdfs EXCEPT ![uSys][uFile] = k]
       ELSE UNCHANGED hdfs
    /\ IdleJob
    /\ UNCHANGED <<wVars, uDisk, dirs, disk, written>>

-----------------------------------------------------------------------------
Writer(s) == \/ WriterWrite(s) \/ WriterClose(s)
             \/ WriterCreate(s) \/ WriterCreateFails(s)
             \/ WriterCountPlus(s) \/ WriterPersist(s)

Upload == \/ \E s \in Systems : TakeNothing(s) \/ TakeFile(s)
          \/ UploaderPersist \/ OpenHdfs \/ OpenHdfsFails
          \/ CopyChunk \/ RemoveLocal \/ CloseHdfs

Next == \/ \E s \in Systems : Writer(s)
        \/ WriterKill
        \/ Scan \/ Upload
        \/ UploaderKill

Spec == Init /\ [][Next]_vars

\* Both threads of HDFSFileSync loop for ever and never wait for a condition.
FairSpec == Spec /\ WF_vars(Scan) /\ WF_vars(Upload)

-----------------------------------------------------------------------------
WriterTypeOK ==
    /\ wCount \in [Systems -> 0 .. MaxFile] /\ wDisk \in [Systems -> 0 .. MaxFile]
    /\ wStream \in [Systems -> {"null", "open", "bad"}]
    /\ wFile \in [Systems -> 0 .. MaxFile]
    /\ wPc \in [Systems -> {"run", "counting", "persist"}]

UploaderTypeOK ==
    /\ uCount \in [Systems -> Nat] /\ uDisk \in [Systems -> Nat]
    /\ uQueue \in Seq(Systems)
    /\ uPc \in {"pick", "persist", "open", "copy", "close"}
    /\ uSys \in Systems /\ uFile \in 0 .. MaxFile
    /\ uRead \in Nat /\ uSent \in Nat

StoreTypeOK ==
    /\ dirs \subseteq Systems
    /\ disk \in [Systems -> [Files -> 0 .. MaxFileSize \union {NoFile}]]
    /\ hdfs \in [Systems -> [Files -> Nat \union {NoFile}]]
    /\ written \in [Systems -> [Files -> 0 .. MaxFileSize]]
    /\ excused \subseteq Systems \X Files
    /\ stale \subseteq {"DataServer", "HDFSFileSync"}
    /\ lost \subseteq {"DataServer", "HDFSFileSync"}
    /\ faults \in 0 .. MaxFaults

\* Every variable keeps its type: no count passes the last file, no file the size.
TypeOK == WriterTypeOK /\ UploaderTypeOK /\ StoreTypeOK

Busy(s, n) == uPc # "pick" /\ uSys = s /\ uFile = n

\* The uploader never reads, copies or removes the file a writer thread still
\* has open: the test for file n+1 in GetReadFileStream stands in for a lock
\* between the two processes, and kills do not break it as long as DataServer's
\* counts survive.
Exclusive ==
    "DataServer" \notin lost =>
        \A s \in Systems : wStream[s] = "open" => ~ Busy(s, wFile[s])

\* No file is sent to HDFS twice: the count that GetReadFileStream persists
\* before the upload keeps a restarted uploader off the files already begun.
NoReupload ==
    "HDFSFileSync" \notin lost /\ uPc = "open" => hdfs[uSys][uFile] = NoFile

\* Every file the uploader has passed is whole in HDFS, to the last chunk the
\* writer gave it, unless an error of HDFS or of the local file system or a kill of
\* the uploader hit that file.
NoSilentLoss ==
    lost = {} =>
        \A s \in Systems : \A n \in 2 .. MaxFile :
            n < uCount[s] /\ ~ Busy(s, n) /\ <<s, n>> \notin excused
                => hdfs[s][n] = written[s][n]

\* A writer never truncates a file that holds data, whatever the kills between
\* the creation of a file and the writing of its count.
NoOverwrite ==
    [][\A s \in Systems : \A n \in Files :
          disk[s][n] > 0 /\ disk'[s][n] = 0 => "DataServer" \in lost]_vars

\* The system whose directory comes first in the order of the scan.
FirstOfScan(s) == dirs # {} /\ s = Head(KeysInOrder[dirs])

\* A file of the first system that can be uploaded is taken in the end, wherever
\* the scans fall: no kill leaves a gap in the local numbering for the uploader
\* to stop at, and no scan or restart sends its count back.  The code promises
\* no more: a scan puts the first system at the head again, and if that comes
\* before each turn of another one, the other is never served.
FirstSystemTaken ==
    \A s \in Systems : \A n \in 2 .. MaxFile - 1 :
        disk[s][n] # NoFile /\ disk[s][n + 1] # NoFile /\ FirstOfScan(s)
            ~> uCount[s] > n \/ lost # {} \/ ~ FirstOfScan(s)
=============================================================================
