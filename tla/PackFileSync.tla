---------------------------- MODULE PackFileSync ----------------------------
(***************************************************************************)
(* The hand-over of files in the release of pack/, whose DataServer asks   *)
(* for the file to write once for a whole list and not, as FileSync, for   *)
(* every buffer: a file grows past MaxFileSize by as much as a list holds. *)
(*                                                                         *)
(* A list is written in one step.  Nobody looks at the file meanwhile, and *)
(* a kill amid a list leaves what a shorter list would have left.          *)
(***************************************************************************)
EXTENDS FileSync

CONSTANT MaxList  \* bound: buffers WriteToLocal makes of one list

ASSUME MaxListAssumption == MaxList \in Nat \ {0}

-----------------------------------------------------------------------------
(* DataServer: the writer thread of system s.                              *)

\* Mutant: the file that is asked for before the list is used for it even when
\* it is full.
PackWriteToLocalAnyway(s) ==
    /\ wPc[s] = "run" /\ wStream[s] = "open" /\ written[s][wFile[s]] <= MaxFileSize
    /\ \E k \in 1 .. MaxList :
          LET size == written[s][wFile[s]] + k IN
          /\ written' = [written EXCEPT ![s][wFile[s]] = size]
          /\ \E d \in disk[s][wFile[s]] .. size : disk' = Flushed(s, d)
    /\ UNCHANGED <<wVars, uVars, dirs, hdfs, excused, lost, stale, faults>>

\* WriteToLocal, when GetWriteFile finds that the current file is not full: every
\* buffer of the list goes to it.
PackWriteToLocal(s) == \E k \in 1 .. MaxList : WriterAppend(s, k)

\* GetWriteFile closes a full file before the next list ...
PackClose(s) == WriterClose(s)

\* ... and makes the next one ...
PackOpen(s) == WriterCreate(s) \/ WriterCreateFails(s)

\* ... which countPlus counts and writeFileNameCount persists.
PackCount(s) == WriterCountPlus(s) \/ WriterPersist(s)

PackWriterKill == WriterKill

-----------------------------------------------------------------------------
(* HDFSFileSync.                                                           *)

PackScan == Scan

\* GetReadFileStream and the count it persists.
PackTake == (\E s \in Systems : TakeNothing(s) \/ TakeFile(s)) \/ UploaderPersist

\* The rest of a turn of the loop in Upload.
PackCopy == OpenHdfs \/ OpenHdfsFails \/ CopyChunk \/ RemoveLocal \/ CloseHdfs

PackUploaderKill == UploaderKill

-----------------------------------------------------------------------------
PackWriter(s) == PackWriteToLocal(s) \/ PackClose(s) \/ PackOpen(s) \/ PackCount(s)

PackUpload == PackTake \/ PackCopy

PackNext == \/ \E s \in Systems : PackWriter(s)
            \/ PackWriterKill
            \/ PackScan \/ PackUpload
            \/ PackUploaderKill

PackSpec == Init /\ [][PackNext]_vars

-----------------------------------------------------------------------------
\* A file passes MaxFileSize by less than one list, on the disk and in HDFS,
\* whatever is killed and whatever number a restarted writer begins with.
SizeBounded ==
    \A s \in Systems : \A n \in Files :
        /\ written[s][n] < MaxFileSize + MaxList
        /\ disk[s][n] < MaxFileSize + MaxList
        /\ hdfs[s][n] < MaxFileSize + MaxList
=============================================================================
