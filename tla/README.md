# A verification project for GreeDataSystem

GreeDataSystem collects the frames that gprs modules in air conditioners send,
saves them in HDFS and lets monitoring clients watch a module live. This
directory holds TLA+ models of it, TLC configurations that check them on small
instances, and proofs that TLAPS checks for every instance.

## The system

Three processes on one host, and their peers:

    gprs modules --tcp--> DataServer --files--> HDFSFileSync --libhdfs--> HDFS
                              |   \--tcp--> SMS server (wakes a gprs)
                        unix socket
                              |
    clients -----tcp---> TransmitServer

The repository has the programs twice: beside `pack/`, and in `pack/`, the later
release. `GuGongServer` is the release's DataServer without the link to
TransmitServer.

| Part | State | Operations | Talks to |
|---|---|---|---|
| DataServer session (`tsdb_session`) | `m_readQueue`, `m_writeQueue`, `m_isLogin`, `m_isTransmit`, last 90 and 91 frame | asio handlers on one io thread: read a frame, answer it, queue it, close | the registry and a global list |
| DataServer capture (`tsdb_server`, `ListWrapper`) | per system 101 lists and an index | append when a queue is long and when a connection ends; one writer thread per system empties the lists | files |
| DataServer files (`BufferedFileName`, `GetWriteFile`) | current file and size per system, `m_sysCountMap`, count file | change file when full, count, persist | the directory `/root/hadoop/<system>` |
| HDFSFileSync (`uploadService`, `BufferedFileName`) | queue of systems, `m_sysCountMap`, count file | scan thread, upload thread | the same directory, HDFS |
| DataServer registry | `m_gprsSession`, `m_messageQueue` and its timer | login and logout of gprs; 92, 93 and other frames of TransmitServer; EE09 after two minutes | sessions, link, SMS client |
| Link | `m_isClientValid`, `m_writeToClientQueue` in DataServer; `m_isConnValid`, `m_writeToServerQueue` in TransmitServer | accept and connect again, write, read | both servers |
| SMS client (`MessageClient`) | a set of requests | one thread that reconnects and sends | SMS server |
| TransmitServer sessions (`ClientSession`, `ClientServer`) | `m_clientSession`, heartbeats, write queues | asio handlers; heartbeat thread | clients |
| TransmitServer monitoring (`ClientServer`) | `m_gprsMap`: clients, 90 and 91 frame of each gprs | start and stop of monitoring, dispatch of DataServer's frames | sessions, link |
| Frames (`data_frame`, `UTIL`) | none | constructors, accessors, check sum | every connection |

What is hard here, and what makes each part correct:

- **File hand-over.** Two processes share only a directory. A file may be copied
  and removed only when the writer has left it, each once, none forgotten; both
  are stopped with `kill -9` (`start.sh`), so the count files carry all of this.
- **Capture.** A frame passes three queues in two threads. None may be lost when
  a connection ends in any way, the order must be that of reception, and a
  writer thread must come to every list.
- **Registry.** Sessions, the link thread and a timer meet at one map and three
  unlocked flags. Sessions register and erase each other by address; a link is
  set up while gprs come and go; an SMS timer races the login.
- **Link.** Queues are spliced, cleared and written by threads that outlive their
  connection, over descriptors that are closed and given out again.
- **Clients and monitoring.** Three threads, two recursive mutexes taken in
  different orders, sessions that die inside a handler. No thread may wait for
  ever; a client must have the 90 and 91 frames of what it watches, whoever was
  first.
- **Both servers.** Each keeps a belief about the other: which gprs are connected,
  which are relayed. The frames that would correct it can be lost with a link.

`PROJECT.json` lists the hazards line by line with the properties that cover
them, and for every definition the lines it is translated from.

## The modules

    FileSync <- PackFileSync <- FileSyncProofs          FrameChannel
    Capture <- CaptureProofs                              ^ implemented by Capture
    ServerLink <- ServerLinkProofs                        ^ and by ServerLink
    Registry <- PackRegistry <- RegistryProofs
    TransmitServer <- PackTransmitServer <- TransmitServerProofs
                      ^ composed by Monitoring <- MonitoringProofs
    Frame <- FrameStream <- FrameProofs
    MessageClient, Config <- SmallPartsProofs
    MCFrames -> FrameStream, MessageClient, Config

`MC...` modules hold the constants of the instances.

### FileSync, PackFileSync — files from DataServer to HDFSFileSync

`Writer(s)` is the writer thread of system `s` below `GetWriteFile`; `WriterCreate`,
`WriterCountPlus` and `WriterPersist` split it where a kill matters: file made,
count file emptied by `open`, counts written. `Scan` and `Upload` are the two
threads of HDFSFileSync, with `TakeFile` and `UploaderPersist` split in the same
way, then `OpenHdfs`, `CopyChunk`, `RemoveLocal`, `CloseHdfs`. `Scan` replaces the queue
every two minutes of the wall clock, so it may come at any moment, whatever the upload
thread has served since the last one. `WriterKill` and
`UploaderKill` restart a process from its count file. A chunk is what one write
passes; a stream buffers, so any part of what was written may be on the disk until
`close`. Errors are actions or outcomes of the step that meets them: of HDFS, of the open
of a data file, of the reads of the uploader, of the open and the write of a count file
(`CountFileFails`; nobody looks at its result). An HDFS file cut short keeps some prefix.
`excused` remembers which file was hit by an error, `stale` which process has not got its
counts to the disk, `lost` which one was started again from a count file that was empty
or old. The properties hold outside of `excused` and `lost`; a failed count file alone
breaks none of them, as the next one written makes up for it. `PackFileSync` is the release, which asks for the file once for
a whole list and so passes the maximum by up to a list.

### Capture and FrameChannel — frames to files

`Capture` has the io thread's handlers (`Io`), the writer thread (`Writer`) and
`Kill`. A frame is its number in the order of reception. `FrameChannel` is the
abstract promise: per connection a set of pending frames, of which the first
are saved in order, none twice, with losses only where a write fails, where a
connection ends and in a crash. One write may save the first frames of several
connections of a file. `IsChannel` is the refinement: the frames of `s` in the
writer's hand, the global list and the session's queue (`Unwritten(s)`) are pending,
the files are the files. What `WriteToLocal` does with files is `FileSync`'s subject.

### Registry, PackRegistry — who is connected, who waits, what TransmitServer is told

Each action is what a thread does under a mutex or between two. The io thread's
handler is cut into steps held in `todo` (`register`, `wake`, `relay`, `store`,
`forward`; `erase`, `sayEnd`), so that the link thread runs between, for example, the
test of `m_isTransmit` and the store of what `WriteToClientQueue` returned. `linkPc`
is the link thread: set up the link (`Clear`, `LinkValid`, and the writer thread's
`Snapshot` of the registry), then 92 (`Get92`, `Stop`), 93 (`Get93`, then `Ask`, `Get91` and `Tell91` or
`PutToMessageQueue`) and other frames (`GetOther`). After the look-up the mutex of the
registry is free: the session may end, and say so, before its 91 frame is queued for
TransmitServer once more (`said` is then `"late91"`). The timer is `Expire` and
`HandleMessageTimeOut`: asio cannot cancel a handler that is ready. Two minutes
pass at any moment. Of the frames queued for TransmitServer the model keeps the
last word on each gprs (`said`). `PackRegistry` is DataServer of `pack/`, which knows no
other frames, and `GuGongServer`, which has no link; the program is chosen
at the start.

### ServerLink — both ends of the unix socket

`HandleClientConnection` and `WriteToClientT(c)` are DataServer's threads,
`HandleConnectToServer` and `HandleReceiveFromServer(c)` TransmitServer's. Links are
numbered; `fd` says what a descriptor stands for, since DataServer closes one only
after a failed read and the system gives it out again while an old writer thread
still holds it. A listening socket has a backlog, and what a connection holds can
be read after its other end has closed. Neither program ignores SIGPIPE: a write to a
connection whose other end is closed ends the process (`WriterDies`, `WriteFails`), and
the branches for EPIPE are never reached. `WriteFails` keeps the other outcome, a write
that was under way when the other end was closed with commands unread: it returns
ECONNRESET. `DRestart` and `TRestart` start a process, after it was killed if it runs. The commands implement `FrameChannel`: the lives of TransmitServer are its
connections, and what DataServer has read is its one file. Pending are the commands
of the queue, of the list being written and in the link.

### TransmitServer, PackTransmitServer — clients and monitoring

Each action is what one thread does between taking and releasing a mutex. `todo`
is the rest of the io thread's handler, so that the other threads may run
between `AddClient` and `TellClient`, for example; `rdPc` is the same for the reader.
`saved` is `m_clientSession`, `entry` is `m_gprsMap`. A closed socket still delivers a
frame that had been read (`"last"`), which is how a dropped client may register
itself again. A session takes its address from its first frame, and any other session
may have the same one: a client that connects again before its old session has ended.
`rivals` remembers who shared an address with whom. DataServer is the environment: the
reader receives any frame.

Undefined behaviour is a choice: `broadcast` to a list erases at its iterator and
then increments it, so after one erasure any of the others may be served
(`Outcomes`, and `skipped` from then on); `HeartBeat` does the same, so entries that
became NULL may stay, and the next thread to use one ends the process (`Die`). The
process may stop, so the runs do not check for deadlock; `NoThreadStuck` says what
deadlock would. `PackTransmitServer` drops a gprs when a broadcast leaves its list
of clients empty.

### Monitoring — a request across both servers

`Monitoring` composes `PackTransmitServer` with what DataServer and the link can tell
it. `Ask`, `Stop`, `Answer` and `Other` are the
client actions with the frame they queue; `Receive` gives the reader the next
frame DataServer sent, instead of any. DataServer is which gprs are registered, which
are relayed, who waits, and what its link thread has left to do for the frame in hand
(`rest`). The handlers of its io thread (`Login`, `Logout`, `Push`, `TimeOut`) are one step
each. The link thread looks a gprs up in one step (`Handle`) and goes on in steps of one
call (`HandleRest`): a gprs may log in or out between any two of them, and the link
thread goes on with the session it has in hand. `Break` loses the first commands and
the last notices, from any point; `Relink` begins with the 91 frames of the
registry. Until then `Say` drops frames, as `WriteToClientQueue` does.

### Frame, FrameStream, MessageClient, Config

`Frame` builds every frame that some program sends, byte by byte, with the
accessors used to dispatch, the check sum and hexadecimal addresses. In
`FrameStream` one program writes them to a connection and the common reader
reads them in pieces of any size. A fold over bytes (`OverBytes`) is the loop of
`crc`; `XorOf` is written bit by bit, so that it can be proved about. `Times` are what a
`struct tm` can hold. `MessageClient` is the SMS client's thread, with
`SendMessage` as its environment calls it: the frame of each request is an object of
its own, so that no request is asked for twice. `Config`
is what a line of a configuration file sets. `MCFrames` checks the three, which share
nothing, in one run: a behaviour is one of the three.

## What is checked

| Run | Instance | States | Shows |
|---|---|---|---|
| files_faults | 1 system, 4 files of 2 chunks, lists of up to 2, 3 faults | 4.3 M | the size of a file is bounded; the uploader is never on the open file; no file goes to HDFS twice; none is passed over in silence; none with data is truncated |
| files_two_systems | 2 systems, 3 files, 1 fault, fair | 238 k | count files shared by two systems; every finished file of the first system is taken in the end, wherever the scans fall |
| capture_lists | 2 gprs in 1 of 2 lists, 4 frames, 1 fault, fair | 314 k | index in range; nothing lost between the queues; `FrameChannel` implemented; every list written |
| registry_wait | 1 gprs, asked for twice, fair | 351 k | no one waits without a timer; every wait ends; `m_isTransmit` is what was ordered |
| registry_sessions | 2 sessions of 1 gprs, one may change its address, any number of links; DataServer of `pack/` and GuGongServer | 5.3 M | every gprs registered has been told to the link in use, none that is gone is believed in; no dead session in the registry |
| link | 3 connections, 2 commands, 2 notices, 2 restarts, SIGPIPE, fair | 363 k | commands: in order, none twice, and those queued while both stay up arrive; none stays with the write thread; notices in order |
| clients | 2 clients with 1 or 2 addresses, 1 gprs, limit 3, 1 missed beat; TransmitServer beside and in `pack/` | 411 k | no thread waits for ever; `m_clientSession` agrees with the connections; clients have the last 91 frames and monitors the 90 frame; in `pack/` a broadcast drops no client that has not left |
| monitoring | 1 client, 1 gprs, 1 under way, 1 waited for, 1 break, fair | 622 k | every request is answered by the gprs or by EE09 as long as the link holds; what TransmitServer believes connected is; a relay nobody watches ends |
| frames | 5 programs, 2 frames; 3 requests; lines of 5 characters | 83 k | every frame is read as it was meant, however it is cut; a request is in one place; a line sets what it says |

Runs that find the code and its own words apart (each checks one statement):

| Run | Statement | What happens |
|---|---|---|
| clients_limit | the number of clients is limited | at the limit the mutex is kept and every other thread waits for ever |
| registry_null | a gprs that has not logged in gets an SMS | another frame for it has left a NULL session in the map, and the 93 frame goes the way of one for a connected gprs: it ends DataServer. Not in `pack/` (`ReleaseAsksBySms`) |
| monitoring_joined | already monitored | a relay has ended in DataServer, and the frame that would say so was lost with the link; the client waits for frames nobody sends |

Each property has a mutant of the code that breaks it, kept beside the definition
it changes and listed in `PROJECT.json`.

### Bounds, and why they are enough

Bounds of the models: `MaxFile`, `MaxList`, `MaxFrames`, `MaxFaults`, `MaxPuts`,
`MaxLinks`, `MaxCommands`, `MaxNotices`, `MaxRestarts`, `MaxUnderWay`, `MaxWaits`,
`MaxBreaks`, `MaxLine`. The other numbers are constants of the code, made small.

- *Files.* `MaxFile` 4 lets the uploader, which starts at 2, pass one file and hold
  the next while a writer is on the one after; three faults let a kill of one
  process follow a kill of the other and an error.
- *Capture.* With `MaxQueueSize` 1, four frames make a queue that is handed over, a
  rest, and a second connection's frames between them; of two lists one stays
  empty. The limit is 0: the code tests with `>`, so one gprs may be connected, and
  two when the first was erased by a failed write and goes on reading.
- *Registry.* Two sessions of one address are enough for one to erase the other, two
  entries for a timer to be set anew, and `Asked` is the address only one session
  may have, so that the map has an entry of the other kind.
- *Link.* Three connections let a descriptor be given out again to a link that
  itself breaks, and the third be the lasting one; two restarts let a process that
  SIGPIPE has ended be started, and the other one end after it. In `registry_sessions` links are set up
  any number of times.
- *Clients.* Two are enough for one to act inside the other's handler, for a list
  with a member that has left and one that has not, and for an old and a new session of
  one address, which the run has beside two addresses; one gprs, since entries of
  `m_gprsMap` do not interact. The limit of 3 keeps `clients` below it; `clients_limit` has 1.
  Each step of the run is one of either program, so that its behaviours contain those of
  both. `View` leaves out what no later step and no property reads any more: `lastCmd`, and
  the beats, rivals and frames of a session that is gone.
- *Monitoring.* `Quiet` holds back what clients and gprs begin while as much as
  `MaxUnderWay` is between the servers, and `Calm` also while the link thread has a frame
  in hand. A login is held back by `Quiet` only, a logout by nothing, so either may come
  while an SMS is waited for (`MaxWaits` bounds how many are) and between any two steps
  of the link thread; what the servers answer is never held back. One client
  that leaves and one gprs are enough for an entry without clients; heartbeats are
  in `clients`. A gprs connects again after its connection has ended (two at a
  time are in `registry_sessions`), and reports in one of the patterns 0 to 5.

### Fairness

Weak fairness stands for a thread that loops and waits for nothing but mutexes
held for a bounded time: `Scan`, `Upload` and the capture's writer threads; the io
thread's current handler and the link thread's in `Registry`; the four threads of
`ServerLink`; the reader, the link thread (`Handle`, `HandleRest`), the timer and the thread that
connects again in `Monitoring`. `HandleMessageTimeOut` has strong fairness: the handler is
ready again and again between others, and io_service runs what is ready in turn.
Clients, gprs, faults, lost links and restarts have none.

`FirstSystemTaken` asks no more than the code gives: a scan may fall anywhere, so only
the system that is first in it is served whatever else goes on.
`EveryCommandArrives` asks for a link that is up, or can be made, once no process is
killed from outside any more, and excuses DataServer ended by SIGPIPE, which the writer
thread of an older link can still bring about.
`VainRelayEnds` asks only for gprs that go on sending and do not log in or send 91
frames again and again: each of these makes or keeps an entry.

## What is proved

For every value of the constants under the named assumptions of the modules, and
for the programs beside and in `pack/` alike where both have the part:

- **FileSyncProofs.** `BufferIsList`: `FileSync` implements `PackFileSync`, so the rest
  holds of both. `Typed` adds to the types what they need to be inductive: one
  writer at most is inside `GetWriteFile`, and a thread's open file is the one its
  count names, or is about to name (`WriterInv`). `CountsKept` gives
  `UploaderExclusive` and `NothingOverwritten`: unless DataServer was started again from a
  count file that was empty or old, the count file agrees with memory whenever no
  thread is about to write it and the last writing went through, there is no file beyond the one after the count, and that one is
  empty; so a file with a successor is not the one being written, and what a
  restarted writer truncates is empty. `UploadsCounted` (every file begun in HDFS is
  below the count HDFSFileSync would restart from, if that was written: `DiskCounts`) gives `SentOnce`. `PassedLeft` (a
  passed file is one the writer has left) and `CopyExact` (what was sent is what was
  read, up to the failures that are recorded) give `NothingLostSilently`. `SizeKept`
  bounds every file by the maximum and one list.
- **RegistryProofs.** One invariant, `IInv`, over every handler of the three threads.
  `Waits`: while the list has entries the timer is pending or ready, and entries are
  in order of arrival. `Relays`: the flag is what was ordered, or the session is
  among those overruled. `Owned`: who is in the map reads, or is being erased, or has
  moved. `Told`: of each registered gprs the link in use has been told, or the
  handler, or the writer's snapshot, is about to. `Believed`: whom the link believes in is
  a session that will say its end, unless its 91 frame was queued for a 93 frame after
  it had. From it: `WaitingServed`, `RelayKeepsOrder`,
  `RegistryHasNoGhost`, `EveryConnectedTold`, `NoneBelievedGone`, for DataServer, for the
  release and for GuGongServer. `ReleaseAsksBySms` is by `NoNull`, which only the
  release keeps.
- **TransmitServerProofs.** With the types of the maps, `ClientsUpToDate` and
  `MonitorsUpToDate` are inductive themselves: `EveryClientTold`, `EveryMonitorAnswered`.
  `NoReaderStuck` is by `GivenBack`, the mutex is free outside a handler, which holds while the
  clients have fewer addresses than `CLINET_NUMBER` (the assumption `Room`; at the limit
  `clients_limit` shows the contrary). `NoMonitorDropped` for `pack/`. `ServerTypes` needs more than types: what the io
  thread's handler is about to do decides who may still be saved again
  (`HandlerShape`), and with it a client is dropped at `BeatLimit` + 1 missed beats and
  counted at most one more (`BeatBound`). `ClientsFound` assumes that there is
  room for all (`Room`): at the limit a client is refused. Clients may share addresses.
  `ClientsSaved` says which client is saved at each step of its handler, that who is
  found in its place, or took its place away by ending, is noted in `rivals`
  (`RivalsNoted`), and that nobody is saved whose handlers have ended (`DoneClosed`).
- **CaptureProofs.** `NoFrameLost` by `Kept`, every frame of a connection is in its
  queue, its list, the writer's hand or the file, and `Emptied`, an ended connection
  has nothing queued. `CaptureIsChannel` is the refinement, by `Lined`: each frame is
  where its connection may put it (`InPlace`), and the frames of a connection are in
  order inside every queue and from the writer's hand to the global list to the
  session (`InTurn`). Each way in which a queue changes (`Received`, `Spliced`, `TookList`,
  `Cleared`, `WroteFirst`) keeps it; the lemmas then say what becomes of the pending
  frames, and `StepsChannel` which step of the channel each action is. That the frames
  in the hand of the writer are all ahead of its next list rests on its hand being
  empty when it takes one. `FramesInOrder` says what the channel means for the files.
- **ServerLinkProofs.** `LinkTypeCorrect` by `Typed`. `CommandsInOrder` by `Ordered`: read,
  in the links that can still be read, in hand, queued, the commands increase, and a link
  that DataServer may still read is not younger than what it reads
  (`Connections`). `NoticesInOrder` by `AllRead`: as long as no link ended with notices
  unread, what is told, in the link and queued are all the notices there were
  (`Telling`), and the writer that holds the list writes to the link in use
  (`OwnLink`). `LinkIsChannel` needs besides that what is under way is of the present
  life or in a link of an old one that is read first (`Reached`, `OfThisLife`).
- **FrameProofs.** First what is written: an address turned to a string and back is
  itself (`AddressRead`), and every message of every program is well formed
  (`AnswersWellFormed`, `TellsWellFormed`): its parts, its length field and its check sum
  are what the writer meant (`BuiltFrame`). Then the connection, by `FrameInv`: the bytes
  in the reader's buffer and those under way are the frames not yet read, one after the
  other, and the buffer holds less than the first of them (`Unfinished`). Where a frame
  begins is a sum of lengths, which cannot be had without induction; the invariant says
  instead that some function `end` of the frames written grows by each frame's length
  (`Ends`) and tells where its bytes are (`Carries`). A write extends the function, a read
  leaves it alone, and what the reader asks for never passes the end of the frame
  (`AskedFor`: once it has the header, the length field is the frame's own). This gives
  `ReadAsWritten`. `CheckSumsRight` keeps the fold a fold: what is proved is that the turn
  of the code's loop is that of the polynomial (`StepOfPolynomial`) and that it goes over
  the right bytes. It rests on `TableAssumption`, that the 256 entries of the table are the
  polynomial's: a finite statement without constants, too large for the provers, which
  TLC evaluates in full in the run `frames`.
- **SmallPartsProofs.** `RequestInOnePlace` by `Places`, which adds that everything was
  asked for, and that the thread comes to `send` with a list that is not empty.
  `LineReadAsMeant`, for lines of any length, without induction: the
  first position of a character in a line is the least of a set of positions
  (`FindFirst`, by well-foundedness of the numbers), which does not change when the
  comment is cut off (`FindInText`). A text of at most two characters sets nothing
  a program asks for, as no key has one character (`ShortText`); of a longer one either
  '=' comes before the comment, and key and value are the same, or after it, and the key
  holds '#' (`TrimKeeps`: trimming loses only spaces), so that no program asks for it.
- **MonitoringProofs.** `ServerComposed`: the composition implements
  `PackTransmitServer`, step by step, so the theorems on it hold of the composition.
  `BeliefsTrue`: `Kept` says that a 91 frame is kept only in an entry, whose EE08 frame
  is not rejected; `Believed` that of each gprs that is not connected an EE08 frame is
  under way with no 91 frame after it, or the entry has no 91 frame and none is under
  way, unless the EE08 frame was lost with a link or the link thread has queued the 91
  frame of a gprs that had left. `ClientsToldAcrossTheLink` and
  `ClientsFoundAcrossTheLink` carry over, by `ServerComposed`, what was proved of
  TransmitServer alone: nothing DataServer or the link does breaks it.

Only model-checked: all liveness and with it fairness (`FirstSystemTaken`,
`EveryListWritten`, `EveryWaitEnds`, `EveryCommandArrives`, `EveryCommandLeaves`,
`EveryRequestAnswered`, `VainRelayEnds`), which is out of the prover's reach, as is
ENABLED; and that the table of `crc` is the polynomial's (`TableAssumption`). `AnsweredTruly`,
`NoThreadStuck` at the limit and, in the program beside `pack/`, `AsksBySms` do not hold,
as `monitoring_joined`, `clients_limit` and `registry_null` show.

## Seen in the code, without a run

- File 1 of a new directory is never uploaded: the uploader starts at 2
  (`HDFSFileSync/src/BufferedFileName.cpp:168`), the writer at 1. The properties are
  about the files from 2 on.
- After a failed `hdfsOpenFile` the file, counted before, is not tried again
  (`uploadService.cpp:70`): `NoSilentLoss` excuses it.
- A scan replaces the queue of systems (`uploadService.cpp:30-38`) and puts the first one
  in front: if uploads take so long that a scan falls before the turn of another system,
  that one is never served. `FirstSystemTaken` is about the first only.
- Registration and removal of clients are by address. A client that connects again
  while its old session is there is not saved (`ClientServer.cpp:65`), and the end of the
  old session, or of its last write, erases whoever is saved there. Then no broadcast
  finds the client; `ConnectedSaved` says that it happens to rivals only.
- A 93 frame for a gprs that reports in real time is answered with its 90 and 91 frames
  after the registry was unlocked (`tsdb_server.cpp:413`, `424-425`; `pack/` `412`,
  `423-424`). If the gprs logs out in between, its 91 frame follows EE08, and TransmitServer
  keeps a gprs that is gone until it comes back. `OnlineIsConnected` and `OnlineAsTold`
  except just that. The 90 frame of a session that only sent 91 frames is NULL there.
- The comments and branches on EPIPE (`tsdb_server.cpp:136`, `155`, `ClientServer.cpp:333`)
  expect a failed write; nothing ignores SIGPIPE, so the write ends the process.
- The end of a monitoring forgets the 91 frame of a gprs that stays connected
  (`ClientServer.cpp:213`): a client that connects later is not told of it.
- What an ended session has queued is handed over after frames of the gprs's next
  session may have been (`tsdb_session.cpp:229`). `FrameChannel` orders each connection
  by itself.
- The 92 frame the release queues for a gprs without clients names it as source
  (`pack/TransmitServer/src/ClientServer.cpp:408`); DataServer looks at the destination
  and stops none. The next frame of the gprs is answered by a 92 frame that does stop it.
- The reader of TransmitServer tests `m_gprsMap`, unlocks, and then queues the 92 frame
  (`ClientServer.cpp:361`): a client that starts to monitor in between has its 93 frame
  overtaken and is stopped. `AnsweredTruly` excuses a gprs whose last command is 92.
- HandleReceivedClientData unlocks between the look-up that does not find a gprs and
  the entry in the waiting list (`tsdb_server.cpp:408`). A gprs that logs in in between
  finds no entry to take out, and EE09 is sent for it two minutes later.
- Beside `pack/`, the code under "if no client listens, close the gprs"
  (`ClientServer.cpp:404`) is commented out: DataServer relays a gprs without clients
  for ever. This is the mutant of `ReceiveOther` on which `VainRelayEnds` fails; in
  `pack/` the code is there and the property holds.
- TransmitServer notices that its link has ended when it next writes: the reader
  returns without clearing `m_isConnValid`. `EveryCommandLeaves` and
  `EveryCommandArrives` say what becomes of the command.

## Not modelled, and why

- The log, `GetSysMac`, number formatting, the hash that picks a list (constants of
  the models), `HdfsConnectionPool` and functions nobody calls: no protocol state.
- `src/test` (load-test builds) and the Python simulators: the environment actions
  stand for any peer.
- Bytes within a chunk or a frame outside of `Frame`; hence a short `hdfsWrite`, which the code
  repeats from the start of the buffer (`HDFSReadWrite.cpp:88`).
- A `write_some` that passes a part of a frame (`MessageClient.cpp:80`): the frame is
  popped all the same, and the model has it as written.
- A descriptor that the reader of TransmitServer closed, as a frame broke off in its data
  (`ClientServer.cpp:260-266`), and that is given out to a client before the write thread
  uses it again; in `ServerLink` the next write on it fails.
- A client that sends a second 90 frame with another address (`ClientSession.cpp:152`): a
  session of `TransmitServer` has one.
- Times: a timer may fire at any moment after it is set.
- A `std::map` changed by two threads without a lock (`m_writeFileMap`): each writer
  thread is modelled with its own entry.
- In `Capture`, a session that sends a second 90 frame with another address (it is in
  `Registry`).
- In `Monitoring`, EE07 and 88 frames, a second 90 frame and two connections of one
  gprs at a time.

## Plan

Done: `FileSync`, `Capture`, `TransmitServer`, `Registry`, `ServerLink`, the frames, the
release, `Monitoring`; every safety property of the passing runs is proved, and both
refinements of `FrameChannel`. Left, in this order: a second gprs connection at a time
in `Monitoring`; `Monitoring` over `Registry`'s steps instead of single handlers, for
which its state space must first be cut.
