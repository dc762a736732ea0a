-------------------------------- MODULE Vasim --------------------------------
(***************************************************************************)
(* The voice activation simulator, vasim.cpp, and the C# program that      *)
(* starts it, IPCClient.cs, Program.cs and Job.cs.  The server creates one *)
(* pipe instance only.  Each time its wait returns because the event is    *)
(* signalled it makes a pass: it allocates a PIPEINST, posts a command if  *)
(* there are any left, and begins a read.  The client reads commands in    *)
(* pieces of 64 bytes and answers each.  Its process, and through the job  *)
(* object perhaps the server's, ends when a key is pressed.                *)
(*                                                                         *)
(* The completion routines of vasim print and do nothing else: they are    *)
(* not represented.                                                        *)
(***************************************************************************)
EXTENDS Naturals

CONSTANTS
    MaxCommands,    \* 3 in the code
    CommandLength,  \* the characters of a command with its zero: 17
    PieceLength,    \* those of a piece: 32
    MaxReads        \* the reads that Windows lets be pending

ASSUME VasimAssumption ==
    /\ MaxCommands \in Nat \ {0}
    /\ CommandLength \in Nat \ {0} /\ PieceLength \in Nat \ {0}
    /\ CommandLength <= PieceLength
    /\ MaxReads \in Nat /\ MaxReads > MaxCommands

VARIABLES
    srv,            \* where the server's process is
    pipe,           \* its instance, as Windows has it
    event, fPendingIO,
    iCommand,
    freed,          \* whether the pass has freed its PIPEINST already
    misused,        \* history: a freed PIPEINST was used
    reads,          \* the reads pending
    pc,             \* where the client's process is
    inJob, serverInJob,    \* which processes are in the job object
    unread,         \* the characters that wait for the client
    answers,        \* the answers that wait for the server
    late, cut       \* history: two commands waited together; a piece was not one command

serverVars == <<srv, event, fPendingIO, iCommand, freed, misused>>
clientVars == <<pc, inJob, serverInJob>>
wireVars == <<reads, unread, answers, late, cut>>
vars == <<serverVars, pipe, clientVars, wireVars>>

TypeOK ==
    /\ srv \in {"none", "create", "connect", "wait", "fetch", "ended"}
    /\ pipe \in {"none", "listening", "connected", "left", "closed"}
    /\ event \in BOOLEAN /\ fPendingIO \in BOOLEAN
    /\ iCommand \in 0..MaxCommands
    /\ freed \in BOOLEAN /\ misused \in BOOLEAN
    /\ reads \in 0..MaxReads
    /\ pc \in {"job", "start", "connect", "read", "write", "key", "gone"}
    /\ inJob \in BOOLEAN /\ serverInJob \in BOOLEAN
    /\ unread \in 0..MaxCommands * CommandLength
    /\ answers \in Nat
    /\ late \in BOOLEAN /\ cut \in BOOLEAN

Init ==
    /\ srv = "none" /\ pipe = "none"
    /\ event = TRUE /\ fPendingIO = FALSE
    /\ iCommand = 0 /\ freed = FALSE /\ misused = FALSE
    /\ reads = 0 /\ unread = 0 /\ answers = 0 /\ late = FALSE /\ cut = FALSE
    /\ pc = "job" /\ inJob = FALSE /\ serverInJob = FALSE

-----------------------------------------------------------------------------
(* The server.                                                             *)

\* CreateNamedPipe may fail: FALSE is returned, with the event signalled.
CreateNamedPipe ==
    /\ srv = "create"
    /\ \/ srv' = "connect" /\ pipe' = "listening"
       \/ srv' = "wait" /\ pipe' = "closed"
    /\ UNCHANGED <<event, fPendingIO, iCommand, freed, misused, clientVars, wireVars>>

\* See module OverlappedServer, whose original has the same function.
ConnectToNewClient ==
    /\ srv = "connect" /\ srv' = "wait"
    /\ fPendingIO' = (pipe = "listening")
    /\ event' = (pipe = "connected")
    /\ UNCHANGED <<pipe, iCommand, freed, misused, clientVars, wireVars>>

\* Mutant of Pass: the event is reset once the connection is known.
MutPass ==
    /\ srv = "wait" /\ event
    /\ srv' = "fetch"
    /\ freed' = (iCommand < MaxCommands /\ pipe # "connected")
    /\ iCommand' = IF iCommand < MaxCommands THEN iCommand + 1 ELSE iCommand
    /\ unread' = IF iCommand < MaxCommands /\ ~freed' THEN unread + CommandLength ELSE unread
    /\ late' = (late \/ (unread > 0 /\ unread' > unread))
    /\ pipe' = IF freed' THEN "closed" ELSE pipe
    /\ event' = (iCommand' < MaxCommands)
    /\ UNCHANGED <<fPendingIO, misused, clientVars, reads, answers, cut>>

\* Mutant of Pass: there is no limit to the commands.
MutPassForever ==
    /\ srv = "wait" /\ event
    /\ srv' = "fetch"
    /\ freed' = (pipe # "connected")
    /\ iCommand' = iCommand + 1
    /\ unread' = IF ~freed' THEN unread + CommandLength ELSE unread
    /\ late' = (late \/ (unread > 0 /\ unread' > unread))
    /\ pipe' = IF freed' THEN "closed" ELSE pipe
    /\ UNCHANGED <<event, fPendingIO, misused, clientVars, reads, answers, cut>>

\* Mutant of Pass: PostMessageToClient frees the PIPEINST when the write succeeds, too.
MutPassFrees ==
    /\ srv = "wait" /\ event
    /\ srv' = "fetch"
    /\ freed' = (iCommand < MaxCommands)
    /\ iCommand' = IF iCommand < MaxCommands THEN iCommand + 1 ELSE iCommand
    /\ unread' = IF freed' /\ pipe = "connected" THEN unread + CommandLength ELSE unread
    /\ late' = (late \/ (unread > 0 /\ unread' > unread))
    /\ UNCHANGED <<pipe, event, fPendingIO, misused, clientVars, reads, answers, cut>>

\* A pass up to FetchMessageFromClient, and with the sleep if it posts.  WriteFileEx
\* fails if the client has left: the PIPEINST is freed.
Pass ==
    /\ srv = "wait" /\ event
    /\ srv' = "fetch"
    /\ freed' = (iCommand < MaxCommands /\ pipe # "connected")
    /\ iCommand' = IF iCommand < MaxCommands THEN iCommand + 1 ELSE iCommand
    /\ unread' = IF iCommand < MaxCommands /\ ~freed' THEN unread + CommandLength ELSE unread
    /\ late' = (late \/ (unread > 0 /\ unread' > unread))
    /\ pipe' = IF freed' THEN "closed" ELSE pipe
    /\ UNCHANGED <<event, fPendingIO, misused, clientVars, reads, answers, cut>>

\* GlobalAlloc fails, and Init returns.
AllocFails ==
    /\ srv = "wait" /\ event
    /\ srv' = "ended" /\ pipe' = "closed"
    /\ UNCHANGED <<event, fPendingIO, iCommand, freed, misused, clientVars, wireVars>>

Readable == pipe = "connected" \/ (pipe = "left" /\ answers > 0)

\* Mutant of FetchMessageFromClient: a read with nothing to be read fails.
MutFetchMessageFromClient ==
    /\ srv = "fetch" /\ ~freed
    /\ srv' = "wait"
    /\ IF answers > 0 THEN reads' = reads + 1 /\ UNCHANGED pipe
                      ELSE reads' = 0 /\ pipe' = "closed"
    /\ UNCHANGED <<event, fPendingIO, iCommand, freed, misused, clientVars,
                   unread, answers, late, cut>>

\* A read is begun; if it fails DisconnectAndClose ends the reads that are pending.
FetchMessageFromClient ==
    /\ srv = "fetch" /\ ~freed
    /\ srv' = "wait"
    /\ IF Readable /\ reads < MaxReads THEN reads' = reads + 1 /\ UNCHANGED pipe
                                       ELSE reads' = 0 /\ pipe' = "closed"
    /\ UNCHANGED <<event, fPendingIO, iCommand, freed, misused, clientVars,
                   unread, answers, late, cut>>

\* The same with a PIPEINST that PostMessageToClient has freed.
FetchWithFreed ==
    /\ srv = "fetch" /\ freed
    /\ srv' \in {"wait", "ended"}
    /\ misused' = TRUE
    /\ pipe' = "closed" /\ reads' = 0
    /\ UNCHANGED <<event, fPendingIO, iCommand, freed, clientVars, unread, answers, late, cut>>

ReadCompletes ==
    /\ reads > 0 /\ answers > 0
    /\ reads' = reads - 1 /\ answers' = answers - 1
    /\ UNCHANGED <<serverVars, pipe, clientVars, unread, late, cut>>

-----------------------------------------------------------------------------
(* The client.                                                             *)

\* The result of AddProcess is not looked at.
AddProcess ==
    /\ pc = "job" /\ pc' = "start"
    /\ inJob' \in BOOLEAN
    /\ UNCHANGED <<serverVars, pipe, serverInJob, wireVars>>

\* Mutant of StartServer: the server is not a child that takes part in the job.
MutStartServer ==
    /\ pc = "start" /\ pc' = "connect"
    /\ srv' = "create" /\ serverInJob' = FALSE
    /\ UNCHANGED <<event, fPendingIO, iCommand, freed, misused, pipe, inJob, wireVars>>

\* A process that a process in a job starts is in the job too.
StartServer ==
    /\ pc = "start" /\ pc' = "connect"
    /\ srv' = "create" /\ serverInJob' = inJob
    /\ UNCHANGED <<event, fPendingIO, iCommand, freed, misused, pipe, inJob, wireVars>>

Connect ==
    /\ pc = "connect" /\ pc' = "read"
    /\ pipe = "listening" /\ pipe' = "connected"
    /\ event' = (event \/ fPendingIO)
    /\ UNCHANGED <<srv, fPendingIO, iCommand, freed, misused, inJob, serverInJob, wireVars>>

\* Mutant of Piece: the number of bytes is halved twice.
MutPiece == IF unread < PieceLength \div 2 THEN unread ELSE PieceLength \div 2

\* What ReadString(64) returns of the stream, in characters.
Piece == IF unread < PieceLength THEN unread ELSE PieceLength

ReadString ==
    /\ pc = "read" /\ pipe = "connected" /\ unread > 0
    /\ pc' = "write"
    /\ unread' = unread - Piece
    /\ cut' = (cut \/ Piece # CommandLength)
    /\ UNCHANGED <<serverVars, pipe, inJob, serverInJob, reads, answers, late>>

WriteStringFixed ==
    /\ pc = "write" /\ pipe = "connected"
    /\ pc' = "read"
    /\ answers' = answers + 1
    /\ UNCHANGED <<serverVars, pipe, inJob, serverInJob, reads, unread, late, cut>>

\* The server has hung up, which discards what was not read: the task ends by an
\* exception, and the process waits for a key.
TaskEnds ==
    /\ pc \in {"read", "write"} /\ pipe = "closed"
    /\ pc' = "key"
    /\ UNCHANGED <<serverVars, pipe, inJob, serverInJob, wireVars>>

\* A key is pressed, or the process is ended.  Its task does not live to close the pipe;
\* Windows does.
Exit ==
    /\ pc # "gone" /\ pc' = "gone"
    /\ pipe' = IF pipe = "connected" THEN "left" ELSE pipe
    /\ unread' = 0
    /\ UNCHANGED <<serverVars, inJob, serverInJob, reads, answers, late, cut>>

\* The last handle of the job is closed, which ends the processes in it.
KillOnClose ==
    /\ pc = "gone" /\ serverInJob
    /\ srv \notin {"none", "ended"}
    /\ srv' = "ended" /\ pipe' = "closed"
    /\ UNCHANGED <<event, fPendingIO, iCommand, freed, misused, clientVars, wireVars>>

-----------------------------------------------------------------------------
ServerNext ==
    \/ CreateNamedPipe \/ ConnectToNewClient
    \/ Pass \/ FetchMessageFromClient \/ FetchWithFreed

ClientNext ==
    \/ AddProcess \/ StartServer \/ Connect
    \/ ReadString \/ WriteStringFixed \/ TaskEnds

Next == ServerNext \/ AllocFails \/ ReadCompletes \/ ClientNext \/ Exit \/ KillOnClose

Spec == Init /\ [][Next]_vars

\* Both processes run, and Windows ends those of a job whose last handle is closed.
FairSpec ==
    Spec /\ WF_vars(ServerNext) /\ WF_vars(ClientNext) /\ WF_vars(KillOnClose)

-----------------------------------------------------------------------------
\* Each piece that the client shows is one command, unless a command was posted before the
\* one before it was read (vasim.cpp:93-105, IPCClient.cs:56, StreamString.cs:32-40).
PiecesAreCommands == cut => late

\* A PIPEINST is used after it was freed only if there was no pipe or the client's process
\* had ended by then (vasim.cpp:101-108, 150-153).
MisuseMeansNoClient == misused => pc \in {"start", "connect", "gone"}

\* The server does not hang up on a client that stays before it has posted all commands
\* (vasim.cpp:92-108, 187-190).
HangsUpLate == pipe = "closed" /\ pc \in {"read", "write"} => iCommand = MaxCommands \/ srv = "ended"

\* Nothing but the client's leaving keeps the server from going round for ever: the event
\* is never reset, each pass begins one more read, and in the end one fails and the client
\* is hung up on, although it has done nothing (vasim.cpp:46-49, 171-190).
HangsUpInTheEnd == pc = "read" /\ srv = "wait" ~> pipe # "connected"

\* The server does not outlive a client that is in the job (IPCClient.cs:23-30).
NoOrphan == pc = "gone" /\ inJob ~> srv \in {"none", "ended"}
=============================================================================
