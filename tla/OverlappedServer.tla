-------------------------- MODULE OverlappedServer --------------------------
(***************************************************************************)
(* original.cpp: one thread that serves many clients of \\.\pipe\testpipe. *)
(* It waits alertably for the event of the next connection; reads and      *)
(* writes of the connected clients end in completion routines, which run   *)
(* only inside that wait.  Each action at loop = "wait" is one return of   *)
(* the event, or one completion routine.  The clients are the processes of *)
(* Aetrex.IPCCPP.Client.cpp.                                               *)
(***************************************************************************)
EXTENDS FiniteSets, Naturals

CONSTANTS
    Clients,
    Long,           \* those whose message (argv[1]) is longer than BUFSIZE characters
    Instances,      \* the pipe instances, and the PIPEINST that goes with each
    None,           \* no client; also INVALID_HANDLE_VALUE
    MayFail         \* whether CreateNamedPipe and GlobalAlloc can fail

ASSUME OverlappedAssumption ==
    /\ IsFiniteSet(Clients) /\ Long \subseteq Clients
    /\ IsFiniteSet(Instances) /\ Cardinality(Instances) > Cardinality(Clients)
    /\ None \notin Clients \cup Instances
    /\ MayFail \in BOOLEAN

VARIABLES
    loop,           \* where Init is
    hPipe,          \* m_hPipe
    event,          \* whether hConnectEvent is signalled
    fPendingIO,
    pipe,           \* each instance, as Windows has it
    user,           \* the client connected to it
    inbound,        \* the client whose message is in the pipe to the server
    outbound,       \* the client for whose message the reply in the other direction is
    mem,            \* whether its PIPEINST is allocated
    chRequest, chReply,    \* whose request and reply those buffers of PIPEINST hold
    op,             \* the operation that uses the PIPEINST, or the completion queued
    pc, at, got     \* each client: where it is, its instance, whose reply it read

loopVars == <<loop, hPipe, event, fPendingIO>>
pipeVars == <<pipe, user, inbound, outbound>>
instVars == <<mem, chRequest, chReply, op>>
clientVars == <<pc, at, got>>
vars == <<loopVars, pipeVars, instVars, clientVars>>

Some == Clients \cup {None}

TypeOK ==
    /\ loop \in {"create", "connect", "wait", "ended"}
    /\ hPipe \in Instances \cup {None}
    /\ event \in BOOLEAN /\ fPendingIO \in BOOLEAN
    /\ pipe \in [Instances -> {"free", "created", "listening", "connected", "left"}]
    /\ user \in [Instances -> Some]
    /\ inbound \in [Instances -> Some] /\ outbound \in [Instances -> Some]
    /\ mem \in [Instances -> BOOLEAN]
    /\ chRequest \in [Instances -> Some] /\ chReply \in [Instances -> Some]
    /\ op \in [Instances -> {"none", "read", "readDone", "readFailed", "writeDone"}]
    /\ pc \in [Clients -> {"open", "busy", "mode", "write", "read", "prompt",
                           "done", "turnedAway", "failed", "dead"}]
    /\ at \in [Clients -> Instances \cup {None}]
    /\ got \in [Clients -> Some]

Nobody == [i \in Instances |-> None]

Init ==
    /\ loop = "create" /\ hPipe = None
    /\ event = TRUE /\ fPendingIO = FALSE
    /\ pipe = [i \in Instances |-> "free"]
    /\ user = Nobody /\ inbound = Nobody /\ outbound = Nobody
    /\ mem = [i \in Instances |-> FALSE]
    /\ chRequest = Nobody /\ chReply = Nobody
    /\ op = [i \in Instances |-> "none"]
    /\ pc = [c \in Clients |-> "open"]
    /\ at = [c \in Clients |-> None] /\ got = [c \in Clients |-> None]

Set(f, i, v) == [f EXCEPT ![i] = v]

-----------------------------------------------------------------------------
(* CreateAndConnectInstance: a client may come between its two calls.      *)

CreateNamedPipe ==
    /\ loop = "create" /\ loop' = "connect"
    /\ \E i \in Instances :
           /\ pipe[i] = "free"
           /\ hPipe' = i
           /\ pipe' = Set(pipe, i, "created")
    /\ UNCHANGED <<event, fPendingIO, user, inbound, outbound, instVars, clientVars>>

\* Mutant of CreateFails: the event is reset.
MutCreateFails ==
    /\ MayFail
    /\ loop = "create" /\ loop' = "wait"
    /\ hPipe' = None /\ fPendingIO' = FALSE
    /\ event' = FALSE
    /\ UNCHANGED <<pipeVars, instVars, clientVars>>

\* 0 is returned with the event as it is, which is signalled.
CreateFails ==
    /\ MayFail
    /\ loop = "create" /\ loop' = "wait"
    /\ hPipe' = None /\ fPendingIO' = FALSE
    /\ UNCHANGED <<event, pipeVars, instVars, clientVars>>

\* Mutant of ConnectToNewClient: the event is not set for a client that is there already.
MutNoSetEvent ==
    /\ loop = "connect" /\ loop' = "wait"
    /\ fPendingIO' = (pipe[hPipe] = "created")
    /\ event' = FALSE
    /\ pipe' = IF pipe[hPipe] = "created" THEN Set(pipe, hPipe, "listening") ELSE pipe
    /\ UNCHANGED <<hPipe, user, inbound, outbound, instVars, clientVars>>

\* ConnectNamedPipe resets the event.  A client that is there already makes it fail with
\* ERROR_PIPE_CONNECTED, whereupon the event is set, and one that has left again with
\* ERROR_NO_DATA, whereupon it is not: ConnectToNewClient returns FALSE for both.
ConnectToNewClient ==
    /\ loop = "connect" /\ loop' = "wait"
    /\ fPendingIO' = (pipe[hPipe] = "created")
    /\ event' = (pipe[hPipe] = "connected")
    /\ pipe' = IF pipe[hPipe] = "created" THEN Set(pipe, hPipe, "listening") ELSE pipe
    /\ UNCHANGED <<hPipe, user, inbound, outbound, instVars, clientVars>>

-----------------------------------------------------------------------------
(* The completion routines.                                                *)

\* Mutant of DisconnectAndClose: without GlobalFree.
MutDisconnectAndClose(i) ==
    /\ pipe' = Set(pipe, i, "free") /\ user' = Set(user, i, None)
    /\ inbound' = Set(inbound, i, None) /\ outbound' = Set(outbound, i, None)
    /\ mem' = mem /\ op' = Set(op, i, "none")
    /\ chRequest' = Set(chRequest, i, None) /\ chReply' = Set(chReply, i, None)
    /\ at' = [c \in Clients |-> IF at[c] = i THEN None ELSE at[c]]
    /\ UNCHANGED <<pc, got>>

\* What DisconnectNamedPipe, CloseHandle and GlobalFree leave of an instance.
DisconnectAndClose(i) ==
    /\ pipe' = Set(pipe, i, "free") /\ user' = Set(user, i, None)
    /\ inbound' = Set(inbound, i, None) /\ outbound' = Set(outbound, i, None)
    /\ mem' = Set(mem, i, FALSE) /\ op' = Set(op, i, "none")
    /\ chRequest' = Set(chRequest, i, None) /\ chReply' = Set(chReply, i, None)
    /\ at' = [c \in Clients |-> IF at[c] = i THEN None ELSE at[c]]
    /\ UNCHANGED <<pc, got>>

Readable(i) == pipe[i] = "connected" \/ inbound[i] # None

\* ReadFileEx, or what follows when it fails.
StartRead(i) ==
    IF Readable(i)
    THEN /\ op' = Set(op, i, "read")
         /\ UNCHANGED <<pipeVars, chRequest, chReply, clientVars>>
    ELSE DisconnectAndClose(i)

\* Mutant of CompletedWriteRoutine: one request per connection.
MutCompletedWriteRoutine(i) ==
    /\ loop = "wait" /\ op[i] = "writeDone"
    /\ DisconnectAndClose(i)
    /\ UNCHANGED loopVars

CompletedWriteRoutine(i) ==
    /\ loop = "wait" /\ op[i] = "writeDone"
    /\ StartRead(i)
    /\ Readable(i) => UNCHANGED mem
    /\ UNCHANGED loopVars

\* Mutant of CompletedReadRoutine: the reply is written to m_hPipe.
MutCompletedReadRoutine(i) ==
    /\ loop = "wait" /\ op[i] \in {"readDone", "readFailed"}
    /\ IF op[i] = "readDone" /\ pipe[i] = "connected"
       THEN /\ chReply' = Set(chReply, i, chRequest[i])
            /\ outbound' = Set(outbound, hPipe, chRequest[i])
            /\ op' = Set(op, i, "writeDone")
            /\ UNCHANGED <<pipe, user, inbound, mem, chRequest, clientVars>>
       ELSE DisconnectAndClose(i)
    /\ UNCHANGED loopVars

\* Mutant of CompletedReadRoutine: the reply names the pipe instance, not the request.
MutGetAnswerToRequest(i) ==
    /\ loop = "wait" /\ op[i] \in {"readDone", "readFailed"}
    /\ IF op[i] = "readDone" /\ pipe[i] = "connected"
       THEN /\ chReply' = Set(chReply, i, i)
            /\ outbound' = Set(outbound, i, i)
            /\ op' = Set(op, i, "writeDone")
            /\ UNCHANGED <<pipe, user, inbound, mem, chRequest, clientVars>>
       ELSE DisconnectAndClose(i)
    /\ UNCHANGED loopVars

\* The reply is shorter than the pipe's buffer: WriteFileEx is complete at once, and its
\* completion routine is queued.
CompletedReadRoutine(i) ==
    /\ loop = "wait" /\ op[i] \in {"readDone", "readFailed"}
    /\ IF op[i] = "readDone" /\ pipe[i] = "connected"
       THEN /\ chReply' = Set(chReply, i, chRequest[i])
            /\ outbound' = Set(outbound, i, chRequest[i])
            /\ op' = Set(op, i, "writeDone")
            /\ UNCHANGED <<pipe, user, inbound, mem, chRequest, clientVars>>
       ELSE DisconnectAndClose(i)
    /\ UNCHANGED loopVars

\* Windows completes a read, and queues the completion routine.
ReadCompletes(i) ==
    /\ op[i] = "read"
    /\ \/ /\ inbound[i] # None
          /\ inbound' = Set(inbound, i, None)
          /\ chRequest' = Set(chRequest, i, inbound[i])
          /\ op' = Set(op, i, IF inbound[i] \in Long THEN "readFailed" ELSE "readDone")
       \/ /\ ~Readable(i)
          /\ op' = Set(op, i, "readFailed")
          /\ UNCHANGED <<inbound, chRequest>>
    /\ UNCHANGED <<loopVars, pipe, user, outbound, mem, chReply, clientVars>>

-----------------------------------------------------------------------------
(* The loop of Init.                                                       *)

\* Mutant of NewClient: no read is begun.
MutNewClient ==
    /\ loop = "wait" /\ event /\ hPipe # None
    /\ loop' = "create"
    /\ mem' = Set(mem, hPipe, TRUE)
    /\ UNCHANGED <<hPipe, event, fPendingIO, pipeVars, chRequest, chReply, op, clientVars>>

\* The event is signalled: GetOverlappedResult succeeds if a connect was pending, a
\* PIPEINST is allocated, and a read begun.
NewClient ==
    /\ loop = "wait" /\ event /\ hPipe # None
    /\ loop' = "create"
    /\ StartRead(hPipe)
    /\ Readable(hPipe) => mem' = Set(mem, hPipe, TRUE)
    /\ UNCHANGED <<hPipe, event, fPendingIO>>

\* The same without a pipe: every call fails, and the PIPEINST is freed at once.
NoClient ==
    /\ loop = "wait" /\ event /\ hPipe = None
    /\ loop' = "create"
    /\ UNCHANGED <<hPipe, event, fPendingIO, pipeVars, instVars, clientVars>>

\* GlobalAlloc fails: Init returns and the process ends.
AllocFails ==
    /\ MayFail
    /\ loop = "wait" /\ event
    /\ loop' = "ended"
    /\ pipe' = [i \in Instances |-> "free"]
    /\ user' = Nobody /\ inbound' = Nobody /\ outbound' = Nobody
    /\ mem' = [i \in Instances |-> FALSE] /\ op' = [i \in Instances |-> "none"]
    /\ chRequest' = Nobody /\ chReply' = Nobody
    /\ at' = [c \in Clients |-> None]
    /\ UNCHANGED <<hPipe, event, fPendingIO, pc, got>>

-----------------------------------------------------------------------------
(* The clients.                                                            *)

Go(c, from, to) == pc[c] = from /\ pc' = Set(pc, c, to)

Available == {i \in Instances : pipe[i] \in {"created", "listening"}}

CreateFile(c) ==
    /\ Go(c, "open", "mode")
    /\ \E i \in Available :
           /\ pipe' = Set(pipe, i, "connected") /\ user' = Set(user, i, c)
           /\ at' = Set(at, c, i)
           /\ event' = (event \/ pipe[i] = "listening")
    /\ UNCHANGED <<got, loop, hPipe, fPendingIO, inbound, outbound, instVars>>

\* ERROR_PIPE_BUSY, and WaitNamedPipe; or another error, and -1 is returned.
CreateFileFails(c) ==
    /\ Available = {}
    /\ Go(c, "open", IF \E i \in Instances : pipe[i] # "free" THEN "busy" ELSE "turnedAway")
    /\ UNCHANGED <<at, got, loopVars, pipeVars, instVars>>

WaitNamedPipe(c) ==
    /\ Go(c, "busy", IF Available # {} THEN "open" ELSE "turnedAway")
    /\ UNCHANGED <<at, got, loopVars, pipeVars, instVars>>

SetNamedPipeHandleState(c) ==
    /\ at[c] # None
    /\ Go(c, "mode", "write")
    /\ UNCHANGED <<at, got, loopVars, pipeVars, instVars>>

\* WriteFile; that of a long message may end by the server's hanging up (Broken).
WriteFile(c) ==
    /\ at[c] # None
    /\ Go(c, "write", "read")
    /\ inbound' = Set(inbound, at[c], c)
    /\ UNCHANGED <<at, got, loopVars, pipe, user, outbound, instVars>>

ReadFile(c) ==
    /\ at[c] # None /\ outbound[at[c]] # None
    /\ Go(c, "read", "prompt")
    /\ got' = Set(got, c, outbound[at[c]])
    /\ outbound' = Set(outbound, at[c], None)
    /\ UNCHANGED <<at, loopVars, pipe, user, inbound, instVars>>

\* The client's end is closed.  What it has written can still be read.
Leave(c) ==
    /\ at' = Set(at, c, None)
    /\ IF at[c] = None THEN UNCHANGED <<pipe, user, outbound>>
       ELSE /\ pipe' = Set(pipe, at[c], "left")
            /\ user' = Set(user, at[c], None)
            /\ outbound' = Set(outbound, at[c], None)
    /\ UNCHANGED <<got, loopVars, inbound, instVars>>

\* ENTER is pressed.
Close(c) == Go(c, "prompt", "done") /\ Leave(c)

Connected == {"mode", "write", "read"}

\* The server has hung up: the next call fails, and -1 is returned.
Broken(c) ==
    /\ pc[c] \in Connected /\ at[c] = None
    /\ Go(c, pc[c], "failed")
    /\ Leave(c)

\* The client's process is ended.
Die(c) ==
    /\ pc[c] \in Connected
    /\ Go(c, pc[c], "dead")
    /\ Leave(c)

-----------------------------------------------------------------------------
Routine(i) == CompletedWriteRoutine(i) \/ CompletedReadRoutine(i)

ServerNext ==
    \/ CreateNamedPipe \/ ConnectToNewClient \/ NewClient \/ NoClient
    \/ \E i \in Instances : Routine(i)

CallNext(c) ==
    \/ CreateFile(c) \/ CreateFileFails(c) \/ WaitNamedPipe(c)
    \/ SetNamedPipeHandleState(c) \/ WriteFile(c) \/ ReadFile(c) \/ Broken(c)

Next ==
    \/ ServerNext \/ CreateFails \/ AllocFails
    \/ \E i \in Instances : ReadCompletes(i)
    \/ \E c \in Clients : CallNext(c) \/ Close(c) \/ Die(c)

Spec == Init /\ [][Next]_vars

\* The loop and each completion routine that is queued get their turn, Windows completes
\* what can be completed, and CreateNamedPipe does not fail for ever.  No user has to
\* press ENTER.
Fairness ==
    /\ WF_vars(ServerNext) /\ SF_vars(CreateNamedPipe)
    /\ \A i \in Instances : SF_vars(Routine(i)) /\ WF_vars(ReadCompletes(i))
    /\ \A c \in Clients : WF_vars(CallNext(c))

FairSpec == Spec /\ Fairness

-----------------------------------------------------------------------------
\* A PIPEINST is allocated exactly while one operation is under way with it or its
\* completion is queued: no completion routine is given freed memory, none is called
\* twice, and no client is forgotten (original.cpp:124-138, 154-172, 188-195).
OneOperationEach == \A i \in Instances : mem[i] <=> op[i] # "none"

\* Every connected client has a PIPEINST of its own, or is the one the loop will turn to,
\* because the event is signalled or about to be: a connection is not lost, in whatever
\* order CreateNamedPipe, ConnectNamedPipe and CreateFile come (original.cpp:34-90).
NobodyIsForgotten ==
    \A i \in Instances :
        pipe[i] = "connected" /\ ~mem[i]
            => hPipe = i /\ (loop = "connect" \/ (loop = "wait" /\ event))

\* A client is given the reply to its own message (original.cpp:157-166).
RepliesMatch == \A c \in Clients : got[c] \in {None, c}

\* A client that was let in and whose message fits is not turned down afterwards, unless
\* the server's process ends: no reply is discarded by DisconnectNamedPipe and no client
\* disconnected for the failure of another (original.cpp:137-138, 171-183).
LetInMeansServed == \A c \in Clients : pc[c] = "failed" => c \in Long \/ loop = "ended"

\* The server waits with nothing that could make it accept a client again only if a client
\* left before ConnectNamedPipe was called, never because CreateNamedPipe has failed.
AcceptsAgain ==
    loop = "wait" => event \/ (hPipe # None /\ pipe[hPipe] \in {"listening", "left"})

\* A client that waits for a reply gets one, or learns that there is none, while other
\* clients come, stay connected at their prompts, and die.
ReadsEnd == \A c \in Clients : pc[c] = "read" ~> pc[c] # "read"
=============================================================================
