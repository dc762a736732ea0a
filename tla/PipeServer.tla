----------------------------- MODULE PipeServer -----------------------------
(***************************************************************************)
(* One named pipe of eNovaConnect (AppWrapper/eNovaConnect): a             *)
(* NamedPipeServer object, the thread that runs its Listen and Read, the   *)
(* thread of the TwoWayCommunicator that owns the object, and calls of     *)
(* NamedPipeClient::sendRequest made by the process at the other end.      *)
(* ScannerSample compiles copies of both classes that differ in their      *)
(* logging only.                                                           *)
(*                                                                         *)
(* One action stands for the code from one system call, or one access of   *)
(* the flag mIsRun, to the next.  The instances of the pipe are kept by    *)
(* Windows: they are modelled by what the calls made here do to them.      *)
(***************************************************************************)
EXTENDS Naturals

CONSTANTS
    Calls,          \* the calls of sendRequest
    NoCall,
    Instances,      \* identities of pipe instances; one still open at either end is not reused
    NoInst,
    BufSize,        \* BUFSIZE of Common.h: a buffer of BUFSIZE wide characters, a quota of BUFSIZE bytes
    Lengths,        \* lengths of the requests, in wide characters, the final NUL included
    Waits,          \* the values of waitForResponse
    Replies,        \* whether handleRequest may return a non-empty string (TRUE), an empty one (FALSE)
    FaultSets       \* what may go wrong in a run of the program, one of these sets: "create"
                    \* (CreateNamedPipe), "alloc" (HeapAlloc), "crash" (a caller's
                    \* process ends), "text" (a request or response is not UTF-8)

ASSUME PipeAssumption ==
    /\ NoCall \notin Calls
    /\ NoInst \notin Instances
    /\ BufSize \in Nat
    /\ Lengths \subseteq Nat
    /\ Waits \subseteq BOOLEAN
    /\ Replies \subseteq BOOLEAN
    /\ FaultSets \subseteq SUBSET {"create", "alloc", "crash", "text"}

VARIABLES
    opc,            \* where the owner's thread is
    round,          \* 1: Stop called by ~TwoWayCommunicator; 2: by ~NamedPipeServer
    stopped,        \* some call of Stop has returned true
    joinable,       \* mPipeThread.joinable()
    mIsRun,
    spc,            \* where the server's thread is
    mHPipe,
    cur,            \* the call whose request Read has read last
    state,          \* each instance, seen from its server end
    req,            \* the request waiting in an instance, by the call that wrote it
    resp,           \* the response waiting in an instance, by the call it answers
    cpc,            \* where each call is
    conn,           \* the instance a call holds the client end of
    got,            \* the call whose answer sendRequest returned
    request,        \* the arguments of each call
    faults,         \* what may go wrong in this run of the program
    handled,        \* history: how often handleRequest got the request of a call
    ahead           \* history: the calls that had connected or ended when a call connected

ownerVars  == <<opc, round, stopped, joinable>>
serverVars == <<spc, mHPipe, cur>>
pipeVars   == <<state, req, resp>>
clientVars == <<cpc, conn, got, ahead>>
params     == <<request, faults>>
vars == <<ownerVars, mIsRun, serverVars, pipeVars, clientVars, params, handled>>

OwnerPCs  == {"new", "up", "stop", "delete", "join", "destroy", "gone", "terminated"}
ServerPCs == {"none", "entry", "loop", "create", "connect", "waiting", "alloc",
              "test", "read", "handle", "send", "flush", "done", "dead"}
ClientPCs == {"idle", "open", "wait", "mode", "write", "writing", "read", "close",
              "ok", "threw", "dead"}

TypeOK ==
    /\ opc \in OwnerPCs
    /\ round \in {1, 2}
    /\ stopped \in BOOLEAN
    /\ joinable \in BOOLEAN
    /\ mIsRun \in BOOLEAN
    /\ spc \in ServerPCs
    /\ mHPipe \in Instances \cup {NoInst}
    /\ cur \in Calls \cup {NoCall}
    /\ state \in [Instances -> {"none", "listening", "connected", "closing"}]
    /\ req \in [Instances -> Calls \cup {NoCall}]
    /\ resp \in [Instances -> Calls \cup {NoCall}]
    /\ cpc \in [Calls -> ClientPCs]
    /\ conn \in [Calls -> Instances \cup {NoInst}]
    /\ got \in [Calls -> Calls \cup {NoCall}]
    /\ request \in [Calls -> [len : Lengths, wait : Waits]]
    /\ faults \in FaultSets
    /\ handled \in [Calls -> {0, 1}]
    /\ ahead \in [Calls -> SUBSET Calls]

\* mIsRun has no initialiser and the constructor does not assign it.
Init ==
    /\ opc = "new"
    /\ round = 1
    /\ stopped = FALSE
    /\ joinable = FALSE
    /\ mIsRun \in BOOLEAN
    /\ spc = "none"
    /\ mHPipe = NoInst
    /\ cur = NoCall
    /\ state = [h \in Instances |-> "none"]
    /\ req = [h \in Instances |-> NoCall]
    /\ resp = [h \in Instances |-> NoCall]
    /\ cpc = [c \in Calls |-> "idle"]
    /\ conn = [c \in Calls |-> NoInst]
    /\ got = [c \in Calls |-> NoCall]
    /\ request \in [Calls -> [len : Lengths, wait : Waits]]
    /\ faults \in FaultSets
    /\ handled = [c \in Calls |-> 0]
    /\ ahead = [c \in Calls |-> {}]

-----------------------------------------------------------------------------
(* Pipe instances.                                                         *)

\* The write of a request of this length returns without waiting for the reader.
FitsQuota(n) == 2 * n <= BufSize

\* ReadFile gets the whole message and does not fail with ERROR_MORE_DATA.
FitsBuffer(n) == n <= BufSize

Free(h) == state[h] = "none" /\ \A c \in Calls : conn[c] # h

\* Which identity a new instance gets makes no difference.
NewInst == CHOOSE h \in Instances : Free(h)

Listening(h) == state[h] = "listening"

Connected(c) == state[conn[c]] = "connected"

\* DisconnectNamedPipe and CloseHandle of the server end: what was not read is lost.
Discard(h) ==
    /\ state' = [state EXCEPT ![h] = "none"]
    /\ req' = [req EXCEPT ![h] = NoCall]
    /\ resp' = [resp EXCEPT ![h] = NoCall]

\* CloseHandle of the client end of h: the server may still read the request.
Hangup(h) ==
    /\ state' = [state EXCEPT ![h] = IF @ = "connected" THEN "closing" ELSE @]
    /\ resp' = [resp EXCEPT ![h] = NoCall]

-----------------------------------------------------------------------------
(* The owner: TwoWayCommunicator's constructor and destructor.             *)

\* Start creates the thread only when the flag is FALSE, and does not set it.
Start ==
    /\ opc = "new"
    /\ opc' = "up"
    /\ IF mIsRun
       THEN UNCHANGED <<spc, joinable>>
       ELSE spc' = "entry" /\ joinable' = TRUE
    /\ UNCHANGED <<round, stopped, mIsRun, mHPipe, cur, pipeVars, clientVars, params, handled>>

\* The destructor of the owner begins; nothing makes this happen.
Quit ==
    /\ opc = "up"
    /\ opc' = "stop"
    /\ UNCHANGED <<round, stopped, joinable, mIsRun, serverVars, pipeVars, clientVars, params, handled>>

\* After the first call of Stop comes the second one, then the members' destructors.
NextStop ==
    /\ opc' = IF round = 1 THEN "stop" ELSE "destroy"
    /\ round' = 2

\* Mutant of StopTest: Stop does not reset the flag.
MutStopTest ==
    /\ opc = "stop"
    /\ IF mIsRun THEN opc' = "delete" /\ UNCHANGED round ELSE NextStop
    /\ UNCHANGED <<stopped, joinable, mIsRun, serverVars, pipeVars, clientVars, params, handled>>

StopTest ==
    /\ opc = "stop"
    /\ mIsRun' = FALSE
    /\ IF mIsRun THEN opc' = "delete" /\ UNCHANGED round ELSE NextStop
    /\ UNCHANGED <<stopped, joinable, serverVars, pipeVars, clientVars, params, handled>>

\* DeleteFile opens the pipe and closes it again: it connects to a listening instance
\* and leaves it closing, and fails when no instance is listening.
StopDelete ==
    /\ opc = "delete"
    /\ opc' = "join"
    /\ IF \E h \in Instances : Listening(h)
       THEN \E h \in Instances :
                Listening(h) /\ state' = [state EXCEPT ![h] = "closing"]
       ELSE UNCHANGED state
    /\ UNCHANGED <<round, stopped, joinable, mIsRun, serverVars, req, resp, clientVars, params, handled>>

\* Mutant of StopJoin: the thread is detached instead of joined.
MutStopJoin ==
    /\ opc = "join"
    /\ joinable' = FALSE
    /\ stopped' = TRUE
    /\ NextStop
    /\ UNCHANGED <<mIsRun, serverVars, pipeVars, clientVars, params, handled>>

StopJoin ==
    /\ opc = "join"
    /\ joinable => spc = "done"
    /\ joinable' = FALSE
    /\ stopped' = TRUE
    /\ NextStop
    /\ UNCHANGED <<mIsRun, serverVars, pipeVars, clientVars, params, handled>>

Destroy ==
    /\ opc = "destroy"
    /\ ~joinable
    /\ opc' = "gone"
    /\ UNCHANGED <<round, stopped, joinable, mIsRun, serverVars, pipeVars, clientVars, params, handled>>

\* The destructor of a thread that was not joined ends the process, and with it
\* the server end of every instance.  What the server wrote can still be read.
Terminate ==
    /\ opc = "destroy"
    /\ joinable
    /\ opc' = "terminated"
    /\ spc' = "dead"
    /\ state' = [h \in Instances |-> "none"]
    /\ req' = [h \in Instances |-> NoCall]
    /\ UNCHANGED <<round, stopped, joinable, mIsRun, mHPipe, cur, resp, clientVars, params, handled>>

OwnerNext == Start \/ StopTest \/ StopDelete \/ StopJoin \/ Destroy \/ Terminate

-----------------------------------------------------------------------------
(* The server's thread: Listen, with Read and sendResponse inline.         *)

Go(pc) == spc' = pc

ListenEntry ==
    /\ spc = "entry"
    /\ mIsRun' = TRUE
    /\ Go("loop")
    /\ UNCHANGED <<ownerVars, mHPipe, cur, pipeVars, clientVars, params, handled>>

ListenTest ==
    /\ spc = "loop"
    /\ Go(IF mIsRun THEN "create" ELSE "done")
    /\ UNCHANGED <<ownerVars, mIsRun, mHPipe, cur, pipeVars, clientVars, params, handled>>

Create ==
    /\ spc = "create"
    /\ \E h \in Instances : Free(h)
    /\ mHPipe' = NewInst
    /\ state' = [state EXCEPT ![NewInst] = "listening"]
    /\ Go("connect")
    /\ UNCHANGED <<ownerVars, mIsRun, cur, req, resp, clientVars, params, handled>>

\* Listen returns -1 and leaves the flag set.
CreateFails ==
    /\ spc = "create"
    /\ "create" \in faults
    /\ mHPipe' = NoInst
    /\ Go("done")
    /\ UNCHANGED <<ownerVars, mIsRun, cur, pipeVars, clientVars, params, handled>>

ConnectPends ==
    /\ spc = "connect"
    /\ Listening(mHPipe)
    /\ Go("waiting")
    /\ UNCHANGED <<ownerVars, mIsRun, mHPipe, cur, pipeVars, clientVars, params, handled>>

\* ERROR_PIPE_CONNECTED: the client came before ConnectNamedPipe was called.
ConnectFindsClient ==
    /\ spc = "connect"
    /\ state[mHPipe] = "connected"
    /\ Go("alloc")
    /\ UNCHANGED <<ownerVars, mIsRun, mHPipe, cur, pipeVars, clientVars, params, handled>>

\* ERROR_NO_DATA: the client came and has left again; Listen closes the handle.
ConnectTooLate ==
    /\ spc = "connect"
    /\ state[mHPipe] = "closing"
    /\ Discard(mHPipe)
    /\ Go("loop")
    /\ UNCHANGED <<ownerVars, mIsRun, mHPipe, cur, clientVars, params, handled>>

ConnectReturns ==
    /\ spc = "waiting"
    /\ ~Listening(mHPipe)
    /\ Go("alloc")
    /\ UNCHANGED <<ownerVars, mIsRun, mHPipe, cur, pipeVars, clientVars, params, handled>>

ReadAllocates ==
    /\ spc = "alloc"
    /\ Go("test")
    /\ UNCHANGED <<ownerVars, mIsRun, mHPipe, cur, pipeVars, clientVars, params, handled>>

\* Read returns -1 and the instance stays open.
ReadAllocFails ==
    /\ spc = "alloc"
    /\ "alloc" \in faults
    /\ Go("loop")
    /\ UNCHANGED <<ownerVars, mIsRun, mHPipe, cur, pipeVars, clientVars, params, handled>>

ReadTest ==
    /\ spc = "test"
    /\ Go(IF mIsRun THEN "read" ELSE "flush")
    /\ UNCHANGED <<ownerVars, mIsRun, mHPipe, cur, pipeVars, clientVars, params, handled>>

AfterWrite(c) == IF request[c].wait THEN "read" ELSE "close"

\* The write of c, blocked until its message was read, returns.
Unblock(c) == cpc' = [cpc EXCEPT ![c] = IF @ = "writing" THEN AfterWrite(c) ELSE @]

ReadRequest ==
    /\ spc = "read"
    /\ \E c \in Calls :
           /\ req[mHPipe] = c
           /\ FitsBuffer(request[c].len)
           /\ cur' = c
           /\ Unblock(c)
    /\ req' = [req EXCEPT ![mHPipe] = NoCall]
    /\ Go("handle")
    /\ UNCHANGED <<ownerVars, mIsRun, mHPipe, state, resp, conn, got, ahead, params, handled>>

\* Mutant of ReadTooLong: Read returns without disconnecting the client.
MutReadTooLong ==
    /\ spc = "read"
    /\ \E c \in Calls :
           /\ req[mHPipe] = c
           /\ ~FitsBuffer(request[c].len)
           /\ Unblock(c) \/ UNCHANGED cpc
    /\ req' = [req EXCEPT ![mHPipe] = NoCall]
    /\ Go("loop")
    /\ UNCHANGED <<ownerVars, mIsRun, mHPipe, cur, state, resp, conn, got, ahead, params, handled>>

\* ERROR_MORE_DATA: Read takes the first BUFSIZE characters and leaves its loop.
\* Whether that is enough for the blocked write to return is up to Windows.
ReadTooLong ==
    /\ spc = "read"
    /\ \E c \in Calls :
           /\ req[mHPipe] = c
           /\ ~FitsBuffer(request[c].len)
           /\ Unblock(c) \/ UNCHANGED cpc
    /\ req' = [req EXCEPT ![mHPipe] = NoCall]
    /\ Go("flush")
    /\ UNCHANGED <<ownerVars, mIsRun, mHPipe, cur, state, resp, conn, got, ahead, params, handled>>

\* Mutant of ReadBroken: a client that has left is dropped, its request unread.
MutReadBroken ==
    /\ spc = "read"
    /\ state[mHPipe] = "closing"
    /\ Go("flush")
    /\ UNCHANGED <<ownerVars, mIsRun, mHPipe, cur, pipeVars, clientVars, params, handled>>

\* ERROR_BROKEN_PIPE: the client has left and everything it wrote was read.
ReadBroken ==
    /\ spc = "read"
    /\ state[mHPipe] = "closing"
    /\ req[mHPipe] = NoCall
    /\ Go("flush")
    /\ UNCHANGED <<ownerVars, mIsRun, mHPipe, cur, pipeVars, clientVars, params, handled>>

Handle ==
    /\ spc = "handle"
    /\ handled' = [handled EXCEPT ![cur] = @ + 1]
    /\ \E reply \in Replies : Go(IF reply THEN "send" ELSE "test")
    /\ UNCHANGED <<ownerVars, mIsRun, mHPipe, cur, pipeVars, clientVars, params>>

Send ==
    /\ spc = "send"
    /\ state[mHPipe] = "connected"
    /\ resp' = [resp EXCEPT ![mHPipe] = cur]
    /\ Go("test")
    /\ UNCHANGED <<ownerVars, mIsRun, mHPipe, cur, state, req, clientVars, params, handled>>

\* Mutant of SendFails: the request is handled again after a response that was not sent.
MutSendFails ==
    /\ spc = "send"
    /\ state[mHPipe] # "connected"
    /\ Go("handle")
    /\ UNCHANGED <<ownerVars, mIsRun, mHPipe, cur, pipeVars, clientVars, params, handled>>

\* WriteFile fails and sendResponse throws: Read returns -1, and the instance stays open.
SendFails ==
    /\ spc = "send"
    /\ state[mHPipe] # "connected"
    /\ Go("loop")
    /\ UNCHANGED <<ownerVars, mIsRun, mHPipe, cur, pipeVars, clientVars, params, handled>>

\* Utils::stringToWstring throws in sendResponse: the same, and the client may be there.
ReplyNotText ==
    /\ spc = "send"
    /\ "text" \in faults
    /\ Go("loop")
    /\ UNCHANGED <<ownerVars, mIsRun, mHPipe, cur, pipeVars, clientVars, params, handled>>

\* Mutant of FlushDisconnectClose: the handle of a client that has left is not closed.
MutFlushDisconnectClose ==
    /\ spc = "flush"
    /\ state[mHPipe] = "connected" => resp[mHPipe] = NoCall
    /\ IF state[mHPipe] = "connected" THEN Discard(mHPipe) ELSE UNCHANGED pipeVars
    /\ Go("loop")
    /\ UNCHANGED <<ownerVars, mIsRun, mHPipe, cur, clientVars, params, handled>>

\* FlushFileBuffers returns when the client has read the response or has left.
FlushDisconnectClose ==
    /\ spc = "flush"
    /\ state[mHPipe] = "connected" => resp[mHPipe] = NoCall
    /\ Discard(mHPipe)
    /\ Go("loop")
    /\ UNCHANGED <<ownerVars, mIsRun, mHPipe, cur, clientVars, params, handled>>

ServerNext ==
    \/ ListenEntry \/ ListenTest \/ Create
    \/ ConnectPends \/ ConnectFindsClient \/ ConnectTooLate \/ ConnectReturns
    \/ ReadAllocates \/ ReadTest \/ ReadRequest \/ ReadTooLong \/ ReadBroken
    \/ Handle \/ Send \/ SendFails \/ FlushDisconnectClose

ServerFaults == CreateFails \/ ReadAllocFails \/ ReplyNotText

-----------------------------------------------------------------------------
(* A call of NamedPipeClient::sendRequest.                                 *)

Move(c, from, to) == cpc[c] = from /\ cpc' = [cpc EXCEPT ![c] = to]

\* The client end stays open: the handle is a local variable of sendRequest.
Throw(c, from) ==
    /\ Move(c, from, "threw")
    /\ UNCHANGED <<ownerVars, mIsRun, serverVars, pipeVars, conn, got, ahead, params, handled>>

Begin(c) ==
    /\ Move(c, "idle", "open")
    /\ UNCHANGED <<ownerVars, mIsRun, serverVars, pipeVars, conn, got, ahead, params, handled>>

Open(c) ==
    /\ Move(c, "open", "mode")
    /\ \E h \in Instances :
           /\ Listening(h)
           /\ conn' = [conn EXCEPT ![c] = h]
           /\ state' = [state EXCEPT ![h] = "connected"]
    /\ ahead' = [ahead EXCEPT ![c] = {d \in Calls : cpc[d] \notin {"idle", "open", "wait"}}]
    /\ UNCHANGED <<ownerVars, mIsRun, serverVars, req, resp, got, params, handled>>

\* ERROR_PIPE_BUSY
OpenBusy(c) ==
    /\ Move(c, "open", "wait")
    /\ \A h \in Instances : ~Listening(h)
    /\ \E h \in Instances : state[h] # "none"
    /\ UNCHANGED <<ownerVars, mIsRun, serverVars, pipeVars, conn, got, ahead, params, handled>>

\* ERROR_FILE_NOT_FOUND: the pipe does not exist while no instance of it does.
OpenNotFound(c) ==
    /\ \A h \in Instances : state[h] = "none"
    /\ Throw(c, "open")

WaitSucceeds(c) ==
    /\ Move(c, "wait", "open")
    /\ \E h \in Instances : Listening(h)
    /\ UNCHANGED <<ownerVars, mIsRun, serverVars, pipeVars, conn, got, ahead, params, handled>>

\* WaitNamedPipe gives up after two seconds, and at once when the pipe is gone.
WaitFails(c) ==
    /\ \A h \in Instances : ~Listening(h)
    /\ Throw(c, "wait")

SetMode(c) ==
    /\ Move(c, "mode", "write")
    /\ Connected(c)
    /\ UNCHANGED <<ownerVars, mIsRun, serverVars, pipeVars, conn, got, ahead, params, handled>>

SetModeFails(c) == Throw(c, "mode") /\ ~Connected(c)

\* Utils::stringToWstring throws: nothing is written, and the client end of a
\* connection that is alive stays open in a process that goes on.
RequestNotText(c) ==
    /\ "text" \in faults
    /\ Throw(c, "write")

Write(c) ==
    /\ Move(c, "write", IF FitsQuota(request[c].len) THEN AfterWrite(c) ELSE "writing")
    /\ Connected(c)
    /\ req' = [req EXCEPT ![conn[c]] = c]
    /\ UNCHANGED <<ownerVars, mIsRun, serverVars, state, resp, conn, got, ahead, params, handled>>

\* Mutant of WriteFails: a request that is too long is refused once the pipe is open.
MutWriteFails(c) == Throw(c, "write") /\ (~Connected(c) \/ ~FitsBuffer(request[c].len))

WriteFails(c) == (Throw(c, "write") \/ Throw(c, "writing")) /\ ~Connected(c)

ReadResponse(c) ==
    /\ Move(c, "read", "close")
    /\ resp[conn[c]] # NoCall
    /\ got' = [got EXCEPT ![c] = resp[conn[c]]]
    /\ resp' = [resp EXCEPT ![conn[c]] = NoCall]
    /\ UNCHANGED <<ownerVars, mIsRun, serverVars, state, req, conn, ahead, params, handled>>

\* Mutant of ReadFails: the failure of ReadFile is not looked at.
MutReadFails(c) ==
    /\ Move(c, "read", "close")
    /\ ~Connected(c)
    /\ resp[conn[c]] = NoCall
    /\ UNCHANGED <<ownerVars, mIsRun, serverVars, pipeVars, conn, got, ahead, params, handled>>

\* Mutant of ReadFails: sendRequest gives up waiting for the response.
MutReadTimesOut(c) ==
    /\ Throw(c, "read")
    /\ resp[conn[c]] = NoCall

ReadFails(c) ==
    /\ Throw(c, "read")
    /\ ~Connected(c)
    /\ resp[conn[c]] = NoCall

\* Mutant of Close: sendRequest returns without CloseHandle.
MutClose(c) ==
    /\ Move(c, "close", "ok")
    /\ UNCHANGED <<ownerVars, mIsRun, serverVars, pipeVars, conn, got, ahead, params, handled>>

Close(c) ==
    /\ Move(c, "close", "ok")
    /\ Hangup(conn[c])
    /\ conn' = [conn EXCEPT ![c] = NoInst]
    /\ UNCHANGED <<ownerVars, mIsRun, serverVars, req, got, ahead, params, handled>>

\* The caller's process ends: Windows closes its handles and cancels a blocked write.
Die(c) ==
    /\ "crash" \in faults
    /\ cpc[c] \in {"mode", "write", "writing", "read", "close"}
    /\ cpc' = [cpc EXCEPT ![c] = "dead"]
    /\ Hangup(conn[c])
    /\ req' = IF cpc[c] = "writing" THEN [req EXCEPT ![conn[c]] = NoCall] ELSE req
    /\ conn' = [conn EXCEPT ![c] = NoInst]
    /\ UNCHANGED <<ownerVars, mIsRun, serverVars, got, ahead, params, handled>>

\* The process ends some time after its call threw, and closes the handle that leaked.
Exit(c) ==
    /\ "crash" \in faults
    /\ cpc[c] = "threw" /\ conn[c] # NoInst
    /\ Hangup(conn[c])
    /\ conn' = [conn EXCEPT ![c] = NoInst]
    /\ UNCHANGED <<ownerVars, mIsRun, serverVars, req, cpc, got, ahead, params, handled>>

ClientNext(c) ==
    \/ Open(c) \/ OpenBusy(c) \/ OpenNotFound(c) \/ WaitSucceeds(c) \/ WaitFails(c)
    \/ SetMode(c) \/ SetModeFails(c) \/ RequestNotText(c) \/ Write(c) \/ WriteFails(c)
    \/ ReadResponse(c) \/ ReadFails(c) \/ Close(c)

-----------------------------------------------------------------------------
Next ==
    \/ OwnerNext \/ Quit
    \/ ServerNext \/ ServerFaults
    \/ \E c \in Calls : Begin(c) \/ ClientNext(c) \/ Die(c) \/ Exit(c)

Spec == Init /\ [][Next]_vars

\* Windows runs each thread: the server's, the owner's once its destructor has begun,
\* and that of a call once it has begun.  Nothing makes a call begin, the owner quit
\* or a fault happen.
Fairness ==
    /\ WF_vars(ServerNext)
    /\ WF_vars(OwnerNext)
    /\ \A c \in Calls : WF_vars(ClientNext(c))

FairSpec == Spec /\ Fairness

-----------------------------------------------------------------------------
(* Safety.                                                                 *)

Accepting == {"connect", "waiting"}
Serving == {"alloc", "test", "read", "handle", "send", "flush"}

MayReply == TRUE \in Replies

\* However Listen and Read are left, the only instance with an open server end is
\* the one the thread is working on; but an instance whose response could not be sent
\* stays open, with nothing to read in it, and its client has left unless it was the
\* text of the response that could not be sent.  (Read's early returns,
\* NamedPipeServer.cpp:105-128 and 160.)
OneInstance ==
    "alloc" \notin faults =>
        \A h \in Instances : state[h] # "none" =>
            \/ h = mHPipe /\ spc \in Accepting \cup Serving
            \/ /\ MayReply /\ req[h] = NoCall
               /\ state[h] = "connected" => "text" \in faults

\* Once Stop has returned true the thread has ended, or never was, and no client
\* can connect or wait for an answer, whatever Start, Stop and Listen did to the
\* flag before (NamedPipeServer.cpp:28-40).
StopTrueMeansDown ==
    stopped =>
        /\ spc \in {"none", "done", "dead"}
        /\ ~joinable
        /\ \A h \in Instances :
              /\ ~Listening(h)
              /\ state[h] = "connected" =>
                    "alloc" \in faults \/ ("text" \in faults /\ MayReply)

\* The answer sendRequest returns is the one to its own request, and a call that
\* waits returns no other way, although every response goes through mHPipe and
\* names no call (NamedPipeServer.cpp:157, NamedPipeClient.cpp:84-109).
AnswersOwnRequest ==
    \A c \in Calls :
        /\ got[c] # NoCall => got[c] = c /\ handled[c] = 1
        /\ cpc[c] = "ok" /\ request[c].wait => got[c] = c

\* A call that threw after it had connected leaves its client end open.  The server end
\* is closed by then, so that the handle cannot keep the server's ReadFile waiting, but
\* for one request that is not UTF-8: of that nothing was written, and its instance is
\* the one the thread has in hand, so that no second one can be held up meanwhile
\* (NamedPipeClient.cpp:60-67, 77-81, 99-103).
Leaked(c) == cpc[c] = "threw" /\ conn[c] # NoInst

OneLiveLeak ==
    \A c \in Calls : Leaked(c) /\ state[conn[c]] # "none" =>
        /\ "text" \in faults
        /\ state[conn[c]] = "connected" /\ req[conn[c]] = NoCall /\ resp[conn[c]] = NoCall
        /\ \/ conn[c] = mHPipe
              /\ spc \in {"connect", "waiting", "alloc", "test", "read", "flush"}
           \/ "alloc" \in faults

\* ConnectNamedPipe gives up only an instance no client has written to: what the
\* comment at NamedPipeServer.cpp:82, "The client could not connect, so close the
\* pipe", says of the instance that Listen closes there.
ClosedUnused == [][ConnectTooLate => req[mHPipe] = NoCall]_vars

\* The class keeps the promise of module Delivery: at most one delivery per call,
\* in the order of the connections, none after the call has thrown.
Outcome(pc) ==
    CASE pc \in {"open", "wait"} -> "calling"
      [] pc \in {"mode", "write"} -> "connected"
      [] pc \in {"writing", "read", "close"} -> "sent"
      [] OTHER -> pc

outcome == [c \in Calls |-> Outcome(cpc[c])]
waits == [c \in Calls |-> request[c].wait]

Promise == INSTANCE Delivery WITH
    outcome <- outcome, handled <- handled, ahead <- ahead, waits <- waits

KeepsPromise == Promise!Spec

-----------------------------------------------------------------------------
(* Liveness, under FairSpec.                                               *)

\* A call that has begun returns or throws: no handshake of Listen, Read and
\* sendRequest leaves a caller blocked for ever.
CallsReturn ==
    \A c \in Calls : cpc[c] = "open" ~> cpc[c] \in {"ok", "threw", "dead"}

\* A request that fits the buffer and waits in an instance the server has accepted is
\* handled, also when its caller's process ends after its WriteFile has returned, unless
\* Stop comes first or the server's process ends.
Accepted(c) ==
    /\ spc \in {"alloc", "test", "read"}
    /\ \E h \in Instances : h = mHPipe /\ req[h] = c

MayBeCancelled(c) == cpc[c] = "dead" /\ ~FitsQuota(request[c].len)

AcceptedIsHandled ==
    \A c \in Calls :
        Accepted(c) /\ FitsBuffer(request[c].len)
            ~> handled[c] = 1 \/ ~mIsRun \/ opc = "terminated" \/ MayBeCancelled(c)

\* The thread is in hand of a client end that leaked alive: until that caller's process
\* ends nothing comes from it.
HeldUp == \E c \in Calls : Leaked(c) /\ conn[c] = mHPipe /\ Connected(c)

\* Stop returns, if the thread was not between its test of the flag and its
\* CreateNamedPipe when DeleteFile was called: an instance created after that
\* keeps the thread, and join, waiting for a client (NamedPipeServer.cpp:32-34, 54-76).
\* It also waits for as long as a live leak holds up the thread.
StopReturns ==
    opc = "join" /\ spc # "create" /\ (\A h \in Instances : ~Listening(h))
        ~> opc # "join" \/ HeldUp

\* The thread gets done with each client and waits for the next one, until Stop or
\* a failure ends it: what the comment at NamedPipeServer.cpp:49-53 says of its loop.
\* A live leak is all that can keep it.
LoopIsFree ==
    spc \in Serving ~> spc \in Accepting \cup {"done", "dead"} \/ HeldUp
=============================================================================
