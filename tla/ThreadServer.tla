---------------------------- MODULE ThreadServer ----------------------------
(***************************************************************************)
(* Aetrex.IPCCPP.ServerThreads.cpp: the main thread accepts clients and    *)
(* gives the handle of each connection to two threads of its own, one that *)
(* posts commands and one that fetches messages.  The handle is a          *)
(* synchronous one: Windows carries out one operation on it at a time.     *)
(* The clients are those of the repository: IPCClient.cs reads before it   *)
(* writes, Aetrex.IPCCPP.Client.cpp writes before it reads.                *)
(***************************************************************************)
EXTENDS FiniteSets, Integers

CONSTANTS
    Clients,
    Writers,        \* the clients that write first, once
    Handles,        \* the values handles have; one that was closed is used again
    None,
    Rounds          \* the turns of the threads' loops: 10 in the code

ASSUME ThreadAssumption ==
    /\ IsFiniteSet(Clients) /\ Writers \subseteq Clients
    /\ IsFiniteSet(Handles) /\ Cardinality(Handles) > Cardinality(Clients)
    /\ None \notin Clients \cup Handles
    /\ Rounds \in Nat \ {0}

VARIABLES
    main,           \* where _tmain is
    hPipe,          \* the handle it works with
    pipe,           \* what each handle value stands for
    user,           \* the client connected there
    lock,           \* the client whose listening thread has a ReadFile pending there
    handle,         \* the value given to the threads of each client
    post, posted,   \* where its PostToClientThread is, and its i
    listen, fetched,       \* where its ListenToClientThread is, and its i
    pc,             \* where the client is
    commands, messages,    \* how many of each wait in its pipe
    crossed         \* history: a listening thread was given another client's message

mainVars == <<main, hPipe>>
pipeVars == <<pipe, user, lock>>
postVars == <<post, posted>>
listenVars == <<listen, fetched, crossed>>
clientVars == <<pc, commands, messages>>
vars == <<mainVars, pipeVars, handle, postVars, listenVars, clientVars>>

TypeOK ==
    /\ main \in {"create", "created", "connect", "spawnPost", "spawnListen", "ended"}
    /\ hPipe \in Handles \cup {None}
    /\ pipe \in [Handles -> {"closed", "listening", "connected", "left", "disconnected"}]
    /\ user \in [Handles -> Clients \cup {None}]
    /\ lock \in [Handles -> Clients \cup {None}]
    /\ handle \in [Clients -> Handles \cup {None}]
    /\ post \in [Clients -> {"none", "run", "disconnect", "close", "done"}]
    /\ listen \in [Clients -> {"none", "run", "read", "done"}]
    /\ posted \in [Clients -> 0..Rounds] /\ fetched \in [Clients -> 0..Rounds]
    /\ pc \in [Clients -> {"start", "read", "write", "prompt", "gone"}]
    /\ commands \in [Clients -> 0..Rounds] /\ messages \in [Clients -> 0..Rounds + 1]
    /\ crossed \in BOOLEAN

Init ==
    /\ main = "create" /\ hPipe = None
    /\ pipe = [h \in Handles |-> "closed"]
    /\ user = [h \in Handles |-> None] /\ lock = [h \in Handles |-> None]
    /\ handle = [c \in Clients |-> None]
    /\ post = [c \in Clients |-> "none"] /\ posted = [c \in Clients |-> 0]
    /\ listen = [c \in Clients |-> "none"] /\ fetched = [c \in Clients |-> 0]
    /\ pc = [c \in Clients |-> "start"]
    /\ commands = [c \in Clients |-> 0] /\ messages = [c \in Clients |-> 0]
    /\ crossed = FALSE

Set(f, i, v) == [f EXCEPT ![i] = v]
Add(f, i, n) == [f EXCEPT ![i] = @ + n]

-----------------------------------------------------------------------------
(* _tmain.                                                                 *)

Ready(h) == lock[h] = None

CreateNamedPipe ==
    /\ main = "create" /\ main' = "created"
    /\ \E h \in Handles : /\ pipe[h] = "closed"
                          /\ hPipe' = h
                          /\ pipe' = Set(pipe, h, "listening")
    /\ UNCHANGED <<user, lock, handle, postVars, listenVars, clientVars>>

\* CreateNamedPipe fails: main returns, and the process ends with all threads and handles.
\* What a client was sent it can still read.
CreateNamedPipeFails ==
    /\ main = "create" /\ main' = "ended"
    /\ pipe' = [h \in Handles |-> "closed"]
    /\ user' = [h \in Handles |-> None] /\ lock' = [h \in Handles |-> None]
    /\ post' = [c \in Clients |-> IF post[c] = "none" THEN "none" ELSE "done"]
    /\ listen' = [c \in Clients |-> IF listen[c] = "none" THEN "none" ELSE "done"]
    /\ messages' = [c \in Clients |-> 0]
    /\ UNCHANGED <<hPipe, handle, posted, fetched, crossed, pc, commands>>

\* ConnectNamedPipe is called, and waits for its turn like every operation on the handle:
\* a listening thread that was given the same value may have a ReadFile pending there.
ConnectBegins ==
    /\ main = "created" /\ main' = "connect"
    /\ Ready(hPipe)
    /\ UNCHANGED <<hPipe, pipeVars, handle, postVars, listenVars, clientVars>>

\* Mutant of ConnectNamedPipe: the handle is closed for a client that has left as well,
\* after its threads were created.
MutConnectNamedPipe ==
    /\ main = "connect"
    /\ pipe[hPipe] \in {"connected", "left"}
    /\ main' = "spawnPost" /\ handle' = Set(handle, user[hPipe], hPipe)
    /\ pipe' = IF pipe[hPipe] = "left" THEN Set(pipe, hPipe, "closed") ELSE pipe
    /\ UNCHANGED <<hPipe, user, lock, postVars, listenVars, clientVars>>

\* ConnectNamedPipe returns when a client is there, and fails if it has left again.
ConnectNamedPipe ==
    /\ main = "connect"
    /\ \/ /\ pipe[hPipe] = "connected"
          /\ main' = "spawnPost" /\ handle' = Set(handle, user[hPipe], hPipe)
          /\ UNCHANGED <<pipe, user>>
       \/ /\ pipe[hPipe] = "left"
          /\ main' = "create"
          /\ pipe' = Set(pipe, hPipe, "closed") /\ user' = Set(user, hPipe, None)
          /\ UNCHANGED handle
    /\ UNCHANGED <<hPipe, lock, postVars, listenVars, clientVars>>

\* CreateThread, or a HeapAlloc of the new thread, may fail: the others go on without it.
CreatePostToClientThread ==
    /\ main = "spawnPost" /\ main' = "spawnListen"
    /\ \E s \in {"run", "done"} : post' = Set(post, user[hPipe], s)
    /\ UNCHANGED <<hPipe, pipeVars, handle, posted, listenVars, clientVars>>

\* Mutant of CreateListenToClientThread: the main thread fetches the messages itself.
MutCreateListenToClientThread ==
    /\ main = "spawnListen" /\ main' = "create"
    /\ \E c \in Clients : handle[c] = hPipe /\ listen[c] = "done"
    /\ UNCHANGED <<hPipe, pipeVars, handle, postVars, listenVars, clientVars>>

CreateListenToClientThread ==
    /\ main = "spawnListen" /\ main' = "create"
    /\ \E c \in Clients, s \in {"run", "done"} :
           /\ handle[c] = hPipe /\ post[c] # "none" /\ listen[c] = "none"
           /\ listen' = Set(listen, c, s)
    /\ UNCHANGED <<hPipe, pipeVars, handle, postVars, fetched, crossed, clientVars>>

-----------------------------------------------------------------------------
(* PostToClientThread.  Each operation waits until no other is pending.    *)

\* Mutant of PostMessage: the operations do not wait for each other.
MutPostMessage(c) ==
    LET h == handle[c] IN
    /\ post[c] = "run"
    /\ commands' = IF pipe[h] = "connected" THEN Add(commands, user[h], 1) ELSE commands
    /\ posted' = Add(posted, c, 1)
    /\ post' = Set(post, c, IF posted'[c] = Rounds THEN "disconnect" ELSE "run")
    /\ UNCHANGED <<mainVars, pipeVars, handle, listenVars, pc, messages>>

\* WriteFile; its failure is only printed.
PostMessage(c) ==
    LET h == handle[c] IN
    /\ post[c] = "run" /\ Ready(h)
    /\ commands' = IF pipe[h] = "connected" THEN Add(commands, user[h], 1) ELSE commands
    /\ posted' = Add(posted, c, 1)
    /\ post' = Set(post, c, IF posted'[c] = Rounds THEN "disconnect" ELSE "run")
    /\ UNCHANGED <<mainVars, pipeVars, handle, listenVars, pc, messages>>

\* DisconnectNamedPipe discards what was not read.
Disconnect(c) ==
    LET h == handle[c] IN
    /\ post[c] = "disconnect" /\ Ready(h)
    /\ post' = Set(post, c, "close")
    /\ pipe' = Set(pipe, h, "disconnected")
    /\ commands' = Set(commands, c, 0) /\ messages' = Set(messages, c, 0)
    /\ UNCHANGED <<mainVars, user, lock, handle, posted, listenVars, pc>>

Close(c) ==
    LET h == handle[c] IN
    /\ post[c] = "close"
    /\ post' = Set(post, c, "done")
    /\ pipe' = Set(pipe, h, "closed") /\ user' = Set(user, h, None)
    /\ UNCHANGED <<mainVars, lock, handle, posted, listenVars, clientVars>>

-----------------------------------------------------------------------------
(* ListenToClientThread.                                                   *)

\* FetchMessage has returned, with a message or without.
Fetched(c) ==
    /\ fetched' = Add(fetched, c, 1)
    /\ listen' = Set(listen, c, IF fetched'[c] = Rounds THEN "done" ELSE "run")

\* ReadFile on whatever the value stands for now: it becomes pending, or fails at once, as
\* it does while nobody has connected.
ReadFile(c) ==
    LET h == handle[c] IN
    /\ listen[c] = "run" /\ Ready(h)
    /\ main = "connect" => hPipe # h        \* where ConnectNamedPipe is pending
    /\ IF pipe[h] \in {"connected", "left"}
       THEN listen' = Set(listen, c, "read") /\ lock' = Set(lock, h, c) /\ UNCHANGED fetched
       ELSE Fetched(c) /\ UNCHANGED lock
    /\ UNCHANGED <<mainVars, pipe, user, handle, postVars, crossed, clientVars>>

\* Mutant of ReadCompletes: a ReadFile that failed is counted as a message.
MutReadCompletes(c) ==
    LET h == handle[c]
        u == user[h]
    IN
    /\ listen[c] = "read"
    /\ messages[u] > 0 \/ pipe[h] = "left"
    /\ messages' = Add(messages, u, -1)
    /\ crossed' = (crossed \/ (u # c /\ messages[u] > 0))
    /\ lock' = Set(lock, h, None)
    /\ Fetched(c)
    /\ UNCHANGED <<mainVars, pipe, user, handle, postVars, pc, commands>>

\* Mutant of ReadCompletes: the end of the client is not noticed.
MutReadNeverFails(c) ==
    LET h == handle[c]
        u == user[h]
    IN
    /\ listen[c] = "read"
    /\ messages[u] > 0
    /\ messages' = IF messages[u] > 0 THEN Add(messages, u, -1) ELSE messages
    /\ crossed' = (crossed \/ (u # c /\ messages[u] > 0))
    /\ lock' = Set(lock, h, None)
    /\ Fetched(c)
    /\ UNCHANGED <<mainVars, pipe, user, handle, postVars, pc, commands>>

\* The pending ReadFile is given a message, or fails because the client has left.
ReadCompletes(c) ==
    LET h == handle[c]
        u == user[h]
    IN
    /\ listen[c] = "read"
    /\ messages[u] > 0 \/ pipe[h] = "left"
    /\ messages' = IF messages[u] > 0 THEN Add(messages, u, -1) ELSE messages
    /\ crossed' = (crossed \/ (u # c /\ messages[u] > 0))
    /\ lock' = Set(lock, h, None)
    /\ Fetched(c)
    /\ UNCHANGED <<mainVars, pipe, user, handle, postVars, pc, commands>>

-----------------------------------------------------------------------------
(* The clients.                                                            *)

Go(c, from, to) == pc[c] = from /\ pc' = Set(pc, c, to)

Connect(c) ==
    /\ Go(c, "start", IF c \in Writers THEN "write" ELSE "read")
    /\ \E h \in Handles : /\ pipe[h] = "listening"
                          /\ pipe' = Set(pipe, h, "connected") /\ user' = Set(user, h, c)
    /\ UNCHANGED <<mainVars, lock, handle, postVars, listenVars, commands, messages>>

Linked(c) == \E h \in Handles : user[h] = c /\ pipe[h] = "connected"

ReadCommand(c) ==
    /\ Go(c, "read", IF c \in Writers THEN "prompt" ELSE "write")
    /\ commands[c] > 0
    /\ commands' = Add(commands, c, -1)
    /\ UNCHANGED <<mainVars, pipeVars, handle, postVars, listenVars, messages>>

WriteMessage(c) ==
    /\ Go(c, "write", "read")
    /\ Linked(c)
    /\ messages' = Add(messages, c, 1)
    /\ UNCHANGED <<mainVars, pipeVars, handle, postVars, listenVars, commands>>

\* The client closes its end, or its process ends, at whatever point it is.
Leave(c) ==
    /\ pc[c] \in {"read", "write", "prompt"} /\ pc' = Set(pc, c, "gone")
    /\ pipe' = [h \in Handles |->
                   IF user[h] = c /\ pipe[h] = "connected" THEN "left" ELSE pipe[h]]
    /\ commands' = Set(commands, c, 0)
    /\ UNCHANGED <<mainVars, user, lock, handle, postVars, listenVars, messages>>

-----------------------------------------------------------------------------
MainNext ==
    \/ CreateNamedPipe \/ ConnectBegins \/ ConnectNamedPipe
    \/ CreatePostToClientThread \/ CreateListenToClientThread

PostNext(c) == PostMessage(c) \/ Disconnect(c) \/ Close(c)
ListenNext(c) == ReadFile(c) \/ ReadCompletes(c)
ClientNext(c) == Connect(c) \/ ReadCommand(c) \/ WriteMessage(c) \/ Leave(c)

Next ==
    \/ MainNext \/ CreateNamedPipeFails
    \/ \E c \in Clients : PostNext(c) \/ ListenNext(c) \/ ClientNext(c)

Spec == Init /\ [][Next]_vars

\* Every thread of the server runs.  The clients need not do anything.
Fairness ==
    /\ WF_vars(MainNext)
    /\ \A c \in Clients : WF_vars(PostNext(c)) /\ WF_vars(ListenNext(c))

FairSpec == Spec /\ Fairness

-----------------------------------------------------------------------------
\* As long as a client's posting thread runs, its handle value stands for that client's
\* connection and for no other, although the main thread closes and creates handles
\* (ServerThreads.cpp:66-79, 288-289).
PostsToOwnClient ==
    \A c \in Clients :
        post[c] \in {"run", "disconnect"}
            => user[handle[c]] = c /\ pipe[handle[c]] \in {"connected", "left"}

\* Neither side can go on: the client waits for a command, the posting thread for the
\* ReadFile of the listening thread, and that for a message of the client.
Stuck(c) ==
    /\ pc[c] = "read" /\ commands[c] = 0
    /\ post[c] = "run" /\ posted[c] < Rounds
    /\ listen[c] = "read" /\ messages[c] = 0

\* That happens to a client which reads first as soon as its listening thread comes
\* before its posting thread, and only its own leaving ends it, or the process's end: no
\* other thread's step does (ServerThreads.cpp:310-315, 414-419; IPCClient.cs:56-59).
StuckUntilGone ==
    [][\A c \in Clients :
           Stuck(c) => Stuck(c)' \/ pc'[c] = "gone" \/ main' = "ended"]_vars

\* The main thread waits for nobody else than the next client.
Free == main = "connect" /\ pipe[hPipe] = "listening"

\* Before it could call ConnectNamedPipe a client came in, and a listening thread that still
\* used the handle value began to read: they wait for that client to write or to leave.
HeldUp ==
    /\ main = "created" /\ ~Ready(hPipe)
    /\ pipe[hPipe] = "connected" /\ messages[user[hPipe]] = 0

\* The main thread gets through with every client that comes, and back to waiting for the
\* next, however the threads it has created are stuck; unless one of them that has outlived
\* its own connection holds it up.  The comment at its loop has it free without exception
\* (ServerThreads.cpp:35-39, 44-75).
LoopIsFree == []<>(Free \/ HeldUp \/ main = "ended")

\* When a client has gone its connection is closed in the end, unless a thread could not
\* be created: no listening thread holds up the posting thread for ever, be it one that
\* fell upon this connection by a handle value used again.
ConnectionsEnd == \A c \in Clients : pc[c] = "gone" ~> post[c] \in {"none", "done"}

\* "A thread is created to handle communications with that client": a thread that
\* listens to a client is not given another one's messages (ServerThreads.cpp:36-38).
ListensToOwnClient == ~crossed
=============================================================================
