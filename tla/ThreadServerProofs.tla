------------------------- MODULE ThreadServerProofs -------------------------
(***************************************************************************)
(* The threaded server for any number of clients, handle values and turns. *)
(* The inductive invariant says which threads can be at work on a handle   *)
(* value, now that values are used again: a posting thread only on its own *)
(* client's connection, a listening thread on any.                         *)
(***************************************************************************)
EXTENDS ThreadServer, FiniteSetTheorems, TLAPS

USE ThreadAssumption

\* A connection has one client, and a client one connection; a client that has left is
\* gone, and one that has not come yet has no threads.
Connections ==
    /\ \A h \in Handles : user[h] = None <=> pipe[h] \in {"closed", "listening"}
    /\ \A h \in Handles, g \in Handles : user[h] # None /\ user[h] = user[g] => h = g
    /\ \A h \in Handles : pipe[h] = "left" => pc[user[h]] = "gone"
    /\ \A h \in Handles : user[h] # None => pc[user[h]] # "start"
    /\ \A c \in Clients : pc[c] = "start" => post[c] = "none"

\* What the main thread works with is not yet in the hands of a posting thread.
Accepting ==
    /\ main \notin {"create", "ended"} => hPipe # None
    /\ main \in {"created", "connect"} =>
           /\ pipe[hPipe] \in {"listening", "connected", "left"}
           /\ user[hPipe] # None => post[user[hPipe]] = "none"
    /\ main = "spawnPost" => /\ pipe[hPipe] \in {"connected", "left"}
                             /\ post[user[hPipe]] = "none"
                             /\ handle[user[hPipe]] = hPipe
    /\ \A h \in Handles : pipe[h] = "listening" => main \in {"created", "connect"} /\ hPipe = h

\* Both threads of a client were given a handle; the listening one is created last.
Given ==
    /\ \A c \in Clients : post[c] # "none" => handle[c] # None
    /\ \A c \in Clients : post[c] = "none" => listen[c] = "none"

\* A pending ReadFile is that of a listening thread, on a connection, and never there where
\* ConnectNamedPipe is pending.
Locks ==
    /\ \A h \in Handles : lock[h] # None =>
           /\ listen[lock[h]] = "read" /\ handle[lock[h]] = h
           /\ pipe[h] \in {"connected", "left"}
           /\ main = "connect" => hPipe # h
    /\ \A c \in Clients : listen[c] = "read" => lock[handle[c]] = c

\* Between DisconnectNamedPipe and CloseHandle the value stands for what was disconnected.
Closing ==
    \A c \in Clients : post[c] = "close"
        => user[handle[c]] = c /\ pipe[handle[c]] = "disconnected"

\* There are no more commands and answers on their way than turns were made.
Turns ==
    /\ \A c \in Clients : post[c] \in {"none", "run"} => posted[c] < Rounds
    /\ \A c \in Clients : listen[c] # "done" => fetched[c] < Rounds
    /\ \A c \in Clients : commands[c] <= posted[c]
    /\ \A c \in Clients \ Writers : commands[c] + messages[c] <= posted[c]
    /\ \A c \in Clients \ Writers : pc[c] = "write" => commands[c] + messages[c] < posted[c]
    /\ \A c \in Writers : messages[c] <= 1
    /\ \A c \in Writers : pc[c] \in {"start", "write"} => messages[c] = 0

Inv ==
    /\ TypeOK
    /\ Connections
    /\ Accepting
    /\ Given
    /\ Locks
    /\ Closing
    /\ Turns
    /\ PostsToOwnClient

\* CreateNamedPipe preserves the invariant.
LEMMA CreateNamedPipeStep ==
    ASSUME Inv, CreateNamedPipe
    PROVE  Inv'
<1> USE DEF Inv, CreateNamedPipe, Set, mainVars, pipeVars, postVars, listenVars, clientVars
<1>1. Connections' /\ Given' /\ Locks' /\ Closing' /\ Turns' /\ PostsToOwnClient'
    BY DEF Connections, Given, Locks, Closing, Turns, PostsToOwnClient
<1>2. TypeOK'
    BY DEF TypeOK
<1>3. Accepting'
    BY DEF TypeOK, Accepting, Connections
<1> QED
    BY <1>1, <1>2, <1>3

\* CreateNamedPipeFails preserves the invariant.
LEMMA CreateNamedPipeFailsStep ==
    ASSUME Inv, CreateNamedPipeFails
    PROVE  Inv'
<1> USE DEF Inv, CreateNamedPipeFails
<1>1. TypeOK'
    BY DEF TypeOK
<1>2. Connections' /\ Accepting' /\ Given'
    BY DEF TypeOK, Connections, Accepting, Given
<1>3. Locks' /\ Closing' /\ PostsToOwnClient'
    BY DEF TypeOK, Locks, Closing, PostsToOwnClient
<1>4. Turns'
    BY DEF TypeOK, Turns
<1> QED
    BY <1>1, <1>2, <1>3, <1>4

\* ConnectBegins preserves the invariant.
LEMMA ConnectBeginsStep ==
    ASSUME Inv, ConnectBegins
    PROVE  Inv'
<1> USE DEF Inv, ConnectBegins, Ready, pipeVars, postVars, listenVars, clientVars
<1>1. Connections' /\ Given' /\ Closing' /\ Turns' /\ PostsToOwnClient'
    BY DEF Connections, Given, Closing, Turns, PostsToOwnClient
<1>2. TypeOK'
    BY DEF TypeOK
<1>3. Accepting' /\ Locks'
    BY DEF Accepting, Locks
<1> QED
    BY <1>1, <1>2, <1>3

\* ConnectNamedPipe preserves the invariant.
LEMMA ConnectNamedPipeStep ==
    ASSUME Inv, ConnectNamedPipe
    PROVE  Inv'
<1> USE DEF Inv, ConnectNamedPipe, Set, mainVars, pipeVars, postVars, listenVars, clientVars
<1>1. TypeOK'
    BY DEF TypeOK
<1>2. Connections'
    BY DEF TypeOK, Connections
<1>3. Accepting'
    BY DEF TypeOK, Accepting, Connections
<1>4. Given'
    BY DEF TypeOK, Given, Accepting
<1>5. Locks'
    BY DEF TypeOK, Locks, Given, Accepting
<1>6. Closing'
  <2>0. hPipe \in Handles
    BY DEF TypeOK, Accepting
  <2>1. CASE pipe[hPipe] = "connected"
    <3>1. user[hPipe] # None /\ post[user[hPipe]] = "none"
      BY <2>0, <2>1 DEF Connections, Accepting
    <3> QED
      BY <2>0, <2>1, <3>1 DEF TypeOK, Closing
  <2>2. CASE pipe[hPipe] = "left"
    <3>1. \A c \in Clients : post[c] = "close" => handle[c] # hPipe
      BY <2>2 DEF Closing
    <3> QED
      BY <2>0, <2>2, <3>1 DEF TypeOK, Closing, Given
  <2> QED
    BY <2>1, <2>2
<1>7. Turns'
    BY DEF Turns
<1>8. PostsToOwnClient'
  <2>0. hPipe \in Handles
    BY DEF TypeOK, Accepting
  <2>1. CASE pipe[hPipe] = "connected"
    <3>1. user[hPipe] # None /\ post[user[hPipe]] = "none"
      BY <2>0, <2>1 DEF Connections, Accepting
    <3> QED
      BY <2>0, <2>1, <3>1 DEF TypeOK, PostsToOwnClient
  <2>2. CASE pipe[hPipe] = "left"
    <3>1. user[hPipe] # None /\ post[user[hPipe]] = "none"
      BY <2>0, <2>2 DEF Connections, Accepting
    <3>2. \A c \in Clients : post[c] \in {"run", "disconnect"} => handle[c] # hPipe
      BY <3>1 DEF PostsToOwnClient
    <3> QED
      BY <2>0, <2>2, <3>2 DEF TypeOK, PostsToOwnClient, Given
  <2> QED
    BY <2>1, <2>2
<1> QED
    BY <1>1, <1>2, <1>3, <1>4, <1>5, <1>6, <1>7, <1>8

\* CreatePostToClientThread preserves the invariant.
LEMMA CreatePostToClientThreadStep ==
    ASSUME Inv, CreatePostToClientThread
    PROVE  Inv'
<1> USE DEF Inv, CreatePostToClientThread, Set, mainVars, pipeVars, postVars, listenVars,
      clientVars
<1>1. Accepting' /\ Locks' /\ Closing'
    BY DEF Accepting, Locks, Closing
<1>2. TypeOK'
    BY DEF TypeOK, Connections, Accepting
<1>3. Connections'
    BY DEF TypeOK, Connections, Accepting
<1>4. Given'
    BY DEF TypeOK, Given, Accepting
<1>5. Turns'
  <2>1. user[hPipe] \in Clients
    BY DEF TypeOK, Accepting, Connections
  <2>2. posted[user[hPipe]] < Rounds
    BY <2>1 DEF Turns, Accepting
  <2>3. \A c \in Clients : post'[c] = "run" => posted[c] < Rounds
    BY <2>1, <2>2 DEF TypeOK, Turns
  <2> QED
    BY <2>3 DEF Turns
<1>6. PostsToOwnClient'
    BY DEF TypeOK, PostsToOwnClient, Accepting
<1> QED
    BY <1>1, <1>2, <1>3, <1>4, <1>5, <1>6

\* CreateListenToClientThread preserves the invariant.
LEMMA CreateListenToClientThreadStep ==
    ASSUME Inv, CreateListenToClientThread
    PROVE  Inv'
<1> USE DEF Inv, CreateListenToClientThread, Set, mainVars, pipeVars, postVars, listenVars,
      clientVars
<1>1. Connections' /\ Accepting' /\ Given' /\ Locks' /\ Closing' /\ Turns' /\ PostsToOwnClient'
    BY DEF Connections, Accepting, Given, Locks, Closing, Turns, PostsToOwnClient
<1>2. TypeOK'
    BY DEF TypeOK
<1> QED
    BY <1>1, <1>2

\* PostMessage preserves the invariant.
LEMMA PostMessageStep ==
    ASSUME Inv, NEW c \in Clients, PostMessage(c)
    PROVE  Inv'
<1> USE DEF Inv, PostMessage, Ready, Set, Add, mainVars, pipeVars, postVars, listenVars,
      clientVars
<1>1. Connections' /\ Accepting' /\ Given' /\ Locks' /\ Closing' /\ PostsToOwnClient'
    BY DEF Connections, Accepting, Given, Locks, Closing, PostsToOwnClient
<1>2. TypeOK'
    BY DEF TypeOK, Turns, PostsToOwnClient
<1>3. Turns'
    BY DEF TypeOK, Turns, PostsToOwnClient
<1> QED
    BY <1>1, <1>2, <1>3

\* Disconnect preserves the invariant.
LEMMA DisconnectStep ==
    ASSUME Inv, NEW c \in Clients, Disconnect(c)
    PROVE  Inv'
<1> USE DEF Inv, Disconnect, Ready, Set, mainVars, pipeVars, postVars, listenVars, clientVars
<1>1. Given' /\ Locks'
    BY DEF Given, Locks
<1>2. TypeOK'
    BY DEF TypeOK, Given
<1>3. Connections'
    BY DEF TypeOK, Connections, PostsToOwnClient
<1>4. Accepting'
    BY DEF TypeOK, Accepting, PostsToOwnClient
<1>5. Closing'
  <2>1. handle[c] \in Handles /\ user[handle[c]] = c
    BY DEF TypeOK, Given, PostsToOwnClient
  <2>2. post'[c] = "close" /\ user' = user /\ handle' = handle
        /\ pipe'[handle[c]] = "disconnected"
    BY <2>1 DEF TypeOK
  <2>3. ASSUME NEW d \in Clients, d # c, post'[d] = "close"
        PROVE  user[handle[d]] = d /\ pipe'[handle[d]] = "disconnected"
    <3>1. post[d] = "close"
      BY <2>3 DEF TypeOK
    <3>2. user[handle[d]] = d /\ pipe[handle[d]] = "disconnected"
      BY <3>1 DEF Closing
    <3>3. handle[d] # handle[c]
      BY <2>1, <2>3, <3>2
    <3> QED
      BY <3>2, <3>3 DEF TypeOK
  <2> QED
    BY <2>1, <2>2, <2>3 DEF Closing
<1>6. Turns'
    BY DEF TypeOK, Turns
<1>7. PostsToOwnClient'
    BY DEF TypeOK, PostsToOwnClient
<1> QED
    BY <1>1, <1>2, <1>3, <1>4, <1>5, <1>6, <1>7

\* Close preserves the invariant.
LEMMA CloseStep ==
    ASSUME Inv, NEW c \in Clients, Close(c)
    PROVE  Inv'
<1> USE DEF Inv, Close, Set, mainVars, pipeVars, postVars, listenVars, clientVars
<1>1. Given' /\ Turns'
    BY DEF Given, Turns
<1>2. TypeOK'
    BY DEF TypeOK
<1>3. Connections'
    BY DEF TypeOK, Connections
<1>4. Accepting'
    BY DEF TypeOK, Accepting, Closing
<1>5. Locks'
    BY DEF TypeOK, Locks, Closing
<1>6. Closing'
    BY DEF TypeOK, Closing
<1>7. PostsToOwnClient'
    BY DEF TypeOK, PostsToOwnClient, Closing
<1> QED
    BY <1>1, <1>2, <1>3, <1>4, <1>5, <1>6, <1>7

\* ReadFile preserves the invariant.
LEMMA ReadFileStep ==
    ASSUME Inv, NEW c \in Clients, ReadFile(c)
    PROVE  Inv'
<1> USE DEF Inv, ReadFile, Ready, Fetched, Set, Add, mainVars, pipeVars, postVars, listenVars,
      clientVars
<1>1. Connections' /\ Accepting' /\ Closing' /\ PostsToOwnClient'
    BY DEF Connections, Accepting, Closing, PostsToOwnClient
<1>2. TypeOK'
    BY DEF TypeOK, Turns
<1>3. Given'
    BY DEF TypeOK, Given
<1>4. Locks'
    BY DEF TypeOK, Locks, Given
<1>5. Turns'
    BY DEF TypeOK, Turns
<1> QED
    BY <1>1, <1>2, <1>3, <1>4, <1>5

\* ReadCompletes preserves the invariant.
LEMMA ReadCompletesStep ==
    ASSUME Inv, NEW c \in Clients, ReadCompletes(c)
    PROVE  Inv'
<1> USE DEF Inv, ReadCompletes, Fetched, Set, Add, mainVars, pipeVars, postVars, listenVars,
      clientVars
<1>1. Connections' /\ Accepting' /\ Given' /\ Closing' /\ PostsToOwnClient'
    BY DEF Connections, Accepting, Given, Closing, PostsToOwnClient
<1>2. TypeOK'
  <2>1. handle[c] \in Handles /\ user[handle[c]] \in Clients
    BY DEF TypeOK, Given, Locks, Connections
  <2>2. messages' \in [Clients -> 0..Rounds + 1]
    BY <2>1 DEF TypeOK
  <2>3. crossed' \in BOOLEAN
    BY Zenon
  <2>4. listen' \in [Clients -> {"none", "run", "read", "done"}]
    BY DEF TypeOK
  <2>5. fetched' \in [Clients -> 0..Rounds]
    <3>1. fetched[c] \in 0..Rounds /\ fetched[c] < Rounds
      BY DEF TypeOK, Turns
    <3> QED
      BY <3>1 DEF TypeOK
  <2>6. lock' \in [Handles -> Clients \cup {None}]
    BY DEF TypeOK
  <2> QED
    BY <2>2, <2>3, <2>4, <2>5, <2>6 DEF TypeOK
<1>3. Locks'
    BY DEF TypeOK, Locks
<1>4. Turns'
    BY DEF TypeOK, Turns
<1> QED
    BY <1>1, <1>2, <1>3, <1>4

\* Connect preserves the invariant.
LEMMA ConnectStep ==
    ASSUME Inv, NEW c \in Clients, Connect(c)
    PROVE  Inv'
<1> USE DEF Inv, Connect, Go, Set, mainVars, pipeVars, postVars, listenVars, clientVars
<1>1. Given' /\ Locks' /\ Closing' /\ Turns' /\ PostsToOwnClient'
    BY DEF Given, Locks, Closing, Turns, PostsToOwnClient
<1>2. TypeOK'
    BY DEF TypeOK
<1>3. Connections'
    BY DEF TypeOK, Connections
<1>4. Accepting'
    BY DEF TypeOK, Accepting, Connections
<1> QED
    BY <1>1, <1>2, <1>3, <1>4

\* ReadCommand preserves the invariant.
LEMMA ReadCommandStep ==
    ASSUME Inv, NEW c \in Clients, ReadCommand(c)
    PROVE  Inv'
<1> USE DEF Inv, ReadCommand, Go, Set, Add, mainVars, pipeVars, postVars, listenVars, clientVars
<1>1. Connections' /\ Accepting' /\ Given' /\ Locks' /\ Closing' /\ PostsToOwnClient'
    BY DEF Connections, Accepting, Given, Locks, Closing, PostsToOwnClient
<1>2. TypeOK'
    BY DEF TypeOK
<1>3. Turns'
    BY DEF TypeOK, Turns
<1> QED
    BY <1>1, <1>2, <1>3

\* WriteMessage preserves the invariant.
LEMMA WriteMessageStep ==
    ASSUME Inv, NEW c \in Clients, WriteMessage(c)
    PROVE  Inv'
<1> USE DEF Inv, WriteMessage, Go, Linked, Set, Add, mainVars, pipeVars, postVars, listenVars,
      clientVars
<1>1. Connections' /\ Accepting' /\ Given' /\ Locks' /\ Closing' /\ PostsToOwnClient'
    BY DEF Connections, Accepting, Given, Locks, Closing, PostsToOwnClient
<1>2. TypeOK'
    BY DEF TypeOK, Turns
<1>3. Turns'
    BY DEF TypeOK, Turns
<1> QED
    BY <1>1, <1>2, <1>3

\* Leave preserves the invariant.
LEMMA LeaveStep ==
    ASSUME Inv, NEW c \in Clients, Leave(c)
    PROVE  Inv'
<1> USE DEF Inv, Leave, Set, mainVars, pipeVars, postVars, listenVars, clientVars
<1>1. Given' /\ Locks'
    BY DEF Given, Locks
<1>2. TypeOK'
    BY DEF TypeOK
<1>3. Connections'
    BY DEF TypeOK, Connections
<1>4. Accepting'
    BY DEF TypeOK, Accepting
<1>5. Closing'
  <2>1. ASSUME NEW d \in Clients, post[d] = "close"
        PROVE  user[handle[d]] = d /\ pipe'[handle[d]] = "disconnected"
    <3>1. user[handle[d]] = d /\ pipe[handle[d]] = "disconnected" /\ handle[d] \in Handles
      BY <2>1 DEF TypeOK, Closing, Given
    <3> QED
      BY <3>1
  <2> QED
    BY <2>1 DEF Closing
<1>6. Turns'
    BY DEF TypeOK, Turns
<1>7. PostsToOwnClient'
  <2>1. ASSUME NEW d \in Clients, post[d] \in {"run", "disconnect"}
        PROVE  user[handle[d]] = d /\ pipe'[handle[d]] \in {"connected", "left"}
    <3>1. /\ user[handle[d]] = d /\ pipe[handle[d]] \in {"connected", "left"}
          /\ handle[d] \in Handles
      BY <2>1 DEF TypeOK, PostsToOwnClient, Given
    <3> QED
      BY <3>1
  <2> QED
    BY <2>1 DEF PostsToOwnClient
<1> QED
    BY <1>1, <1>2, <1>3, <1>4, <1>5, <1>6, <1>7

-----------------------------------------------------------------------------
\* The server that has just started satisfies the invariant.
LEMMA InitInv == Init => Inv
<1> SUFFICES ASSUME Init PROVE Inv
    OBVIOUS
<1> USE DEF Init
<1>0. 0 \in 0..Rounds /\ 0 \in 0..Rounds + 1
    OBVIOUS
<1>1. TypeOK
    BY <1>0 DEF TypeOK
<1>2. Connections /\ Accepting /\ Given
    BY DEF Connections, Accepting, Given
<1>3. Locks /\ Closing /\ PostsToOwnClient
    BY DEF Locks, Closing, PostsToOwnClient
<1>4. Turns
    BY DEF Turns
<1> QED
    BY <1>1, <1>2, <1>3, <1>4 DEF Inv

\* Every step of the main thread, of the threads of a client and of a client preserves it.
LEMMA NextInv == Inv /\ [Next]_vars => Inv'
<1> SUFFICES ASSUME Inv, [Next]_vars PROVE Inv'
    OBVIOUS
<1>1. CASE UNCHANGED vars
  <2> USE <1>1 DEF Inv, vars, mainVars, pipeVars, postVars, listenVars, clientVars
  <2>1. TypeOK'
    BY DEF TypeOK
  <2>2. Connections' /\ Accepting' /\ Given'
    BY DEF Connections, Accepting, Given
  <2>3. Locks' /\ Closing' /\ PostsToOwnClient'
    BY DEF Locks, Closing, PostsToOwnClient
  <2>4. Turns'
    BY DEF Turns
  <2> QED
    BY <2>1, <2>2, <2>3, <2>4
<1>2. CASE MainNext
    BY <1>2, CreateNamedPipeStep, ConnectBeginsStep, ConnectNamedPipeStep, CreatePostToClientThreadStep,
       CreateListenToClientThreadStep DEF MainNext
<1>3. CASE \E c \in Clients : PostNext(c) \/ ListenNext(c) \/ ClientNext(c)
    BY <1>3, PostMessageStep, DisconnectStep, CloseStep, ReadFileStep, ReadCompletesStep,
       ConnectStep, ReadCommandStep, WriteMessageStep, LeaveStep
       DEF PostNext, ListenNext, ClientNext
<1> QED
    BY <1>1, <1>2, <1>3, CreateNamedPipeFailsStep DEF Next

\* The invariant holds throughout.
LEMMA Invariance == Spec => []Inv
<1> QED
    BY InitInv, NextInv, PTL DEF Spec

\* The variables keep their types; no counter exceeds the turns of the loops by more than one.
THEOREM TypeCorrect == Spec => []TypeOK
<1>1. Inv => TypeOK
    BY DEF Inv
<1> QED
    BY <1>1, Invariance, PTL

\* A posting thread's handle value stands for its own client's connection as long as the
\* thread runs, however values are used again (ServerThreads.cpp:66-79, 288-289).
THEOREM OwnClient == Spec => []PostsToOwnClient
<1>1. Inv => PostsToOwnClient
    BY DEF Inv
<1> QED
    BY <1>1, Invariance, PTL

\* A listening thread can be given the message of another client only by a handle value
\* that its own connection no longer has: its client's posting thread has closed it.
COROLLARY CrossedMeansClosed ==
    Spec => [](\A c \in Clients :
                   listen[c] = "read" /\ user[handle[c]] # c => post[c] \notin {"run", "disconnect"})
<1>1. Inv => \A c \in Clients :
                 listen[c] = "read" /\ user[handle[c]] # c => post[c] \notin {"run", "disconnect"}
    BY DEF Inv, PostsToOwnClient
<1> QED
    BY <1>1, Invariance, PTL

\* Where both sides wait, what each of them waits for is the other.
LEMMA StuckLinked ==
    ASSUME Inv, NEW c \in Clients, Stuck(c)
    PROVE  /\ handle[c] \in Handles /\ user[handle[c]] = c /\ lock[handle[c]] = c
           /\ pipe[handle[c]] = "connected"
<1>1. handle[c] \in Handles /\ user[handle[c]] = c
    BY DEF Inv, Stuck, TypeOK, Given, PostsToOwnClient
<1>2. lock[handle[c]] = c
    BY DEF Inv, Stuck, Locks
<1>3. pipe[handle[c]] = "connected"
    BY <1>1 DEF Inv, Stuck, PostsToOwnClient, Connections
<1> QED
    BY <1>1, <1>2, <1>3

\* No step of another thread frees them.
LEMMA StuckStep ==
    ASSUME Inv, Next, NEW c \in Clients, Stuck(c)
    PROVE  Stuck(c)' \/ pc'[c] = "gone" \/ main' = "ended"
<1>0. /\ handle[c] \in Handles /\ user[handle[c]] = c /\ lock[handle[c]] = c
      /\ pipe[handle[c]] = "connected"
    BY StuckLinked
<1> USE DEF Stuck, Inv, Set, Add, mainVars, pipeVars, postVars, listenVars, clientVars
<1>1. CASE MainNext
  <2>1. main = "spawnPost" => user[hPipe] # c
    BY DEF Accepting
  <2>2. CASE CreatePostToClientThread
    BY <2>1, <2>2 DEF CreatePostToClientThread, TypeOK
  <2>3. CASE CreateListenToClientThread
    BY <2>3 DEF CreateListenToClientThread, TypeOK
  <2> QED
    BY <1>1, <2>2, <2>3 DEF MainNext, CreateNamedPipe, ConnectBegins, ConnectNamedPipe
<1>2. ASSUME NEW d \in Clients, PostNext(d) PROVE Stuck(c)'
  <2>1. post[d] \in {"run", "disconnect"} => user[handle[d]] = d
    BY DEF PostsToOwnClient
  <2>2. d = c => ~Ready(handle[d])
    BY <1>0 DEF Ready, TypeOK
  <2>3. d # c
    BY <1>2, <2>2 DEF PostNext, PostMessage, Disconnect, Close
  <2>4. CASE PostMessage(d)
    BY <2>1, <2>3, <2>4 DEF PostMessage, TypeOK
  <2>5. CASE Disconnect(d)
    BY <2>3, <2>5 DEF Disconnect, TypeOK
  <2>6. CASE Close(d)
    BY <2>3, <2>6 DEF Close, TypeOK
  <2> QED
    BY <1>2, <2>4, <2>5, <2>6 DEF PostNext
<1>3. ASSUME NEW d \in Clients, ListenNext(d) PROVE Stuck(c)'
  <2>1. CASE ReadFile(d)
    <3>1. d # c
      BY <2>1 DEF ReadFile
    <3> QED
      BY <2>1, <3>1 DEF ReadFile, Fetched, TypeOK
  <2>2. CASE ReadCompletes(d)
    <3>1. d # c
      BY <1>0, <2>2 DEF ReadCompletes
    <3>2. lock[handle[d]] = d /\ handle[d] \in Handles
      BY <2>2 DEF ReadCompletes, Locks, Given, TypeOK
    <3>3. handle[d] # handle[c]
      BY <1>0, <3>1, <3>2
    <3>4. user[handle[d]] # c
      BY <1>0, <3>2, <3>3 DEF Connections, TypeOK
    <3> QED
      BY <2>2, <3>1, <3>4 DEF ReadCompletes, Fetched, TypeOK
  <2> QED
    BY <1>3, <2>1, <2>2 DEF ListenNext
<1>4. ASSUME NEW d \in Clients, ClientNext(d) PROVE Stuck(c)' \/ pc'[c] = "gone"
  <2>1. CASE Connect(d)
    BY <2>1 DEF Connect, Go, TypeOK
  <2>2. CASE ReadCommand(d)
    BY <2>2 DEF ReadCommand, Go, TypeOK
  <2>3. CASE WriteMessage(d)
    BY <2>3 DEF WriteMessage, Go, TypeOK
  <2>4. CASE Leave(d)
    BY <2>4 DEF Leave, TypeOK
  <2> QED
    BY <1>4, <2>1, <2>2, <2>3, <2>4 DEF ClientNext
<1>5. CASE CreateNamedPipeFails
    BY <1>5 DEF CreateNamedPipeFails
<1> QED
    BY <1>1, <1>2, <1>3, <1>4, <1>5 DEF Next

\* Once client and threads wait for each other only the client's leaving ends it, or the
\* process's end (ServerThreads.cpp:310-315, 414-419; IPCClient.cs:56-59).
THEOREM NobodyFrees == Spec => StuckUntilGone
<1>1. ASSUME Inv, [Next]_vars
      PROVE  [\A c \in Clients : Stuck(c) => Stuck(c)' \/ pc'[c] = "gone" \/ main' = "ended"]_vars
    BY <1>1, StuckStep
<1> QED
    BY <1>1, Invariance, PTL DEF Spec, StuckUntilGone
-----------------------------------------------------------------------------
\* What CreateNamedPipe needs is there: a handle value that stands for nothing.
ValueIsLeft == main = "create" => \E h \in Handles : pipe[h] = "closed"

\* The main thread is never kept from going on by the number of handle values, so that what
\* is proved is not so because CreateNamedPipe could not be called: a value that is not
\* closed is that of a client, and no client has two (ServerThreads.cpp:44-54).
THEOREM ValuesSuffice == Spec => []ValueIsLeft
<1>1. ASSUME Inv, main = "create", \A h \in Handles : pipe[h] # "closed"
      PROVE  FALSE
  <2>1. \A h \in Handles : user[h] # None
    BY <1>1 DEF Inv, TypeOK, Connections, Accepting
  <2>2. user \in [Handles -> Clients]
    BY <1>1, <2>1 DEF Inv, TypeOK
  <2>3. user \in Injection(Handles, Clients)
    BY <1>1, <2>1, <2>2 DEF Inv, Connections, Injection, IsInjective
  <2>4. Cardinality(Handles) <= Cardinality(Clients)
    BY <2>3, FS_Injection
  <2>5. Cardinality(Handles) \in Nat /\ Cardinality(Clients) \in Nat
    BY FS_CardinalityType
  <2> QED
    BY <2>4, <2>5
<1>2. Inv => ValueIsLeft
    BY <1>1 DEF ValueIsLeft
<1> QED
    BY <1>2, Invariance, PTL

-----------------------------------------------------------------------------
\* A client that has gone is known to have gone at the other end of its connection.
GoneIsSeen ==
    \A h \in Handles : user[h] # None /\ pc[user[h]] = "gone" => pipe[h] # "connected"

\* Nothing keeps the posting thread of a client that has gone from its next operation but
\* a ReadFile that fails now, be it that of another client's listening thread.
NothingHoldsUp ==
    \A c \in Clients :
        pc[c] = "gone" /\ post[c] \in {"run", "disconnect"} =>
            LET h == handle[c]
                d == lock[h]
            IN  Ready(h) \/ (listen[d] = "read" /\ handle[d] = h /\ pipe[h] = "left")

LEMMA GoneStep ==
    ASSUME Inv, GoneIsSeen, [Next]_vars
    PROVE  GoneIsSeen'
<1> USE DEF GoneIsSeen, Set, Add, mainVars, pipeVars, postVars, listenVars, clientVars
<1>1. CASE UNCHANGED vars
    BY <1>1 DEF vars
<1>2. CASE MainNext
    BY <1>2 DEF MainNext, CreateNamedPipe, ConnectBegins, ConnectNamedPipe,
       CreatePostToClientThread, CreateListenToClientThread, Inv, TypeOK
<1>6. CASE CreateNamedPipeFails
    BY <1>6 DEF CreateNamedPipeFails
<1>3. ASSUME NEW c \in Clients, PostNext(c) PROVE GoneIsSeen'
    BY <1>3 DEF PostNext, PostMessage, Disconnect, Close, Inv, TypeOK
<1>4. ASSUME NEW c \in Clients, ListenNext(c) PROVE GoneIsSeen'
    BY <1>4 DEF ListenNext, ReadFile, ReadCompletes
<1>5. ASSUME NEW c \in Clients, ClientNext(c) PROVE GoneIsSeen'
  <2>1. CASE Connect(c)
    BY <1>5, <2>1 DEF Connect, Go, Inv, TypeOK, Connections
  <2>2. CASE Leave(c)
    BY <1>5, <2>2 DEF Leave, Inv, TypeOK
  <2>3. CASE ReadCommand(c) \/ WriteMessage(c)
    BY <1>5, <2>3 DEF ReadCommand, WriteMessage, Go, Inv, TypeOK
  <2> QED
    BY <1>5, <2>1, <2>2, <2>3 DEF ClientNext
<1> QED
    BY <1>1, <1>2, <1>3, <1>4, <1>5, <1>6 DEF Next

\* The connection of a client that has gone can always be brought nearer to its end by the
\* server alone, whichever listening thread has fallen upon it; that it is, in the end,
\* needs fairness (ServerThreads.cpp:288-289, 408-419).
THEOREM GoneHoldsUpNobody == Spec => []NothingHoldsUp
<1>1. Init => GoneIsSeen
    BY DEF Init, GoneIsSeen
<1>2. Inv /\ GoneIsSeen /\ [Next]_vars => GoneIsSeen'
    BY GoneStep
<1>3. Inv /\ GoneIsSeen => NothingHoldsUp
  <2>1. SUFFICES ASSUME Inv, GoneIsSeen, NEW c \in Clients,
                        pc[c] = "gone", post[c] \in {"run", "disconnect"}, ~Ready(handle[c])
                 PROVE  /\ listen[lock[handle[c]]] = "read"
                        /\ handle[lock[handle[c]]] = handle[c]
                        /\ pipe[handle[c]] = "left"
    BY DEF NothingHoldsUp
  <2>2. handle[c] \in Handles /\ user[handle[c]] = c
    BY <2>1 DEF Inv, TypeOK, Given, PostsToOwnClient
  <2>3. pipe[handle[c]] = "left"
    BY <2>1, <2>2 DEF Inv, PostsToOwnClient, GoneIsSeen
  <2> QED
    BY <2>1, <2>2, <2>3 DEF Inv, Locks, Ready
<1> QED
    BY <1>1, <1>2, <1>3, Invariance, PTL DEF Spec
-----------------------------------------------------------------------------
\* The clients whose posting thread was created, and whose listening thread was not yet.
Owed == {c \in Clients : post[c] # "none" /\ listen[c] = "none"}

\* That is the client accepted last, between the two calls of CreateThread.
OwedToNewest ==
    /\ main # "spawnListen" => Owed = {}
    /\ main = "spawnListen" => \E c \in Clients : Owed = {c} /\ handle[c] = hPipe

LEMMA OwedStep ==
    ASSUME Inv, OwedToNewest, [Next]_vars
    PROVE  OwedToNewest'
<1> USE DEF OwedToNewest, Owed, Set, Add, mainVars, pipeVars, postVars, listenVars, clientVars
<1>1. CASE UNCHANGED vars
    BY <1>1 DEF vars
<1>2. CASE CreateNamedPipe \/ ConnectBegins \/ ConnectNamedPipe
    BY <1>2 DEF CreateNamedPipe, ConnectBegins, ConnectNamedPipe
<1>8. CASE CreateNamedPipeFails
    BY <1>8 DEF CreateNamedPipeFails, Inv, TypeOK
<1>3. CASE CreatePostToClientThread
  <2>1. user[hPipe] \in Clients /\ handle[user[hPipe]] = hPipe /\ listen[user[hPipe]] = "none"
    BY <1>3 DEF CreatePostToClientThread, Inv, TypeOK, Accepting, Connections, Given
  <2>2. Owed' = {user[hPipe]}
    BY <1>3, <2>1 DEF CreatePostToClientThread, Inv, TypeOK
  <2> QED
    BY <1>3, <2>1, <2>2 DEF CreatePostToClientThread
<1>4. CASE CreateListenToClientThread
    BY <1>4 DEF CreateListenToClientThread, Inv, TypeOK
<1>5. ASSUME NEW c \in Clients, PostNext(c) PROVE OwedToNewest'
  <2>1. Owed' = Owed /\ UNCHANGED <<main, hPipe, handle>>
    BY <1>5 DEF PostNext, PostMessage, Disconnect, Close, Inv, TypeOK
  <2> QED
    BY <2>1
<1>6. ASSUME NEW c \in Clients, ListenNext(c) PROVE OwedToNewest'
  <2>1. Owed' = Owed /\ UNCHANGED <<main, hPipe, handle>>
    BY <1>6 DEF ListenNext, ReadFile, ReadCompletes, Fetched, Inv, TypeOK
  <2> QED
    BY <2>1
<1>7. ASSUME NEW c \in Clients, ClientNext(c) PROVE OwedToNewest'
    BY <1>7 DEF ClientNext, Connect, ReadCommand, WriteMessage, Leave
<1> QED
    BY <1>1, <1>2, <1>3, <1>4, <1>5, <1>6, <1>7, <1>8 DEF Next, MainNext

\* The second thread is created for the client whose first thread was created in the same
\* turn, and for no other, although that first thread may have ended and closed the handle
\* by then: a client never has one of the two threads only, but where CreateThread has
\* failed (ServerThreads.cpp:69-75).
THEOREM BothThreads == Spec => []OwedToNewest
<1>1. Init => OwedToNewest
    BY DEF Init, OwedToNewest, Owed
<1>2. Inv /\ OwedToNewest /\ [Next]_vars => OwedToNewest'
    BY OwedStep
<1> QED
    BY <1>1, <1>2, Invariance, PTL DEF Spec
-----------------------------------------------------------------------------
\* What keeps the main thread from calling ConnectNamedPipe, or from creating the second
\* thread of a turn, once an instance was created.
MainWaits ==
    /\ main = "created" /\ ~Ready(hPipe) =>
           LET d == lock[hPipe]
           IN  /\ listen[d] = "read" /\ handle[d] = hPipe /\ post[d] = "done"
               /\ user[hPipe] \in Clients \ {d} /\ post[user[hPipe]] = "none"
    /\ main = "spawnListen" =>
           \E c \in Clients : handle[c] = hPipe /\ post[c] # "none" /\ listen[c] = "none"

\* Nothing holds up the main thread in between but the ReadFile of a listening thread whose
\* client's posting thread has closed the handle, and that waits for a client that has come
\* since: the safety half of LoopIsFree (ServerThreads.cpp:44-75, 289, 414).
THEOREM OnlyOutlivedHoldUp == Spec => []MainWaits
<1>1. Init => OwedToNewest
    BY DEF Init, OwedToNewest, Owed
<1>2. Inv /\ OwedToNewest /\ [Next]_vars => OwedToNewest'
    BY OwedStep
<1>3. Inv /\ OwedToNewest => MainWaits
  <2> SUFFICES ASSUME Inv, OwedToNewest PROVE MainWaits
    OBVIOUS
  <2>1. ASSUME main = "created", ~Ready(hPipe), NEW d, d = lock[hPipe]
        PROVE  /\ listen[d] = "read" /\ handle[d] = hPipe /\ post[d] = "done"
               /\ user[hPipe] \in Clients \ {d} /\ post[user[hPipe]] = "none"
    <3>1. hPipe \in Handles /\ d \in Clients
      BY <2>1 DEF Inv, TypeOK, Accepting, Ready
    <3>2. listen[d] = "read" /\ handle[d] = hPipe /\ pipe[hPipe] \in {"connected", "left"}
      BY <2>1, <3>1 DEF Inv, Locks, Ready
    <3>3. user[hPipe] \in Clients /\ post[user[hPipe]] = "none"
      BY <2>1, <3>1, <3>2 DEF Inv, TypeOK, Connections, Accepting
    <3>4. post[d] # "none"
      BY <3>1, <3>2 DEF Inv, Given
    <3>5. post[d] \notin {"run", "disconnect", "close"}
      BY <3>1, <3>2, <3>3, <3>4 DEF Inv, PostsToOwnClient, Closing
    <3> QED
      BY <3>1, <3>2, <3>3, <3>4, <3>5 DEF Inv, TypeOK
  <2>2. main = "spawnListen" =>
            \E c \in Clients : handle[c] = hPipe /\ post[c] # "none" /\ listen[c] = "none"
    BY DEF OwedToNewest, Owed
  <2> QED
    BY <2>1, <2>2 DEF MainWaits
<1> QED
    BY <1>1, <1>2, <1>3, Invariance, PTL DEF Spec
============================================================================
