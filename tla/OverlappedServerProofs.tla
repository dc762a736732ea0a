----------------------- MODULE OverlappedServerProofs -----------------------
(***************************************************************************)
(* What module OverlappedServer's run shows for two clients, for any       *)
(* number of clients and instances.  The inductive invariant adds to the   *)
(* properties how the instances, their PIPEINSTs and the clients hang      *)
(* together, and what the event says of the instance in m_hPipe.           *)
(***************************************************************************)
EXTENDS OverlappedServer, FiniteSetTheorems, TLAPS

USE OverlappedAssumption

\* A client and the instance it is connected to know each other; one that still asks for a
\* pipe has none.
Linked ==
    /\ \A i \in Instances : pipe[i] = "connected" <=> user[i] # None
    /\ \A i \in Instances, c \in Clients : user[i] = c <=> at[c] = i
    /\ \A c \in Clients : pc[c] \in {"open", "busy"} => at[c] = None

\* Nothing is left in an instance or in its PIPEINST from the client before.
Clean ==
    \A i \in Instances :
        pipe[i] \in {"free", "created", "listening"} =>
            /\ inbound[i] = None /\ outbound[i] = None
            /\ chRequest[i] = None /\ op[i] = "none"

\* What is in a connected instance is its client's.
Own ==
    \A i \in Instances :
        pipe[i] = "connected" =>
            /\ inbound[i] \in {None, user[i]}
            /\ outbound[i] \in {None, user[i]}
            /\ chRequest[i] \in {None, user[i]}

\* The instance in m_hPipe, while it is being connected and until its client is taken over.
Setup ==
    /\ loop = "create" => event
    /\ loop = "connect" => hPipe # None
    /\ loop = "connect" => pipe[hPipe] \in {"created", "connected", "left"}
    /\ loop \in {"connect", "wait"} /\ hPipe # None => op[hPipe] = "none" /\
          pipe[hPipe] # "free"
    /\ \A i \in Instances :
           /\ pipe[i] = "created" => hPipe = i /\ loop = "connect"
           /\ pipe[i] = "listening" => hPipe = i /\ loop = "wait"
    /\ loop = "ended" => \A i \in Instances : pipe[i] = "free"

\* A client is disconnected by the server only for a message that is too long.
Excused ==
    /\ \A i \in Instances : op[i] = "readFailed" /\ pipe[i] = "connected" => user[i] \in Long
    /\ \A c \in Clients :
           pc[c] \in Connected /\ at[c] = None => c \in Long \/ loop = "ended"

Inv ==
    /\ TypeOK
    /\ Linked
    /\ Clean
    /\ Own
    /\ Setup
    /\ Excused
    /\ OneOperationEach
    /\ NobodyIsForgotten
    /\ RepliesMatch
    /\ LetInMeansServed
    /\ AcceptsAgain

\* CreateNamedPipe preserves the invariant.
LEMMA CreateNamedPipeStep ==
    ASSUME Inv, CreateNamedPipe
    PROVE  Inv'
<1> USE DEF Inv, CreateNamedPipe, Set, Some, loopVars, pipeVars, instVars, clientVars
<1>1. Clean' /\ Own' /\ Excused' /\ OneOperationEach' /\ NobodyIsForgotten' /\ RepliesMatch' /\
      LetInMeansServed' /\ AcceptsAgain'
    BY DEF Clean, Own, Excused, OneOperationEach, NobodyIsForgotten, RepliesMatch,
       LetInMeansServed, AcceptsAgain
<1>2. TypeOK'
    BY DEF TypeOK
<1>3. Linked'
    BY DEF Linked
<1>4. Setup'
    BY DEF TypeOK, Setup, Clean
<1> QED
    BY <1>1, <1>2, <1>3, <1>4

\* CreateFails preserves the invariant.
LEMMA CreateFailsStep ==
    ASSUME Inv, CreateFails
    PROVE  Inv'
<1> USE DEF Inv, CreateFails, Set, Some, loopVars, pipeVars, instVars, clientVars
<1>1. Clean' /\ Own' /\ Setup' /\ Excused' /\ OneOperationEach' /\ NobodyIsForgotten' /\
      RepliesMatch' /\ LetInMeansServed'
    BY DEF Clean, Own, Setup, Excused, OneOperationEach, NobodyIsForgotten, RepliesMatch,
       LetInMeansServed
<1>2. TypeOK'
    BY DEF TypeOK
<1>3. Linked'
    BY DEF Linked
<1>4. AcceptsAgain'
    BY DEF AcceptsAgain, Setup
<1> QED
    BY <1>1, <1>2, <1>3, <1>4

\* ConnectToNewClient preserves the invariant.
LEMMA ConnectToNewClientStep ==
    ASSUME Inv, ConnectToNewClient
    PROVE  Inv'
<1> USE DEF Inv, ConnectToNewClient, Set, Some, loopVars, pipeVars, instVars, clientVars
<1>1. Clean' /\ Own' /\ Excused' /\ OneOperationEach' /\ RepliesMatch' /\ LetInMeansServed'
    BY DEF Clean, Own, Excused, OneOperationEach, RepliesMatch, LetInMeansServed
<1>2. TypeOK'
    BY DEF TypeOK
<1>3. Linked'
    BY DEF Linked
<1>4. Setup'
    BY DEF TypeOK, Setup
<1>5. NobodyIsForgotten'
    BY DEF TypeOK, NobodyIsForgotten
<1>6. AcceptsAgain'
    BY DEF TypeOK, AcceptsAgain, Setup
<1> QED
    BY <1>1, <1>2, <1>3, <1>4, <1>5, <1>6

\* DisconnectAndClose keeps the types of what it changes.
LEMMA DisconnectAndCloseTypes ==
    ASSUME TypeOK, NEW i \in Instances, DisconnectAndClose(i),
           UNCHANGED <<hPipe, event, fPendingIO>>, loop' \in {"create", "wait"}
    PROVE  TypeOK'
<1> USE DEF TypeOK, DisconnectAndClose, Set, Some
<1>1. /\ pipe' \in [Instances -> {"free", "created", "listening", "connected", "left"}]
      /\ user' \in [Instances -> Some]
    OBVIOUS
<1>2. /\ inbound' \in [Instances -> Some] /\ outbound' \in [Instances -> Some]
      /\ chRequest' \in [Instances -> Some] /\ chReply' \in [Instances -> Some]
    OBVIOUS
<1>3. /\ mem' \in [Instances -> BOOLEAN]
      /\ op' \in [Instances -> {"none", "read", "readDone", "readFailed", "writeDone"}]
    OBVIOUS
<1>4. at' \in [Clients -> Instances \cup {None}]
    OBVIOUS
<1> QED
    BY <1>1, <1>2, <1>3, <1>4

\* NewClient preserves the invariant.
LEMMA NewClientStep ==
    ASSUME Inv, NewClient
    PROVE  Inv'
<1> USE DEF Inv, NewClient, StartRead, Readable, DisconnectAndClose, Set, Some, loopVars,
      pipeVars, instVars, clientVars
<1>1. RepliesMatch' /\ LetInMeansServed' /\ AcceptsAgain'
    BY DEF RepliesMatch, LetInMeansServed, AcceptsAgain
<1>2. TypeOK'
  <2>0. hPipe \in Instances
    BY DEF TypeOK
  <2>1. CASE Readable(hPipe)
    BY <2>0, <2>1 DEF TypeOK
  <2>2. CASE ~Readable(hPipe)
    BY <2>0, <2>2, DisconnectAndCloseTypes
  <2> QED
    BY <2>1, <2>2
<1>3. Linked'
    BY DEF TypeOK, Linked
<1>4. Clean'
    BY DEF TypeOK, Clean
<1>5. Own'
    BY DEF TypeOK, Own
<1>6. Setup'
    BY DEF TypeOK, Setup, Clean
<1>7. Excused'
    BY DEF TypeOK, Excused, Linked
<1>8. OneOperationEach'
    BY DEF TypeOK, OneOperationEach
<1>9. NobodyIsForgotten'
    BY DEF TypeOK, NobodyIsForgotten
<1> QED
    BY <1>1, <1>2, <1>3, <1>4, <1>5, <1>6, <1>7, <1>8, <1>9

\* NoClient preserves the invariant.
LEMMA NoClientStep ==
    ASSUME Inv, NoClient
    PROVE  Inv'
<1> USE DEF Inv, NoClient, Set, Some, loopVars, pipeVars, instVars, clientVars
<1>1. Clean' /\ Own' /\ Setup' /\ Excused' /\ OneOperationEach' /\ NobodyIsForgotten' /\
      RepliesMatch' /\ LetInMeansServed' /\ AcceptsAgain'
    BY DEF Clean, Own, Setup, Excused, OneOperationEach, NobodyIsForgotten, RepliesMatch,
       LetInMeansServed, AcceptsAgain
<1>2. TypeOK'
    BY DEF TypeOK
<1>3. Linked'
    BY DEF Linked
<1> QED
    BY <1>1, <1>2, <1>3

\* AllocFails preserves the invariant.
LEMMA AllocFailsStep ==
    ASSUME Inv, AllocFails
    PROVE  Inv'
<1> USE DEF Inv, AllocFails, Nobody, Set, Some, loopVars, pipeVars, instVars, clientVars
<1>1. Clean' /\ Own' /\ Setup' /\ Excused' /\ OneOperationEach' /\ NobodyIsForgotten' /\
      RepliesMatch' /\ LetInMeansServed' /\ AcceptsAgain'
    BY DEF Clean, Own, Setup, Excused, OneOperationEach, NobodyIsForgotten, RepliesMatch,
       LetInMeansServed, AcceptsAgain
<1>2. TypeOK'
    BY DEF TypeOK
<1>3. Linked'
    BY DEF Linked
<1> QED
    BY <1>1, <1>2, <1>3

\* CompletedWriteRoutine preserves the invariant.
LEMMA CompletedWriteRoutineStep ==
    ASSUME Inv, NEW i \in Instances, CompletedWriteRoutine(i)
    PROVE  Inv'
<1> USE DEF Inv, CompletedWriteRoutine, StartRead, Readable, DisconnectAndClose, Set, Some,
      loopVars, pipeVars, instVars, clientVars
<1>1. RepliesMatch' /\ LetInMeansServed'
    BY DEF RepliesMatch, LetInMeansServed
<1>2. TypeOK'
  <2>1. CASE Readable(i)
    BY <2>1 DEF TypeOK
  <2>2. CASE ~Readable(i)
    BY <2>2, DisconnectAndCloseTypes
  <2> QED
    BY <2>1, <2>2
<1>3. Linked'
    BY DEF TypeOK, Linked
<1>4. Clean'
    BY DEF TypeOK, Clean
<1>5. Own'
    BY DEF TypeOK, Own
<1>6. Setup'
    BY DEF TypeOK, Setup
<1>7. Excused'
    BY DEF TypeOK, Excused, Linked
<1>8. OneOperationEach'
    BY DEF TypeOK, OneOperationEach
<1>9. NobodyIsForgotten'
    BY DEF TypeOK, NobodyIsForgotten
<1>10. AcceptsAgain'
    BY DEF TypeOK, AcceptsAgain, Setup
<1> QED
    BY <1>1, <1>2, <1>3, <1>4, <1>5, <1>6, <1>7, <1>8, <1>9, <1>10

\* CompletedReadRoutine preserves the invariant.
LEMMA CompletedReadRoutineStep ==
    ASSUME Inv, NEW i \in Instances, CompletedReadRoutine(i)
    PROVE  Inv'
<1> USE DEF Inv, CompletedReadRoutine, DisconnectAndClose, Set, Some, loopVars, pipeVars,
      instVars, clientVars
<1>1. RepliesMatch' /\ LetInMeansServed'
    BY DEF RepliesMatch, LetInMeansServed
<1>2. TypeOK'
  <2>1. CASE op[i] = "readDone" /\ pipe[i] = "connected"
    BY <2>1 DEF TypeOK
  <2>2. CASE ~(op[i] = "readDone" /\ pipe[i] = "connected")
    BY <2>2, DisconnectAndCloseTypes
  <2> QED
    BY <2>1, <2>2
<1>3. Linked'
    BY DEF TypeOK, Linked
<1>4. Clean'
    BY DEF TypeOK, Clean
<1>5. Own'
    BY DEF TypeOK, Own
<1>6. Setup'
    BY DEF TypeOK, Setup
<1>7. Excused'
    BY DEF TypeOK, Excused, Linked
<1>8. OneOperationEach'
    BY DEF TypeOK, OneOperationEach
<1>9. NobodyIsForgotten'
    BY DEF TypeOK, NobodyIsForgotten
<1>10. AcceptsAgain'
    BY DEF TypeOK, AcceptsAgain, Setup
<1> QED
    BY <1>1, <1>2, <1>3, <1>4, <1>5, <1>6, <1>7, <1>8, <1>9, <1>10

\* ReadCompletes preserves the invariant.
LEMMA ReadCompletesStep ==
    ASSUME Inv, NEW i \in Instances, ReadCompletes(i)
    PROVE  Inv'
<1> USE DEF Inv, ReadCompletes, Readable, Set, Some, loopVars, pipeVars, instVars, clientVars
<1>1. NobodyIsForgotten' /\ RepliesMatch' /\ LetInMeansServed' /\ AcceptsAgain'
    BY DEF NobodyIsForgotten, RepliesMatch, LetInMeansServed, AcceptsAgain
<1>2. TypeOK'
    BY DEF TypeOK
<1>3. Linked'
    BY DEF Linked
<1>4. Clean'
    BY DEF TypeOK, Clean
<1>5. Own'
    BY DEF TypeOK, Own
<1>6. Setup'
    BY DEF TypeOK, Setup
<1>7. Excused'
    BY DEF TypeOK, Excused, Own
<1>8. OneOperationEach'
    BY DEF TypeOK, OneOperationEach
<1> QED
    BY <1>1, <1>2, <1>3, <1>4, <1>5, <1>6, <1>7, <1>8

\* CreateFile preserves the invariant.
LEMMA CreateFileStep ==
    ASSUME Inv, NEW c \in Clients, CreateFile(c)
    PROVE  Inv'
<1> USE DEF Inv, CreateFile, Go, Available, Set, Some, loopVars, pipeVars, instVars, clientVars
<1>1. Clean' /\ Setup' /\ OneOperationEach' /\ RepliesMatch' /\ LetInMeansServed'
    BY DEF Clean, Setup, OneOperationEach, RepliesMatch, LetInMeansServed
<1>2. TypeOK'
    BY DEF TypeOK
<1>3. Linked'
  <2>1. PICK i \in Available :
           /\ pipe' = Set(pipe, i, "connected") /\ user' = Set(user, i, c)
           /\ at' = Set(at, c, i)
    OBVIOUS
  <2>2. c # None /\ at[c] = None /\ user[i] = None /\ i \in Instances
    BY <2>1 DEF Linked
  <2>3. \A j \in Instances : pipe'[j] = "connected" <=> user'[j] # None
    BY <2>1, <2>2 DEF TypeOK, Linked
  <2>4. \A j \in Instances, d \in Clients : user'[j] = d <=> at'[d] = j
    BY <2>1, <2>2 DEF TypeOK, Linked
  <2>5. \A d \in Clients : pc'[d] \in {"open", "busy"} => at'[d] = None
    BY <2>1, <2>2 DEF TypeOK, Linked
  <2> QED
    BY <2>3, <2>4, <2>5 DEF Linked
<1>4. Own'
    BY DEF Own, Clean
<1>5. Excused'
    BY DEF TypeOK, Excused, Setup
<1>6. NobodyIsForgotten'
  <2>1. PICK i \in Available :
           /\ pipe' = Set(pipe, i, "connected")
           /\ event' = (event \/ pipe[i] = "listening")
    OBVIOUS
  <2>2. hPipe = i /\ (loop = "connect" \/ (loop = "wait" /\ pipe[i] = "listening"))
    BY <2>1 DEF Setup
  <2> QED
    BY <2>1, <2>2 DEF NobodyIsForgotten, TypeOK
<1>7. AcceptsAgain'
    BY DEF TypeOK, AcceptsAgain
<1> QED
    BY <1>1, <1>2, <1>3, <1>4, <1>5, <1>6, <1>7

\* CreateFileFails preserves the invariant.
LEMMA CreateFileFailsStep ==
    ASSUME Inv, NEW c \in Clients, CreateFileFails(c)
    PROVE  Inv'
<1> USE DEF Inv, CreateFileFails, Go, Available, Set, Some, loopVars, pipeVars, instVars,
      clientVars
<1>1. Clean' /\ Own' /\ Setup' /\ Excused' /\ OneOperationEach' /\ NobodyIsForgotten' /\
      RepliesMatch' /\ LetInMeansServed' /\ AcceptsAgain'
    BY DEF Clean, Own, Setup, Excused, OneOperationEach, NobodyIsForgotten, RepliesMatch,
       LetInMeansServed, AcceptsAgain, Connected
<1>2. TypeOK'
    BY DEF TypeOK
<1>3. Linked'
    BY DEF Linked
<1> QED
    BY <1>1, <1>2, <1>3

\* WaitNamedPipe preserves the invariant.
LEMMA WaitNamedPipeStep ==
    ASSUME Inv, NEW c \in Clients, WaitNamedPipe(c)
    PROVE  Inv'
<1> USE DEF Inv, WaitNamedPipe, Go, Available, Set, Some, loopVars, pipeVars, instVars,
      clientVars
<1>1. Clean' /\ Own' /\ Setup' /\ Excused' /\ OneOperationEach' /\ NobodyIsForgotten' /\
      RepliesMatch' /\ LetInMeansServed' /\ AcceptsAgain'
    BY DEF Clean, Own, Setup, Excused, OneOperationEach, NobodyIsForgotten, RepliesMatch,
       LetInMeansServed, AcceptsAgain, Connected
<1>2. TypeOK'
    BY DEF TypeOK
<1>3. Linked'
    BY DEF Linked
<1> QED
    BY <1>1, <1>2, <1>3

\* SetNamedPipeHandleState preserves the invariant.
LEMMA SetNamedPipeHandleStateStep ==
    ASSUME Inv, NEW c \in Clients, SetNamedPipeHandleState(c)
    PROVE  Inv'
<1> USE DEF Inv, SetNamedPipeHandleState, Go, Set, Some, loopVars, pipeVars, instVars,
      clientVars
<1>1. Clean' /\ Own' /\ Setup' /\ Excused' /\ OneOperationEach' /\ NobodyIsForgotten' /\
      RepliesMatch' /\ LetInMeansServed' /\ AcceptsAgain'
    BY DEF Clean, Own, Setup, Excused, OneOperationEach, NobodyIsForgotten, RepliesMatch,
       LetInMeansServed, AcceptsAgain
<1>2. TypeOK'
    BY DEF TypeOK
<1>3. Linked'
    BY DEF Linked
<1> QED
    BY <1>1, <1>2, <1>3

\* WriteFile preserves the invariant.
LEMMA WriteFileStep ==
    ASSUME Inv, NEW c \in Clients, WriteFile(c)
    PROVE  Inv'
<1> USE DEF Inv, WriteFile, Go, Set, Some, loopVars, pipeVars, instVars, clientVars
<1>1. Setup' /\ Excused' /\ OneOperationEach' /\ NobodyIsForgotten' /\ RepliesMatch' /\
      LetInMeansServed' /\ AcceptsAgain'
    BY DEF Setup, Excused, OneOperationEach, NobodyIsForgotten, RepliesMatch, LetInMeansServed,
       AcceptsAgain
<1>2. TypeOK'
    BY DEF TypeOK
<1>3. Linked'
    BY DEF Linked
<1>4. Clean'
    BY DEF Linked, Clean
<1>5. Own'
    BY DEF Own, Linked
<1> QED
    BY <1>1, <1>2, <1>3, <1>4, <1>5

\* ReadFile preserves the invariant.
LEMMA ReadFileStep ==
    ASSUME Inv, NEW c \in Clients, ReadFile(c)
    PROVE  Inv'
<1> USE DEF Inv, ReadFile, Go, Set, Some, loopVars, pipeVars, instVars, clientVars
<1>1. Clean' /\ Own' /\ Setup' /\ Excused' /\ OneOperationEach' /\ NobodyIsForgotten' /\
      LetInMeansServed' /\ AcceptsAgain'
    BY DEF Clean, Own, Setup, Excused, OneOperationEach, NobodyIsForgotten, LetInMeansServed,
       AcceptsAgain
<1>2. TypeOK'
    BY DEF TypeOK
<1>3. Linked'
    BY DEF Linked
<1>4. RepliesMatch'
    BY DEF TypeOK, RepliesMatch, Linked, Own
<1> QED
    BY <1>1, <1>2, <1>3, <1>4

\* Close preserves the invariant.
LEMMA CloseStep ==
    ASSUME Inv, NEW c \in Clients, Close(c)
    PROVE  Inv'
<1> USE DEF Inv, Close, Go, Leave, Set, Some, loopVars, pipeVars, instVars, clientVars
<1>1. OneOperationEach' /\ RepliesMatch' /\ LetInMeansServed'
    BY DEF OneOperationEach, RepliesMatch, LetInMeansServed
<1>2. TypeOK'
    BY DEF TypeOK
<1>3. Linked'
    BY DEF TypeOK, Linked
<1>4. Clean'
    BY DEF TypeOK, Clean
<1>5. Own'
    BY DEF TypeOK, Own
<1>6. Setup'
    BY DEF TypeOK, Linked, Setup
<1>7. Excused'
    BY DEF TypeOK, Excused, Connected
<1>8. NobodyIsForgotten'
    BY DEF TypeOK, NobodyIsForgotten
<1>9. AcceptsAgain'
    BY DEF TypeOK, AcceptsAgain
<1> QED
    BY <1>1, <1>2, <1>3, <1>4, <1>5, <1>6, <1>7, <1>8, <1>9

\* Broken preserves the invariant.
LEMMA BrokenStep ==
    ASSUME Inv, NEW c \in Clients, Broken(c)
    PROVE  Inv'
<1> USE DEF Inv, Broken, Go, Leave, Connected, Set, Some, loopVars, pipeVars, instVars,
      clientVars
<1>1. Clean' /\ Own' /\ Setup' /\ Excused' /\ OneOperationEach' /\ NobodyIsForgotten' /\
      RepliesMatch' /\ AcceptsAgain'
    BY DEF Clean, Own, Setup, Excused, OneOperationEach, NobodyIsForgotten, RepliesMatch,
       AcceptsAgain
<1>2. TypeOK'
    BY DEF TypeOK
<1>3. Linked'
    BY DEF Linked
<1>4. LetInMeansServed'
    BY DEF LetInMeansServed, Excused
<1> QED
    BY <1>1, <1>2, <1>3, <1>4

\* Die preserves the invariant.
LEMMA DieStep ==
    ASSUME Inv, NEW c \in Clients, Die(c)
    PROVE  Inv'
<1> USE DEF Inv, Die, Go, Leave, Connected, Set, Some, loopVars, pipeVars, instVars, clientVars
<1>1. OneOperationEach' /\ RepliesMatch' /\ LetInMeansServed'
    BY DEF OneOperationEach, RepliesMatch, LetInMeansServed
<1>2. TypeOK'
    BY DEF TypeOK
<1>3. Linked'
    BY DEF TypeOK, Linked
<1>4. Clean'
    BY DEF TypeOK, Clean
<1>5. Own'
    BY DEF TypeOK, Own
<1>6. Setup'
    BY DEF TypeOK, Linked, Setup
<1>7. Excused'
    BY DEF TypeOK, Excused
<1>8. NobodyIsForgotten'
    BY DEF TypeOK, NobodyIsForgotten
<1>9. AcceptsAgain'
    BY DEF TypeOK, AcceptsAgain
<1> QED
    BY <1>1, <1>2, <1>3, <1>4, <1>5, <1>6, <1>7, <1>8, <1>9

-----------------------------------------------------------------------------
\* The server that has just started satisfies the invariant.
LEMMA InitInv == Init => Inv
<1> SUFFICES ASSUME Init PROVE Inv
    OBVIOUS
<1> USE DEF Init, Nobody, Some
<1>1. TypeOK
    BY DEF TypeOK
<1>2. Linked /\ Clean /\ Own /\ Setup
    BY DEF Linked, Clean, Own, Setup
<1>3. Excused
    BY DEF Excused, Connected
<1>4. OneOperationEach /\ NobodyIsForgotten /\ AcceptsAgain
    BY DEF OneOperationEach, NobodyIsForgotten, AcceptsAgain
<1>5. RepliesMatch /\ LetInMeansServed
    BY DEF RepliesMatch, LetInMeansServed
<1> QED
    BY <1>1, <1>2, <1>3, <1>4, <1>5 DEF Inv

\* Every step of the server, of Windows and of the clients preserves the invariant.
LEMMA NextInv == Inv /\ [Next]_vars => Inv'
<1> SUFFICES ASSUME Inv, [Next]_vars PROVE Inv'
    OBVIOUS
<1>1. CASE UNCHANGED vars
  <2> USE <1>1 DEF Inv, vars, loopVars, pipeVars, instVars, clientVars
  <2>1. TypeOK' /\ Linked' /\ Clean' /\ Own' /\ Setup'
    BY DEF TypeOK, Linked, Clean, Own, Setup
  <2>2. Excused' /\ OneOperationEach' /\ NobodyIsForgotten'
    BY DEF Excused, OneOperationEach, NobodyIsForgotten
  <2>3. RepliesMatch' /\ LetInMeansServed' /\ AcceptsAgain'
    BY DEF RepliesMatch, LetInMeansServed, AcceptsAgain
  <2> QED
    BY <2>1, <2>2, <2>3
<1>2. CASE ServerNext \/ CreateFails \/ AllocFails
    BY <1>2, CreateNamedPipeStep, ConnectToNewClientStep, NewClientStep, NoClientStep,
       CompletedWriteRoutineStep, CompletedReadRoutineStep, CreateFailsStep, AllocFailsStep
       DEF ServerNext, Routine
<1>3. CASE \E i \in Instances : ReadCompletes(i)
    BY <1>3, ReadCompletesStep
<1>4. CASE \E c \in Clients : CallNext(c) \/ Close(c) \/ Die(c)
    BY <1>4, CreateFileStep, CreateFileFailsStep, WaitNamedPipeStep, SetNamedPipeHandleStateStep,
       WriteFileStep, ReadFileStep, BrokenStep, CloseStep, DieStep DEF CallNext
<1> QED
    BY <1>1, <1>2, <1>3, <1>4 DEF Next

\* The invariant holds throughout.
LEMMA Invariance == Spec => []Inv
<1> QED
    BY InitInv, NextInv, PTL DEF Spec

\* The variables keep their types, for any number of clients and instances.
THEOREM TypeCorrect == Spec => []TypeOK
<1>1. Inv => TypeOK
    BY DEF Inv
<1> QED
    BY <1>1, Invariance, PTL

\* A PIPEINST is allocated exactly while an operation is under way with it (original.cpp:124-195).
THEOREM PipeInstOwned == Spec => []OneOperationEach
<1>1. Inv => OneOperationEach
    BY DEF Inv
<1> QED
    BY <1>1, Invariance, PTL

\* No connection is lost by the main loop (original.cpp:34-90).
THEOREM ConnectionsKept == Spec => []NobodyIsForgotten
<1>1. Inv => NobodyIsForgotten
    BY DEF Inv
<1> QED
    BY <1>1, Invariance, PTL

\* A client is given the reply to its own message (original.cpp:157-166).
THEOREM OwnReplies == Spec => []RepliesMatch
<1>1. Inv => RepliesMatch
    BY DEF Inv
<1> QED
    BY <1>1, Invariance, PTL

\* A client that was let in with a message that fits is not turned down (original.cpp:137-183).
THEOREM NoneTurnedDown == Spec => []LetInMeansServed
<1>1. Inv => LetInMeansServed
    BY DEF Inv
<1> QED
    BY <1>1, Invariance, PTL

\* The server never waits for a connection that cannot come, but for one given up
\* (original.cpp:230-265).
THEOREM NeverDeaf == Spec => []AcceptsAgain
<1>1. Inv => AcceptsAgain
    BY DEF Inv
<1> QED
    BY <1>1, Invariance, PTL
-----------------------------------------------------------------------------
\* Before a client has written, there is nothing for the server to do with its instance but
\* to begin to read.
Unasked ==
    \A c \in Clients : pc[c] \in {"mode", "write"} /\ at[c] # None
        => op[at[c]] \in {"none", "read"} /\ inbound[at[c]] = None

\* What is left to do between the message of client c and the reply, or the end, of its
\* instance i: the client reads it, a completion routine is queued, Windows completes the
\* read that is pending, or the loop begins it.
AnswerComing(c, i) ==
    \/ outbound[i] = c
    \/ op[i] = "readDone" /\ chRequest[i] = c
    \/ op[i] = "readFailed" /\ c \in Long
    \/ inbound[i] = c /\ op[i] = "read"
    \/ /\ inbound[i] = c /\ op[i] = "none"
       /\ hPipe = i /\ (loop = "connect" \/ (loop = "wait" /\ event))

\* No client waits for a reply that nobody is about to give.
NoneWaitsInVain ==
    \A c \in Clients : pc[c] = "read" /\ at[c] # None => AnswerComing(c, at[c])

\* A read that has completed was given a message.
Requested == \A i \in Instances : op[i] = "readDone" => chRequest[i] # None

Waits == Unasked /\ Requested /\ NoneWaitsInVain

\* CreateNamedPipe leaves no client waiting in vain.
LEMMA CreateNamedPipeWaits ==
    ASSUME Inv, Waits, CreateNamedPipe
    PROVE  Waits'
BY DEF Waits, CreateNamedPipe, Set, loopVars, pipeVars, instVars, clientVars, Unasked,
   Requested, NoneWaitsInVain, AnswerComing

\* CreateFails leaves no client waiting in vain.
LEMMA CreateFailsWaits ==
    ASSUME Inv, Waits, CreateFails
    PROVE  Waits'
BY DEF Waits, CreateFails, Set, loopVars, pipeVars, instVars, clientVars, Unasked, Requested,
   NoneWaitsInVain, AnswerComing

\* ConnectToNewClient leaves no client waiting in vain.
LEMMA ConnectToNewClientWaits ==
    ASSUME Inv, Waits, ConnectToNewClient
    PROVE  Waits'
<1> USE DEF Inv, Waits, ConnectToNewClient, Set, loopVars, pipeVars, instVars, clientVars
<1>1. Unasked'
    BY DEF Unasked
<1>2. Requested'
    BY DEF Requested
<1>3. ASSUME NEW c \in Clients, pc'[c] = "read", at'[c] # None
      PROVE  AnswerComing(c, at[c])'
  <2>1. at[c] \in Instances /\ pipe[at[c]] = "connected"
    BY <1>3 DEF TypeOK, Linked
  <2>2. AnswerComing(c, at[c])
    BY <1>3 DEF NoneWaitsInVain
  <2> QED
    BY <2>1, <2>2 DEF AnswerComing
<1>4. NoneWaitsInVain'
    BY <1>3 DEF NoneWaitsInVain
<1> QED
    BY <1>1, <1>2, <1>4

\* NoClient leaves no client waiting in vain.
LEMMA NoClientWaits ==
    ASSUME Inv, Waits, NoClient
    PROVE  Waits'
BY DEF Waits, NoClient, Set, loopVars, pipeVars, instVars, clientVars, Unasked, Requested,
   NoneWaitsInVain, AnswerComing

\* AllocFails leaves no client waiting in vain.
LEMMA AllocFailsWaits ==
    ASSUME Inv, Waits, AllocFails
    PROVE  Waits'
BY DEF Waits, AllocFails, Nobody, Set, loopVars, pipeVars, instVars, clientVars, Unasked,
   Requested, NoneWaitsInVain

\* NewClient leaves no client waiting in vain.
LEMMA NewClientWaits ==
    ASSUME Inv, Waits, NewClient
    PROVE  Waits'
<1> USE DEF Inv, Waits, NewClient, StartRead, Readable, DisconnectAndClose, Set, loopVars,
      pipeVars, instVars, clientVars
<1>1. Unasked'
    BY DEF TypeOK, Unasked
<1>2. Requested'
    BY DEF TypeOK, Requested
<1>3. NoneWaitsInVain'
    BY DEF TypeOK, Setup, NoneWaitsInVain, AnswerComing
<1> QED
    BY <1>1, <1>2, <1>3

\* CompletedWriteRoutine leaves no client waiting in vain.
LEMMA CompletedWriteRoutineWaits ==
    ASSUME Inv, Waits, NEW i \in Instances, CompletedWriteRoutine(i)
    PROVE  Waits'
<1> USE DEF Inv, Waits, CompletedWriteRoutine, StartRead, Readable, DisconnectAndClose, Set,
      loopVars, pipeVars, instVars, clientVars
<1>1. Unasked'
    BY DEF TypeOK, Unasked
<1>2. Requested'
    BY DEF TypeOK, Requested
<1>3. NoneWaitsInVain'
    BY DEF TypeOK, NoneWaitsInVain, AnswerComing
<1> QED
    BY <1>1, <1>2, <1>3

\* CompletedReadRoutine leaves no client waiting in vain.
LEMMA CompletedReadRoutineWaits ==
    ASSUME Inv, Waits, NEW i \in Instances, CompletedReadRoutine(i)
    PROVE  Waits'
<1> USE DEF Inv, Waits, CompletedReadRoutine, DisconnectAndClose, Set, loopVars, pipeVars,
      instVars, clientVars
<1>1. Unasked'
    BY DEF TypeOK, Unasked
<1>2. Requested'
    BY DEF TypeOK, Requested
<1>3. ASSUME NEW c \in Clients, pc'[c] = "read", at'[c] # None
      PROVE  AnswerComing(c, at[c])'
  <2>1. at'[c] = at[c] /\ at[c] \in Instances /\ user[at[c]] = c
    BY <1>3 DEF TypeOK, Linked
  <2>2. AnswerComing(c, at[c])
    BY <1>3, <2>1 DEF NoneWaitsInVain
  <2>3. CASE at[c] # i
    BY <2>1, <2>2, <2>3 DEF AnswerComing, TypeOK
  <2>4. CASE at[c] = i
    <3>1. op[i] = "readDone" /\ pipe[i] = "connected"
      BY <1>3, <2>1, <2>4
    <3>2. chRequest[i] = c
      BY <2>1, <2>4, <3>1 DEF Requested, Own
    <3>3. outbound'[i] = c
      BY <3>1, <3>2 DEF TypeOK
    <3> QED
      BY <2>4, <3>3, <2>1 DEF AnswerComing
  <2> QED
    BY <2>3, <2>4
<1>4. NoneWaitsInVain'
    BY <1>3 DEF NoneWaitsInVain
<1> QED
    BY <1>1, <1>2, <1>4

\* ReadCompletes leaves no client waiting in vain.
LEMMA ReadCompletesWaits ==
    ASSUME Inv, Waits, NEW i \in Instances, ReadCompletes(i)
    PROVE  Waits'
<1> USE DEF Inv, Waits, ReadCompletes, Readable, Set, loopVars, pipeVars, instVars, clientVars
<1>1. Unasked'
    BY DEF TypeOK, Linked, Unasked
<1>2. Requested'
    BY DEF TypeOK, Requested
<1>3. NoneWaitsInVain'
    BY DEF TypeOK, NoneWaitsInVain, AnswerComing
<1> QED
    BY <1>1, <1>2, <1>3

\* CreateFile leaves no client waiting in vain.
LEMMA CreateFileWaits ==
    ASSUME Inv, Waits, NEW c \in Clients, CreateFile(c)
    PROVE  Waits'
<1> USE DEF Inv, Waits, CreateFile, Go, Available, Set, loopVars, pipeVars, instVars, clientVars
<1>1. Unasked'
    BY DEF Linked, Clean, Unasked
<1>2. Requested'
    BY DEF Requested
<1>3. NoneWaitsInVain'
    BY DEF Clean, Setup, NoneWaitsInVain, AnswerComing
<1> QED
    BY <1>1, <1>2, <1>3

\* CreateFileFails leaves no client waiting in vain.
LEMMA CreateFileFailsWaits ==
    ASSUME Inv, Waits, NEW c \in Clients, CreateFileFails(c)
    PROVE  Waits'
BY DEF Waits, CreateFileFails, Go, Set, loopVars, pipeVars, instVars, clientVars, Unasked,
   Requested, NoneWaitsInVain, AnswerComing

\* WaitNamedPipe leaves no client waiting in vain.
LEMMA WaitNamedPipeWaits ==
    ASSUME Inv, Waits, NEW c \in Clients, WaitNamedPipe(c)
    PROVE  Waits'
BY DEF Waits, WaitNamedPipe, Go, Set, loopVars, pipeVars, instVars, clientVars, Unasked,
   Requested, NoneWaitsInVain, AnswerComing

\* SetNamedPipeHandleState leaves no client waiting in vain.
LEMMA SetNamedPipeHandleStateWaits ==
    ASSUME Inv, Waits, NEW c \in Clients, SetNamedPipeHandleState(c)
    PROVE  Waits'
BY DEF Waits, SetNamedPipeHandleState, Go, Set, loopVars, pipeVars, instVars, clientVars,
   Unasked, Requested, NoneWaitsInVain, AnswerComing

\* WriteFile leaves no client waiting in vain.
LEMMA WriteFileWaits ==
    ASSUME Inv, Waits, NEW c \in Clients, WriteFile(c)
    PROVE  Waits'
<1> USE DEF Inv, Waits, WriteFile, Go, Set, loopVars, pipeVars, instVars, clientVars
<1>1. Unasked'
    BY DEF TypeOK, Linked, Unasked
<1>2. Requested'
    BY DEF Requested
<1>3. ASSUME NEW d \in Clients, pc'[d] = "read", at'[d] # None
      PROVE  AnswerComing(d, at[d])'
  <2>1. at[d] \in Instances /\ user[at[d]] = d /\ at[c] \in Instances /\ user[at[c]] = c
    BY <1>3 DEF TypeOK, Linked
  <2>2. CASE d = c
    <3>1. inbound'[at[c]] = c /\ op[at[c]] \in {"none", "read"}
      BY <2>1 DEF TypeOK, Unasked
    <3>2. op[at[c]] = "none" => /\ hPipe = at[c]
                                /\ loop = "connect" \/ (loop = "wait" /\ event)
      BY <2>1 DEF Linked, OneOperationEach, NobodyIsForgotten
    <3> QED
      BY <2>2, <3>1, <3>2 DEF AnswerComing
  <2>3. CASE d # c
    <3>1. AnswerComing(d, at[d])
      BY <1>3, <2>3 DEF NoneWaitsInVain
    <3> QED
      BY <2>1, <2>3, <3>1 DEF AnswerComing
  <2> QED
    BY <2>2, <2>3
<1>4. NoneWaitsInVain'
    BY <1>3 DEF NoneWaitsInVain
<1> QED
    BY <1>1, <1>2, <1>4

\* ReadFile leaves no client waiting in vain.
LEMMA ReadFileWaits ==
    ASSUME Inv, Waits, NEW c \in Clients, ReadFile(c)
    PROVE  Waits'
<1> USE DEF Inv, Waits, ReadFile, Go, Set, loopVars, pipeVars, instVars, clientVars
<1>1. Unasked'
    BY DEF Unasked
<1>2. Requested'
    BY DEF Requested
<1>3. NoneWaitsInVain'
    BY DEF TypeOK, Linked, NoneWaitsInVain, AnswerComing
<1> QED
    BY <1>1, <1>2, <1>3

\* Close leaves no client waiting in vain.
LEMMA CloseWaits ==
    ASSUME Inv, Waits, NEW c \in Clients, Close(c)
    PROVE  Waits'
<1> USE DEF Inv, Waits, Close, Go, Leave, Set, loopVars, pipeVars, instVars, clientVars
<1>1. Unasked'
    BY DEF Unasked
<1>2. Requested'
    BY DEF Requested
<1>3. NoneWaitsInVain'
    BY DEF TypeOK, Linked, NoneWaitsInVain, AnswerComing
<1> QED
    BY <1>1, <1>2, <1>3

\* Broken leaves no client waiting in vain.
LEMMA BrokenWaits ==
    ASSUME Inv, Waits, NEW c \in Clients, Broken(c)
    PROVE  Waits'
BY DEF Waits, Broken, Go, Leave, Connected, Set, loopVars, pipeVars, instVars, clientVars,
   Unasked, Requested, NoneWaitsInVain, AnswerComing

\* Die leaves no client waiting in vain.
LEMMA DieWaits ==
    ASSUME Inv, Waits, NEW c \in Clients, Die(c)
    PROVE  Waits'
<1> USE DEF Inv, Waits, Die, Go, Leave, Connected, Set, loopVars, pipeVars, instVars, clientVars
<1>1. Unasked'
    BY DEF Unasked
<1>2. Requested'
    BY DEF Requested
<1>3. NoneWaitsInVain'
    BY DEF TypeOK, Linked, NoneWaitsInVain, AnswerComing
<1> QED
    BY <1>1, <1>2, <1>3

\* Nobody waits at first.
LEMMA InitWaits == Init => Waits
BY DEF Init, Waits, Unasked, Requested, NoneWaitsInVain

\* No step of the server, of Windows or of another client leaves a client waiting in vain.
LEMMA NextWaits ==
    ASSUME Inv, Waits, [Next]_vars
    PROVE  Waits'
<1>1. CASE UNCHANGED vars
    BY <1>1 DEF Waits, Unasked, Requested, NoneWaitsInVain, AnswerComing, vars, loopVars, pipeVars,
       instVars, clientVars
<1>2. CASE ServerNext \/ CreateFails \/ AllocFails
    BY <1>2, CreateNamedPipeWaits, ConnectToNewClientWaits, NewClientWaits, NoClientWaits,
       CompletedWriteRoutineWaits, CompletedReadRoutineWaits, CreateFailsWaits, AllocFailsWaits
       DEF ServerNext, Routine
<1>3. CASE \E i \in Instances : ReadCompletes(i)
    BY <1>3, ReadCompletesWaits
<1>4. CASE \E c \in Clients : CallNext(c) \/ Close(c) \/ Die(c)
    BY <1>4, CreateFileWaits, CreateFileFailsWaits, WaitNamedPipeWaits,
       SetNamedPipeHandleStateWaits, WriteFileWaits, ReadFileWaits, BrokenWaits, CloseWaits,
       DieWaits DEF CallNext
<1> QED
    BY <1>1, <1>2, <1>3, <1>4 DEF Next

\* A client that waits for a reply and is still connected is always the concern of somebody
\* who can go on without it: no order in which CreateNamedPipe, ConnectNamedPipe, the
\* client's calls and the completion routines come loses its message or its reply
\* (original.cpp:34-90, 119-195).
THEOREM ReadersAnswered == Spec => []NoneWaitsInVain
<1>1. Inv /\ Waits /\ [Next]_vars => Waits'
    BY NextWaits
<1>2. Waits => NoneWaitsInVain
    BY DEF Waits
<1> QED
    BY <1>1, <1>2, InitWaits, Invariance, PTL DEF Spec

-----------------------------------------------------------------------------
\* The instances that clients have, or had until they left.
Occupied == {i \in Instances : pipe[i] \in {"connected", "left"}}

\* The clients that have found a pipe.
Came == {c \in Clients : pc[c] \notin {"open", "busy", "turnedAway"}}

\* A client takes one instance.
OneEach == Cardinality(Occupied) <= Cardinality(Came)

\* What CreateNamedPipe needs is there.
InstanceIsLeft == loop = "create" => \E i \in Instances : pipe[i] = "free"

\* Sizes of the sets.
LEMMA Sizes ==
    ASSUME NEW S, NEW T \in SUBSET S, IsFiniteSet(S)
    PROVE  IsFiniteSet(T) /\ Cardinality(T) \in Nat /\ Cardinality(T) <= Cardinality(S)
BY FS_Subset, FS_CardinalityType

\* A client that has found a pipe is not one that looks for it, and no step makes it one.
LEMMA CameStays ==
    ASSUME Inv, Next
    PROVE  Came \subseteq Came'
<1> USE DEF Inv, TypeOK, Came, Set, loopVars, pipeVars, instVars, clientVars
<1>1. CASE ServerNext \/ CreateFails \/ AllocFails
    BY <1>1 DEF ServerNext, CreateFails, AllocFails, CreateNamedPipe, ConnectToNewClient,
       NewClient, NoClient, Routine, CompletedWriteRoutine, CompletedReadRoutine, StartRead,
       DisconnectAndClose
<1>2. CASE \E i \in Instances : ReadCompletes(i)
    BY <1>2 DEF ReadCompletes
<1>3. ASSUME NEW c \in Clients, CallNext(c) PROVE Came \subseteq Came'
    BY <1>3 DEF CallNext, CreateFile, CreateFileFails, WaitNamedPipe, SetNamedPipeHandleState,
       WriteFile, ReadFile, Broken, Go
<1>4. ASSUME NEW c \in Clients, Close(c) \/ Die(c) PROVE Came \subseteq Came'
    BY <1>4 DEF Close, Die, Connected, Go
<1> QED
    BY <1>1, <1>2, <1>3, <1>4 DEF Next

\* Only CreateFile adds an instance to those occupied, and its client to those that came.
LEMMA OccupiedGrows ==
    ASSUME Inv, Next
    PROVE  \/ Occupied' \subseteq Occupied
           \/ \E i, c : Occupied' = Occupied \cup {i} /\ c \in Came' /\ c \notin Came
<1> USE DEF Inv, TypeOK, Occupied, Set, loopVars, pipeVars, instVars, clientVars
<1>1. CASE ServerNext \/ CreateFails \/ AllocFails
  <2>1. CASE \E i \in Instances : Routine(i)
    BY <2>1 DEF Routine, CompletedWriteRoutine, CompletedReadRoutine, StartRead,
       DisconnectAndClose
  <2>2. CASE CreateNamedPipe \/ ConnectToNewClient
    BY <2>2 DEF CreateNamedPipe, ConnectToNewClient, Setup
  <2>3. CASE NewClient \/ NoClient
    BY <2>3 DEF NewClient, NoClient, StartRead, DisconnectAndClose
  <2>4. CASE CreateFails \/ AllocFails
    BY <2>4 DEF CreateFails, AllocFails
  <2> QED
    BY <1>1, <2>1, <2>2, <2>3, <2>4 DEF ServerNext
<1>2. CASE \E i \in Instances : ReadCompletes(i)
    BY <1>2 DEF ReadCompletes
<1>3. ASSUME NEW c \in Clients, CreateFile(c)
      PROVE  \E i : Occupied' = Occupied \cup {i} /\ c \in Came' /\ c \notin Came
  <2>1. PICK i \in Available : pipe' = Set(pipe, i, "connected")
    BY <1>3 DEF CreateFile
  <2>2. Occupied' = Occupied \cup {i}
    BY <2>1 DEF Available
  <2>3. c \in Came' /\ c \notin Came
    BY <1>3 DEF CreateFile, Go, Came
  <2> QED
    BY <2>2, <2>3
<1>4. ASSUME NEW c \in Clients, CallNext(c), ~CreateFile(c) PROVE Occupied' \subseteq Occupied
    BY <1>4 DEF CallNext, CreateFileFails, WaitNamedPipe, SetNamedPipeHandleState, WriteFile,
       ReadFile, Broken, Leave
<1>5. ASSUME NEW c \in Clients, Close(c) \/ Die(c) PROVE Occupied' \subseteq Occupied
  <2>1. at[c] # None => pipe[at[c]] = "connected"
    BY DEF Linked
  <2> QED
    BY <1>5, <2>1 DEF Close, Die, Leave
<1> QED
    BY <1>1, <1>2, <1>3, <1>4, <1>5 DEF Next

\* So there are never more instances occupied than clients that came.
LEMMA OneEachStep ==
    ASSUME Inv, OneEach, [Next]_vars
    PROVE  OneEach'
<1> USE DEF OneEach
<1>1. CASE UNCHANGED vars
    BY <1>1 DEF Occupied, Came, vars, pipeVars, clientVars
<1>2. CASE Next
  <2>1. Came \subseteq Came'
    BY <1>2, CameStays
  <2>2. IsFiniteSet(Came') /\ Cardinality(Came') \in Nat
    BY Sizes DEF Came
  <2>3. IsFiniteSet(Came) /\ Cardinality(Came) \in Nat /\ Cardinality(Came) <= Cardinality(Came')
    BY <2>1, <2>2, Sizes
  <2>4. IsFiniteSet(Occupied) /\ Cardinality(Occupied) \in Nat
    BY Sizes DEF Occupied
  <2>5. CASE Occupied' \subseteq Occupied
    <3>1. Cardinality(Occupied') \in Nat /\ Cardinality(Occupied') <= Cardinality(Occupied)
      BY <2>4, <2>5, Sizes
    <3> QED
      BY <2>2, <2>3, <2>4, <3>1
  <2>6. ASSUME NEW i, NEW c, Occupied' = Occupied \cup {i}, c \in Came', c \notin Came
        PROVE  OneEach'
    <3>1. Cardinality(Occupied') \in Nat /\ Cardinality(Occupied') <= Cardinality(Occupied) + 1
      <4>1. Cardinality(Occupied \cup {i}) =
                IF i \in Occupied THEN Cardinality(Occupied) ELSE Cardinality(Occupied) + 1
        BY <2>4, FS_AddElement
      <4> QED
        BY <2>4, <2>6, <4>1
    <3>2. IsFiniteSet(Came \cup {c}) /\ Cardinality(Came \cup {c}) = Cardinality(Came) + 1
      BY <2>3, <2>6, FS_AddElement
    <3>3. Came \cup {c} \subseteq Came'
      BY <2>1, <2>6
    <3>4. Cardinality(Came \cup {c}) <= Cardinality(Came')
      BY <2>2, <3>3, Sizes
    <3> QED
      BY <2>2, <2>3, <2>4, <3>1, <3>2, <3>4
  <2> QED
    BY <1>2, <2>5, <2>6, OccupiedGrows
<1> QED
    BY <1>1, <1>2

\* The loop is never kept from creating the next instance by the number of instances, so
\* that what is proved is not so because CreateNamedPipe could not be called
\* (original.cpp:204-228).
THEOREM InstancesSuffice == Spec => []InstanceIsLeft
<1>1. Init => OneEach
  <2>1. ASSUME Init PROVE Occupied = {}
    BY <2>1 DEF Init, Occupied
  <2>2. Cardinality(Came) \in Nat
    BY Sizes DEF Came
  <2> QED
    BY <2>1, <2>2, FS_EmptySet DEF OneEach
<1>2. Inv /\ OneEach /\ [Next]_vars => OneEach'
    BY OneEachStep
<1>3. ASSUME Inv, OneEach, loop = "create", \A i \in Instances : pipe[i] # "free"
      PROVE  FALSE
  <2>1. Occupied = Instances
    BY <1>3 DEF Inv, TypeOK, Setup, Occupied
  <2>2. Cardinality(Came) <= Cardinality(Clients) /\ Cardinality(Came) \in Nat
    BY Sizes DEF Came
  <2>3. Cardinality(Instances) \in Nat /\ Cardinality(Clients) \in Nat
    BY FS_CardinalityType
  <2> QED
    BY <1>3, <2>1, <2>2, <2>3 DEF OneEach
<1>4. Inv /\ OneEach => InstanceIsLeft
    BY <1>3 DEF InstanceIsLeft
<1> QED
    BY <1>1, <1>2, <1>4, Invariance, PTL DEF Spec
=============================================================================
