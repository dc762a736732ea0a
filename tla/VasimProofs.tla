---------------------------- MODULE VasimProofs ----------------------------
(***************************************************************************)
(* The safety properties of the simulator, for any number of commands and  *)
(* any lengths of them.  The inductive invariant says which passes can     *)
(* have been made by the time a client is there, and what waits for it.    *)
(***************************************************************************)
EXTENDS Vasim, TLAPS

USE VasimAssumption

\* What waits for the client was posted by the commands counted so far.
Waiting ==
    /\ unread <= iCommand * CommandLength
    /\ late \/ unread = 0 \/ unread = CommandLength

\* A client that was let in is connected until it leaves or is hung up on.
LetIn ==
    /\ pc \in {"job", "start"} => srv = "none"
    /\ srv = "none" => pipe = "none" /\ ~misused
    /\ srv = "create" => pipe = "none"
    /\ pipe = "listening" => srv = "connect" \/ (srv = "wait" /\ ~event)
    /\ pc \in {"read", "write"} => pipe \in {"connected", "closed"}
    /\ pc = "key" => pipe = "closed"
    /\ pipe = "connected" => pc \in {"read", "write"}

\* There are no more reads than passes, as long as each pass posts a command.
Passes ==
    /\ iCommand = MaxCommands \/ reads <= iCommand
    /\ srv = "fetch" => iCommand = MaxCommands \/ reads < iCommand

\* A pass frees its PIPEINST, and the pipe is closed, only without a client, or after all
\* commands were posted.
Frees ==
    /\ freed => pipe = "closed"
    /\ misused => pipe = "closed"
    /\ freed /\ srv = "fetch" => pc \in {"start", "connect", "gone"}
    /\ pipe = "closed" /\ pc \in {"read", "write", "key"}
           => iCommand = MaxCommands \/ srv = "ended"

Inv ==
    /\ TypeOK
    /\ Waiting
    /\ LetIn
    /\ Passes
    /\ Frees
    /\ MisuseMeansNoClient
    /\ PiecesAreCommands

\* CreateNamedPipe preserves the invariant.
LEMMA CreateNamedPipeStep ==
    ASSUME Inv, CreateNamedPipe
    PROVE  Inv'
<1> USE DEF Inv, CreateNamedPipe, serverVars, clientVars, wireVars
<1>1. Waiting' /\ LetIn' /\ Passes' /\ MisuseMeansNoClient' /\ PiecesAreCommands'
    BY DEF Waiting, LetIn, Passes, MisuseMeansNoClient, PiecesAreCommands
<1>2. TypeOK'
    BY DEF TypeOK
<1>3. Frees'
    BY DEF TypeOK, Frees, LetIn
<1> QED
    BY <1>1, <1>2, <1>3

\* ConnectToNewClient preserves the invariant.
LEMMA ConnectToNewClientStep ==
    ASSUME Inv, ConnectToNewClient
    PROVE  Inv'
<1> USE DEF Inv, ConnectToNewClient, serverVars, clientVars, wireVars
<1>1. Waiting' /\ LetIn' /\ Passes' /\ Frees' /\ MisuseMeansNoClient' /\ PiecesAreCommands'
    BY DEF Waiting, LetIn, Passes, Frees, MisuseMeansNoClient, PiecesAreCommands
<1>2. TypeOK'
    BY DEF TypeOK
<1> QED
    BY <1>1, <1>2

\* Pass preserves the invariant.
LEMMA PassStep ==
    ASSUME Inv, Pass
    PROVE  Inv'
<1> USE DEF Inv, Pass, serverVars, clientVars, wireVars
<1>1. LetIn' /\ MisuseMeansNoClient' /\ PiecesAreCommands'
    BY DEF LetIn, MisuseMeansNoClient, PiecesAreCommands
<1>2. TypeOK'
    BY DEF TypeOK, Waiting
<1>3. Waiting'
  <2>1. unread' = unread \/ (unread' = unread + CommandLength /\ iCommand' = iCommand + 1)
    OBVIOUS
  <2>2. iCommand \in Nat /\ CommandLength \in Nat /\ unread \in Nat
        /\ unread <= iCommand * CommandLength
    BY DEF TypeOK, Waiting
  <2>3. (iCommand + 1) * CommandLength = iCommand * CommandLength + CommandLength
    BY <2>2
  <2>4. iCommand' = iCommand \/ iCommand' = iCommand + 1
    OBVIOUS
  <2>5. iCommand * CommandLength \in Nat
    BY <2>2
  <2>6. unread' <= iCommand' * CommandLength
    BY <2>1, <2>2, <2>3, <2>4, <2>5
  <2>7. late' \/ unread' = 0 \/ unread' = CommandLength
    <3>1. late' = (late \/ (unread > 0 /\ unread' > unread))
      OBVIOUS
    <3>2. CommandLength > 0
      OBVIOUS
    <3>3. CASE unread' = unread
      BY <3>1, <3>3 DEF Waiting
    <3>4. CASE unread' = unread + CommandLength
      <4>1. unread = 0 => unread' = CommandLength
        BY <2>2, <3>4
      <4>2. unread # 0 => unread > 0 /\ unread' > unread
        BY <2>2, <3>2, <3>4
      <4> QED
        BY <3>1, <4>1, <4>2, Zenon
    <3> QED
      BY <2>1, <3>3, <3>4
  <2> QED
    BY <2>6, <2>7 DEF Waiting
<1>4. Passes'
    BY DEF TypeOK, Passes
<1>5. Frees'
  <2>1. pc \in {"job", "start", "connect", "read", "write", "key", "gone"}
    BY DEF TypeOK
  <2>2. freed' => pipe' = "closed" /\ pipe # "connected" /\ iCommand # MaxCommands
    <3>1. iCommand < MaxCommands => iCommand # MaxCommands
      BY DEF TypeOK
    <3> QED
      BY <3>1, Zenon
  <2>3. pc \in {"read", "write", "key"} /\ pipe # "connected" => iCommand = MaxCommands
    BY DEF LetIn, Frees
  <2>4. freed' => pc \in {"start", "connect", "gone"}
    BY <2>1, <2>2, <2>3 DEF LetIn
  <2>5. iCommand = MaxCommands => iCommand' = MaxCommands
    OBVIOUS
  <2> QED
    BY <2>2, <2>4, <2>5 DEF Frees
<1> QED
    BY <1>1, <1>2, <1>3, <1>4, <1>5

\* AllocFails preserves the invariant.
LEMMA AllocFailsStep ==
    ASSUME Inv, AllocFails
    PROVE  Inv'
<1> USE DEF Inv, AllocFails, serverVars, clientVars, wireVars
<1>1. Waiting' /\ LetIn' /\ Passes' /\ Frees' /\ MisuseMeansNoClient' /\ PiecesAreCommands'
    BY DEF Waiting, LetIn, Passes, Frees, MisuseMeansNoClient, PiecesAreCommands
<1>2. TypeOK'
    BY DEF TypeOK
<1> QED
    BY <1>1, <1>2

\* FetchMessageFromClient preserves the invariant.
LEMMA FetchMessageFromClientStep ==
    ASSUME Inv, FetchMessageFromClient
    PROVE  Inv'
<1> USE DEF Inv, FetchMessageFromClient, Readable, serverVars, clientVars, wireVars
<1>1. Waiting' /\ LetIn' /\ MisuseMeansNoClient' /\ PiecesAreCommands'
    BY DEF Waiting, LetIn, MisuseMeansNoClient, PiecesAreCommands
<1>2. TypeOK'
    BY DEF TypeOK
<1>3. Passes'
    BY DEF TypeOK, Passes
<1>4. Frees'
    BY DEF TypeOK, Frees, LetIn, Passes
<1> QED
    BY <1>1, <1>2, <1>3, <1>4

\* FetchWithFreed preserves the invariant.
LEMMA FetchWithFreedStep ==
    ASSUME Inv, FetchWithFreed
    PROVE  Inv'
<1> USE DEF Inv, FetchWithFreed, serverVars, clientVars, wireVars
<1>1. Waiting' /\ LetIn' /\ Frees' /\ PiecesAreCommands'
    BY DEF Waiting, LetIn, Frees, PiecesAreCommands
<1>2. TypeOK'
    BY DEF TypeOK
<1>3. Passes'
    BY DEF TypeOK, Passes
<1>4. MisuseMeansNoClient'
    BY DEF TypeOK, MisuseMeansNoClient, Frees
<1> QED
    BY <1>1, <1>2, <1>3, <1>4

\* ReadCompletes preserves the invariant.
LEMMA ReadCompletesStep ==
    ASSUME Inv, ReadCompletes
    PROVE  Inv'
<1> USE DEF Inv, ReadCompletes, serverVars, clientVars, wireVars
<1>1. Waiting' /\ LetIn' /\ Frees' /\ MisuseMeansNoClient' /\ PiecesAreCommands'
    BY DEF Waiting, LetIn, Frees, MisuseMeansNoClient, PiecesAreCommands
<1>2. TypeOK'
    BY DEF TypeOK
<1>3. Passes'
    BY DEF TypeOK, Passes
<1> QED
    BY <1>1, <1>2, <1>3

\* AddProcess preserves the invariant.
LEMMA AddProcessStep ==
    ASSUME Inv, AddProcess
    PROVE  Inv'
<1> USE DEF Inv, AddProcess, serverVars, clientVars, wireVars
<1>1. Waiting' /\ LetIn' /\ Passes' /\ Frees' /\ MisuseMeansNoClient' /\ PiecesAreCommands'
    BY DEF Waiting, LetIn, Passes, Frees, MisuseMeansNoClient, PiecesAreCommands
<1>2. TypeOK'
    BY DEF TypeOK
<1> QED
    BY <1>1, <1>2

\* StartServer preserves the invariant.
LEMMA StartServerStep ==
    ASSUME Inv, StartServer
    PROVE  Inv'
<1> USE DEF Inv, StartServer, serverVars, clientVars, wireVars
<1>1. Waiting' /\ LetIn' /\ Passes' /\ Frees' /\ MisuseMeansNoClient' /\ PiecesAreCommands'
    BY DEF Waiting, LetIn, Passes, Frees, MisuseMeansNoClient, PiecesAreCommands
<1>2. TypeOK'
    BY DEF TypeOK
<1> QED
    BY <1>1, <1>2

\* Connect preserves the invariant.
LEMMA ConnectStep ==
    ASSUME Inv, Connect
    PROVE  Inv'
<1> USE DEF Inv, Connect, serverVars, clientVars, wireVars
<1>1. Waiting' /\ LetIn' /\ Passes' /\ Frees' /\ PiecesAreCommands'
    BY DEF Waiting, LetIn, Passes, Frees, PiecesAreCommands
<1>2. TypeOK'
    BY DEF TypeOK
<1>3. MisuseMeansNoClient'
    BY DEF TypeOK, MisuseMeansNoClient, Frees
<1> QED
    BY <1>1, <1>2, <1>3

\* ReadString preserves the invariant.
LEMMA ReadStringStep ==
    ASSUME Inv, ReadString
    PROVE  Inv'
<1> USE DEF Inv, ReadString, Piece, serverVars, clientVars, wireVars
<1>1. LetIn' /\ Passes' /\ Frees' /\ MisuseMeansNoClient'
    BY DEF LetIn, Passes, Frees, MisuseMeansNoClient
<1>2. TypeOK'
    BY DEF TypeOK
<1>3. Waiting'
  <2>1. unread \in Nat /\ PieceLength \in Nat /\ iCommand \in Nat /\ CommandLength \in Nat
    BY DEF TypeOK
  <2>2. unread - Piece \in Nat /\ unread - Piece <= unread
    BY <2>1 DEF Piece
  <2>3. iCommand * CommandLength \in Nat /\ unread <= iCommand * CommandLength
    BY <2>1 DEF Waiting
  <2>4. unread = CommandLength => unread - Piece = 0
    BY <2>1 DEF Piece
  <2>5. unread - Piece <= iCommand * CommandLength
    BY <2>1, <2>2, <2>3
  <2>6. late \/ unread - Piece = 0
    BY <2>1, <2>4 DEF Waiting
  <2> QED
    BY <2>5, <2>6 DEF Waiting
<1>4. PiecesAreCommands'
    BY DEF TypeOK, PiecesAreCommands, Waiting
<1> QED
    BY <1>1, <1>2, <1>3, <1>4

\* WriteStringFixed preserves the invariant.
LEMMA WriteStringFixedStep ==
    ASSUME Inv, WriteStringFixed
    PROVE  Inv'
<1> USE DEF Inv, WriteStringFixed, serverVars, clientVars, wireVars
<1>1. Waiting' /\ LetIn' /\ Passes' /\ Frees' /\ MisuseMeansNoClient' /\ PiecesAreCommands'
    BY DEF Waiting, LetIn, Passes, Frees, MisuseMeansNoClient, PiecesAreCommands
<1>2. TypeOK'
    BY DEF TypeOK
<1> QED
    BY <1>1, <1>2

\* TaskEnds preserves the invariant.
LEMMA TaskEndsStep ==
    ASSUME Inv, TaskEnds
    PROVE  Inv'
<1> USE DEF Inv, TaskEnds, serverVars, clientVars, wireVars
<1>1. Waiting' /\ LetIn' /\ Passes' /\ Frees' /\ MisuseMeansNoClient' /\ PiecesAreCommands'
    BY DEF Waiting, LetIn, Passes, Frees, MisuseMeansNoClient, PiecesAreCommands
<1>2. TypeOK'
    BY DEF TypeOK
<1> QED
    BY <1>1, <1>2

\* Exit preserves the invariant.
LEMMA ExitStep ==
    ASSUME Inv, Exit
    PROVE  Inv'
<1> USE DEF Inv, Exit, serverVars, clientVars, wireVars
<1>1. LetIn' /\ Passes' /\ Frees' /\ MisuseMeansNoClient' /\ PiecesAreCommands'
    BY DEF LetIn, Passes, Frees, MisuseMeansNoClient, PiecesAreCommands
<1>2. TypeOK'
    BY DEF TypeOK
<1>3. Waiting'
    BY DEF TypeOK, Waiting
<1> QED
    BY <1>1, <1>2, <1>3

\* KillOnClose preserves the invariant.
LEMMA KillOnCloseStep ==
    ASSUME Inv, KillOnClose
    PROVE  Inv'
<1> USE DEF Inv, KillOnClose, serverVars, clientVars, wireVars
<1>1. Waiting' /\ LetIn' /\ Passes' /\ Frees' /\ MisuseMeansNoClient' /\ PiecesAreCommands'
    BY DEF Waiting, LetIn, Passes, Frees, MisuseMeansNoClient, PiecesAreCommands
<1>2. TypeOK'
    BY DEF TypeOK
<1> QED
    BY <1>1, <1>2

-----------------------------------------------------------------------------
\* The two processes before they do anything satisfy the invariant.
LEMMA InitInv == Init => Inv
<1> SUFFICES ASSUME Init PROVE Inv
    OBVIOUS
<1> USE DEF Init
<1>1. 0 * CommandLength = 0 /\ 0 \in 0..MaxCommands * CommandLength
      /\ 0 \in 0..MaxCommands /\ 0 \in 0..MaxReads
    OBVIOUS
<1>2. TypeOK
    BY <1>1 DEF TypeOK
<1>3. Waiting /\ Passes
    BY <1>1 DEF Waiting, Passes
<1>4. LetIn /\ Frees /\ MisuseMeansNoClient /\ PiecesAreCommands
    BY DEF LetIn, Frees, MisuseMeansNoClient, PiecesAreCommands
<1> QED
    BY <1>2, <1>3, <1>4 DEF Inv

\* Every step of either process preserves the invariant.
LEMMA NextInv == Inv /\ [Next]_vars => Inv'
<1> SUFFICES ASSUME Inv, [Next]_vars PROVE Inv'
    OBVIOUS
<1>1. CASE UNCHANGED vars
    BY <1>1 DEF Inv, vars, serverVars, clientVars, wireVars, TypeOK, Waiting, LetIn, Passes,
       Frees, MisuseMeansNoClient, PiecesAreCommands
<1>2. CASE ServerNext
    BY <1>2, CreateNamedPipeStep, ConnectToNewClientStep, PassStep,
       FetchMessageFromClientStep, FetchWithFreedStep DEF ServerNext
<1>3. CASE ClientNext
    BY <1>3, AddProcessStep, StartServerStep, ConnectStep, ReadStringStep,
       WriteStringFixedStep, TaskEndsStep DEF ClientNext
<1>4. CASE AllocFails \/ ReadCompletes \/ Exit \/ KillOnClose
    BY <1>4, AllocFailsStep, ReadCompletesStep, ExitStep, KillOnCloseStep
<1> QED
    BY <1>1, <1>2, <1>3, <1>4 DEF Next

\* The invariant holds throughout.
LEMMA Invariance == Spec => []Inv
<1> QED
    BY InitInv, NextInv, PTL DEF Spec

\* The variables keep their types; the counts of commands and reads their bounds.
THEOREM TypeCorrect == Spec => []TypeOK
<1>1. Inv => TypeOK
    BY DEF Inv
<1> QED
    BY <1>1, Invariance, PTL

\* A piece that the client shows is one command, unless commands have waited together
\* (vasim.cpp:93-105, IPCClient.cs:56).
THEOREM Pieces == Spec => []PiecesAreCommands
<1>1. Inv => PiecesAreCommands
    BY DEF Inv
<1> QED
    BY <1>1, Invariance, PTL

\* A freed PIPEINST is used only without a client (vasim.cpp:101-108, 150-153).
THEOREM Misuse == Spec => []MisuseMeansNoClient
<1>1. Inv => MisuseMeansNoClient
    BY DEF Inv
<1> QED
    BY <1>1, Invariance, PTL

\* The server does not hang up on a client before all commands were posted
\* (vasim.cpp:92-108, 187-190).
THEOREM HangUp == Spec => []HangsUpLate
<1>1. Inv => HangsUpLate
    BY DEF Inv, Frees, HangsUpLate
<1> QED
    BY <1>1, Invariance, PTL
============================================================================
