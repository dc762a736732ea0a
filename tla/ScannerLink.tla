----------------------------- MODULE ScannerLink -----------------------------
(***************************************************************************)
(* The voice activation client (VAClientSample on ScannerCommunication)    *)
(* and the scanner application (ScannerSample) talking to each other: two  *)
(* pipes, each of them as module Delivery describes it, and four threads.  *)
(* The client's console thread tells the scanner its state; the client's   *)
(* server thread answers GetState from inside its handler, with a call in  *)
(* the other direction; the scanner's console thread sends instructions;   *)
(* the scanner's server thread shows what it is told.                      *)
(***************************************************************************)
EXTENDS Integers

CONSTANTS
    Tells,          \* the calls of Command made by SendStateToScanner
    Requests,       \* the calls of SendScannerToEnova; the answer to one bears its name
    States,         \* the values of mStates
    Initializing,   \* the one the constructor assigns
    NoState,        \* the empty string, which mCurrentState is before that
    Commands,       \* the values of mCommands
    Torn,           \* what a string reads as while it is assigned or after its end
    Indexes         \* the microphone indexes that are typed in

\* The values of int.
Ints == {n \in Int : -2147483647 - 1 <= n /\ n <= 2147483647}

ASSUME LinkAssumption ==
    /\ Tells \cap Requests = {}
    /\ Initializing \in States
    /\ NoState \notin States
    /\ Torn \notin States
    /\ Commands \cap (States \cup {NoState, Torn}) = {}
    /\ Indexes \subseteq Ints

VARIABLES
    con,            \* where the client's console thread is
    tell,           \* the call of Command it makes, or last made
    srv,            \* where the client's server thread is
    cur,            \* the request it handles, or last handled
    getCb, micCb,   \* mGetStateCallback and mChangeMicrophoneCallback
    mCurrentState,
    next,           \* the state being assigned to it
    said,           \* the fields "state" and "command" of each call to the scanner
    shown,          \* those of the call that the scanner's handleRequest showed last
    text,           \* what each call of SendScannerToEnova sends
    did,            \* history: what was done about a request
    overlapped,     \* history: an answer and a change of state went on together
    sOutcome, sHandled, sAhead, sWaits,    \* \\.\pipe\AetrexScannerOS2VoiceActivation
    eOutcome, eHandled, eAhead, eWaits     \* \\.\pipe\eNovaClient

ToScanner == Tells \cup Requests

Scanner == INSTANCE Delivery WITH
    Calls <- ToScanner,
    outcome <- sOutcome, handled <- sHandled, ahead <- sAhead, waits <- sWaits

Enova == INSTANCE Delivery WITH
    Calls <- Requests,
    outcome <- eOutcome, handled <- eHandled, ahead <- eAhead, waits <- eWaits

console == <<con, tell, mCurrentState, next>>
server == <<srv, cur, did>>
callbacks == <<getCb, micCb>>
wires == <<said, shown, text>>
sPipe == <<sOutcome, sHandled, sAhead, sWaits>>
ePipe == <<eOutcome, eHandled, eAhead, eWaits>>
vars == <<console, server, callbacks, wires, overlapped, sPipe, ePipe>>

-----------------------------------------------------------------------------
(* Messages, as far as the parser's fixed offsets go.                      *)

Instructions == {"GetState", "SetAudioCaptureDeviceIndex"}

\* Mutant of TimeLength: the time is written with the Z that its buffer has room for.
MutTimeLength == 20

\* The number of characters strftime writes for "%FT%T" in the years 1000 to 9999.
TimeLength == 19

InstructionLength(i) == IF i = "GetState" THEN 8 ELSE 26

\* The length of std::to_string(n), for an int: its figures, after the minus sign if any.
Figures(n) == IF n < 10 THEN 1 ELSE CHOOSE k \in 2..10 : n \div 10^(k - 1) \in 1..9
Digits(n) == IF n < 0 THEN 1 + Figures(-n) ELSE Figures(n)

\* {"time": "<time>", "instruction" : "<instruction>", "microphoneIndex" : <index>}
Compose(i, n) ==
    LET start == 10 + TimeLength + 20
        index == start + InstructionLength(i) + 23
    IN  [instr |-> i, start |-> start, n |-> n, index |-> index, len |-> index + Digits(n) + 1]

\* Mutant of FirstDigit: the character is taken for the number.
MutFirstDigit(n) == 48 + n \div 10^(Figures(n) - 1)

\* One character of the index is copied and given to stoi, which throws on a minus sign.
FirstDigit(n) == IF n < 0 THEN -1 ELSE n \div 10^(Figures(n) - 1)

Nothing == [what |-> "nothing", index |-> 0]
Answer == [what |-> "answer", index |-> 0]
SetMicrophone(n) == [what |-> "microphone", index |-> n]

Parse(m) ==
    IF m.len > 57 /\ m.start = 49 /\ m.instr = "GetState" THEN Answer
    ELSE IF m.len > 75 /\ m.start = 49 /\ m.instr = "SetAudioCaptureDeviceIndex"
    THEN SetMicrophone(IF m.len > 98 /\ m.index = 98 THEN FirstDigit(m.n) ELSE -1)
    ELSE Nothing

-----------------------------------------------------------------------------
Values == States \cup {NoState, Torn}
Fields == [state : Values \cup Commands, command : Values \cup Commands]
Blank == [state |-> NoState, command |-> NoState]
Texts == [instr : Instructions, index : Indexes]
Actions == {Nothing, Answer} \cup {SetMicrophone(n) : n \in -1..9}

TypeOK ==
    /\ con \in {"new", "hasGet", "first", "ready", "assign", "call",
                "noState", "noMic", "stop", "again", "join", "rejoin", "gone", "crashed"}
    /\ tell \in Tells \cup {NoState}
    /\ srv \in {"unborn", "idle", "get", "mic", "send", "missed", "ended", "crashed"}
    /\ cur \in Requests \cup {NoState}
    /\ getCb \in BOOLEAN /\ micCb \in BOOLEAN
    /\ mCurrentState \in Values /\ next \in States
    /\ said \in [ToScanner -> Fields] /\ shown \in Fields
    /\ \A r \in Requests : eOutcome[r] # "idle" => text[r] \in Texts
    /\ did \in [Requests -> Actions]
    /\ overlapped \in BOOLEAN

\* TwoWayCommunicator's constructor has called Start, but Listen may not have begun;
\* ScannerCommunication's and ScannerCommunicationTest's have done nothing else yet.
Init ==
    /\ con = "new" /\ tell = NoState
    /\ srv = "unborn" /\ cur = NoState
    /\ getCb = FALSE /\ micCb = FALSE
    /\ mCurrentState = NoState /\ next = Initializing
    /\ said = [c \in ToScanner |-> Blank] /\ shown = Blank
    /\ text = [r \in Requests |-> Nothing]
    /\ did = [r \in Requests |-> Nothing]
    /\ overlapped = FALSE
    /\ Scanner!Init /\ sWaits = [c \in ToScanner |-> FALSE]
    /\ Enova!Init /\ eWaits = [r \in Requests |-> FALSE]

Ended(o) == o \in {"ok", "threw"}

-----------------------------------------------------------------------------
(* The client's console thread.                                            *)

Step(from, to) == con = from /\ con' = to

\* The state is being assigned or told: from SendStateToScanner's assignment until its
\* call returns, and until the constructor has made its own assignment.
Changing == con \in {"hasGet", "first", "assign", "call"}

SetGetStateCallback ==
    /\ Step("new", "hasGet")
    /\ getCb' = TRUE
    /\ UNCHANGED <<tell, mCurrentState, next, server, micCb, wires, overlapped, sPipe, ePipe>>

SetChangeMicrophoneCallback ==
    /\ Step("hasGet", "first")
    /\ micCb' = TRUE
    /\ UNCHANGED <<tell, mCurrentState, next, server, getCb, wires, overlapped, sPipe, ePipe>>

\* Mutant of FirstAssignment: the constructor assigns nothing.
MutFirstAssignment ==
    /\ Step("first", "ready")
    /\ UNCHANGED <<tell, mCurrentState, next, server, callbacks, wires, overlapped, sPipe, ePipe>>

\* The constructor's assignment, which may have begun as soon as both callbacks are set.
FirstAssignment ==
    /\ Step("first", "ready")
    /\ mCurrentState' = next
    /\ UNCHANGED <<tell, next, server, callbacks, wires, overlapped, sPipe, ePipe>>

\* SendStateToScanner begins to assign the state that was typed in.
Select ==
    /\ Step("ready", "assign")
    /\ next' \in States
    /\ overlapped' = (overlapped \/ srv = "send")
    /\ UNCHANGED <<tell, mCurrentState, server, callbacks, wires, sPipe, ePipe>>

\* Mutant of Command: the state is sent without having been assigned.
MutCommand ==
    /\ Step("assign", "call")
    /\ tell' \in Tells
    /\ \E c \in Commands : said' = [said EXCEPT ![tell'] = [state |-> c, command |-> next]]
    /\ Scanner!Submit(tell')
    /\ UNCHANGED <<next, mCurrentState, server, callbacks, shown, text, overlapped, ePipe>>

\* The assignment is complete and Command sends it: the sample passes it where Command
\* has the parameter command, and the command where it has the parameter state.
Command ==
    /\ Step("assign", "call")
    /\ mCurrentState' = next
    /\ tell' \in Tells
    /\ \E c \in Commands : said' = [said EXCEPT ![tell'] = [state |-> c, command |-> next]]
    /\ Scanner!Submit(tell')
    /\ UNCHANGED <<next, server, callbacks, shown, text, overlapped, ePipe>>

CommandReturns ==
    /\ Step("call", "ready")
    /\ Ended(sOutcome[tell])
    /\ UNCHANGED <<tell, mCurrentState, next, server, callbacks, wires, overlapped, sPipe, ePipe>>

\* The members end in the reverse order of their declaration: mCurrentState, then those
\* of ScannerCommunication: the two callbacks, and the communicator last.
Quit ==
    /\ Step("ready", "noState")
    /\ mCurrentState' = Torn
    /\ UNCHANGED <<tell, next, server, callbacks, wires, overlapped, sPipe, ePipe>>

DestroyCallbacks ==
    /\ \/ Step("noState", "noMic") /\ micCb' = FALSE /\ UNCHANGED getCb
       \/ Step("noMic", "stop") /\ getCb' = FALSE /\ UNCHANGED micCb
    /\ UNCHANGED <<tell, mCurrentState, next, server, wires, overlapped, sPipe, ePipe>>

Joining == con \in {"join", "rejoin"}

\* ~TwoWayCommunicator's Stop finds mIsRun set: it resets it and deletes the pipe's file.
\* That reaches the thread unless it has tested mIsRun and has no instance yet.
Stop ==
    /\ srv # "unborn"
    /\ Step("stop", "join") \/ Step("again", "rejoin")
    /\ srv' \in IF srv = "idle" THEN {"idle", "missed"} ELSE {srv}
    /\ UNCHANGED <<cur, did, tell, mCurrentState, next, callbacks, wires, overlapped, sPipe, ePipe>>

\* Stop before Listen has set mIsRun returns without a join.  mCallback ends, and
\* ~NamedPipeServer calls Stop again; should that come too early as well, the end of a
\* thread object that was not joined ends the process.
StopTooEarly ==
    /\ srv = "unborn"
    /\ \/ Step("stop", "again") /\ UNCHANGED srv
       \/ Step("again", "crashed") /\ srv' = "crashed"
    /\ UNCHANGED <<cur, did, tell, mCurrentState, next, callbacks, wires, overlapped, sPipe, ePipe>>

Joined ==
    /\ srv = "ended"
    /\ Joining /\ con' = "gone"
    /\ UNCHANGED <<tell, mCurrentState, next, server, callbacks, wires, overlapped, sPipe, ePipe>>

ConsoleNext ==
    \/ SetGetStateCallback \/ SetChangeMicrophoneCallback \/ FirstAssignment
    \/ Command \/ CommandReturns
    \/ DestroyCallbacks \/ Stop \/ StopTooEarly \/ Joined

-----------------------------------------------------------------------------
(* The client's server thread: Listen, as far as Stop depends on it,       *)
(* handleRequest, IncomingMessageCallback and what it calls.               *)

\* Listen sets mIsRun.
Listen ==
    /\ srv = "unborn"
    /\ srv' = "idle"
    /\ UNCHANGED <<cur, did, console, callbacks, wires, overlapped, sPipe, ePipe>>

\* The loops test mIsRun once more, after DeleteFile, a caller's end or the handler's; or
\* Listen returned earlier, CreateNamedPipe having failed: until now a thread that no
\* instruction reaches.
ListenEnds ==
    /\ srv = "idle" /\ Joining
    /\ srv' = "ended"
    /\ UNCHANGED <<cur, did, console, callbacks, wires, overlapped, sPipe, ePipe>>

\* Mutant of Incoming: the callbacks are called without a look whether they are set.
MutIncoming(r) ==
    /\ srv = "idle" /\ con \notin {"again", "rejoin"}
    /\ Enova!Handle(r)
    /\ cur' = r
    /\ did' = [did EXCEPT ![r] = Parse(Compose(text[r].instr, text[r].index))]
    /\ srv' = CASE did'[r] = Answer -> "get" [] did'[r] = Nothing -> "idle" [] OTHER -> "mic"
    /\ UNCHANGED <<console, callbacks, wires, overlapped, sPipe>>

Incoming(r) ==
    /\ srv = "idle" /\ con \notin {"again", "rejoin"}
    /\ Enova!Handle(r)
    /\ cur' = r
    /\ LET action == Parse(Compose(text[r].instr, text[r].index))
           set == IF action = Answer THEN getCb ELSE action # Nothing /\ micCb
       IN  /\ did' = [did EXCEPT ![r] = IF set THEN action ELSE Nothing]
           /\ srv' = CASE set /\ action = Answer -> "get"
                       [] set /\ action # Answer -> "mic"
                       [] OTHER -> "idle"
    /\ UNCHANGED <<console, callbacks, wires, overlapped, sPipe>>

\* After a Stop that came too early mCallback has ended when the thread calls it.
IncomingTooLate(r) ==
    /\ srv = "idle" /\ con \in {"again", "rejoin"}
    /\ Enova!Handle(r)
    /\ srv' = "crashed" /\ con' = "crashed"
    /\ UNCHANGED <<cur, did, tell, mCurrentState, next, callbacks, wires, overlapped, sPipe>>

\* changeMicrophoneCallback, of which the sample only prints the argument.
ChangeMicrophone ==
    /\ srv = "mic" /\ micCb
    /\ srv' = "idle"
    /\ UNCHANGED <<cur, did, console, callbacks, wires, overlapped, sPipe, ePipe>>

\* What mCurrentState.c_str() may show.
Reading ==
    CASE con \in {"first", "assign"} -> {mCurrentState, next, Torn}
      [] con \in {"noState", "noMic", "stop", "join"} -> {NoState, Torn}
      [] OTHER -> {mCurrentState}

\* getStateCallback: State sends what it reads.
GetState ==
    /\ srv = "get" /\ getCb
    /\ srv' = "send"
    /\ \E v \in Reading : said' = [said EXCEPT ![cur] = [state |-> v, command |-> NoState]]
    /\ Scanner!Submit(cur)
    /\ overlapped' = (overlapped \/ Changing)
    /\ UNCHANGED <<cur, did, console, callbacks, shown, text, ePipe>>

\* Mutant of StateReturns: a call that throws is not the end of State.
MutStateReturns ==
    /\ srv = "send"
    /\ sOutcome[cur] = "ok"
    /\ srv' = "idle"
    /\ UNCHANGED <<cur, did, console, callbacks, wires, overlapped, sPipe, ePipe>>

StateReturns ==
    /\ srv = "send"
    /\ Ended(sOutcome[cur])
    /\ srv' = "idle"
    /\ UNCHANGED <<cur, did, console, callbacks, wires, overlapped, sPipe, ePipe>>

\* A callback that was destroyed after it was tested throws bad_function_call, which
\* neither Read nor Listen catches: the process ends, and its calls with it.
CallOfNothing ==
    /\ (srv = "get" /\ ~getCb) \/ (srv = "mic" /\ ~micCb)
    /\ srv' = "crashed" /\ con' = "crashed"
    /\ UNCHANGED <<cur, did, tell, mCurrentState, next, callbacks, wires, overlapped, sPipe, ePipe>>

ServerNext ==
    Listen \/ ListenEnds \/ ChangeMicrophone \/ GetState \/ StateReturns \/ CallOfNothing

-----------------------------------------------------------------------------
(* The scanner application, and the pipes on their own.                    *)

\* The console loop sends one instruction after the other.
SendScannerToEnova(r) ==
    /\ \A q \in Requests : eOutcome[q] = "idle" \/ Ended(eOutcome[q])
    /\ \E t \in Texts : text' = [text EXCEPT ![r] = t]
    /\ Enova!Submit(r)
    /\ UNCHANGED <<console, server, callbacks, said, shown, overlapped, sPipe>>

Show(c) ==
    /\ Scanner!Handle(c)
    /\ shown' = said[c]
    /\ UNCHANGED <<console, server, callbacks, said, text, overlapped, ePipe>>

ScannerPipe(c) ==
    /\ Scanner!Connect(c) \/ Scanner!Send(c) \/ Scanner!Return(c) \/ Scanner!Throw(c)
    /\ UNCHANGED <<console, server, callbacks, wires, overlapped, ePipe>>

EnovaPipe(r) ==
    /\ (srv # "missed" /\ Enova!Connect(r)) \/ Enova!Send(r) \/ Enova!Return(r) \/ Enova!Throw(r)
    /\ UNCHANGED <<console, server, callbacks, wires, overlapped, sPipe>>

\* A caller connects to the instance that DeleteFile has missed: mIsRun ends both loops.
Release(r) ==
    /\ srv = "missed"
    /\ Enova!Connect(r)
    /\ srv' = "ended"
    /\ UNCHANGED <<cur, did, console, callbacks, wires, overlapped, sPipe>>

-----------------------------------------------------------------------------
Next ==
    \/ ConsoleNext \/ Select \/ Quit
    \/ ServerNext
    \/ \E r \in Requests : Incoming(r) \/ IncomingTooLate(r)
    \/ \E r \in Requests : SendScannerToEnova(r) \/ EnovaPipe(r) \/ Release(r)
    \/ \E c \in ToScanner : Show(c) \/ ScannerPipe(c)

Spec == Init /\ [][Next]_vars

\* The client's threads run, and a call that has begun ends, as CallsReturn of module
\* PipeServer has it.  Nothing makes a call begin, or a message that was sent arrive.
Fairness ==
    /\ WF_vars(ConsoleNext)
    /\ WF_vars(ServerNext)
    /\ \A c \in ToScanner : WF_vars(ScannerPipe(c))

FairSpec == Spec /\ Fairness

-----------------------------------------------------------------------------
\* The client's state in a message, in whichever field the message has it.
Told(m) == IF m.state \in Commands THEN m.command ELSE m.state
Begun(c) == sOutcome[c] # "idle"
QuittingPCs ==
    {"noState", "noMic", "stop", "again", "join", "rejoin", "gone", "crashed"}
Quitting == con \in QuittingPCs

\* When nothing is being changed and everything sent to the scanner has arrived, it shows
\* the state the client is in, in whatever order the console thread's calls and the
\* answers given by the server thread were made; unless an answer was on its way while
\* the state changed (ScannerCommunicationTest.cpp:73-75, 85-88).
ShownIsCurrent ==
    /\ con = "ready"
    /\ \A c \in ToScanner : Begun(c) => sHandled[c] = 1
    /\ \E c \in ToScanner : Begun(c)
    /\ ~overlapped
    => Told(shown) = mCurrentState

\* What GetState is answered with is a state, however the two threads run, but for an
\* answer given while the state changes or while the client is being destroyed
\* (ScannerCommunicationTest.cpp:45-52, 85-88).
AnswersAreStates ==
    \A r \in Requests : Begun(r) => Told(said[r]) \in States \/ overlapped \/ Quitting

\* Once the client is constructed an instruction does in it what was meant in the
\* scanner: the offsets that IncomingMessageCallback counts on are where
\* SendScannerToEnova puts the fields, for every index its prompt asks for, and the
\* callback is there (ScannerConnector.cpp:37, ScannerCommunication.cpp:42-58,
\* ScannerSample.cpp:35).
Meant(t) == IF t.instr = "GetState" THEN Answer ELSE SetMicrophone(t.index)

InstructionUnderstood ==
    [][\A r \in Requests :
           eHandled'[r] # eHandled[r] /\ text[r].index \in -1..9
           /\ con \notin {"new", "hasGet"} \cup QuittingPCs
               => did'[r] = Meant(text[r])]_vars

\* The field "state" of what the scanner is shown is a state, as the parameter of that
\* name says (ScannerCommunication.h:22, ScannerCommunicationTest.cpp:75).
StateIsState == shown.state \notin Commands

\* No callback is called before it is set, and none after its end, except in a client
\* that is being destroyed (ScannerCommunication.h:28-30, ScannerCommunication.cpp:43-61).
CallbackOutlivesCall ==
    (srv = "get" /\ ~getCb) \/ (srv = "mic" /\ ~micCb) \/ srv = "crashed" => Quitting

\* The destructor ends, or the process does, although the thread it joins may be in the
\* middle of a call to the other process; unless DeleteFile comes while the thread has no
\* instance, and then it ends with the next caller that connects
\* (TwoWayCommunicator.cpp:12-14, NamedPipeServer.cpp:28-40, ScannerCommunicationTest.cpp:87).
Missed == srv = "missed"
StopIsNotBlocked ==
    (con \in {"stop", "again", "join", "rejoin"} /\ ~Missed) ~> (con \in {"gone", "crashed"} \/ Missed)
=============================================================================
