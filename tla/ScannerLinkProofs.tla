------------------------- MODULE ScannerLinkProofs -------------------------
(***************************************************************************)
(* What the runs of ScannerLink show for three calls, for any number of    *)
(* them and of states: what an instruction does, what GetState is          *)
(* answered with, which callbacks can be called, and what the scanner      *)
(* shows in the end.                                                       *)
(***************************************************************************)
EXTENDS ScannerLink, TLAPS

USE LinkAssumption

-----------------------------------------------------------------------------
\* The first character of an index of one digit is the index; a minus sign is no number.
LEMMA OneDigit ==
    ASSUME NEW n \in -1..9
    PROVE  FirstDigit(n) = n /\ Digits(n) \in 1..2
<1>1. Digits(n) = IF n < 0 THEN 2 ELSE 1
    BY DEF Digits, Figures
<1>2. 10^0 = 1
    BY SMT
<1>3. CASE n < 0
    BY <1>1, <1>3 DEF FirstDigit
<1>4. CASE n >= 0
  <2>1. Figures(n) - 1 = 0
    BY <1>4 DEF Figures
  <2>2. FirstDigit(n) = n \div 1
    BY <1>2, <1>4, <2>1 DEF FirstDigit
  <2> QED
    BY <1>1, <1>4, <2>2
<1> QED
    BY <1>3, <1>4

\* The parser's fixed offsets fit the messages that SendScannerToEnova composes.
LEMMA OffsetsFit ==
    ASSUME NEW t, t.instr \in Instructions, t.index \in -1..9
    PROVE  Parse(Compose(t.instr, t.index)) = Meant(t)
<1> DEFINE m == Compose(t.instr, t.index)
<1>1. /\ m.instr = t.instr /\ m.n = t.index /\ m.start = 49
      /\ m.index = 49 + InstructionLength(t.instr) + 23
      /\ m.len = m.index + Digits(t.index) + 1
    BY DEF Compose, TimeLength
<1>2. Digits(t.index) \in 1..2 /\ FirstDigit(t.index) = t.index
    BY OneDigit
<1>3. CASE t.instr = "GetState"
  <2>1. m.len > 57
    BY <1>1, <1>2, <1>3 DEF InstructionLength
  <2> QED
    BY <1>1, <1>3, <2>1 DEF Parse, Meant
<1>4. CASE t.instr = "SetAudioCaptureDeviceIndex"
  <2>1. m.index = 98 /\ m.len > 98 /\ m.len > 75
    BY <1>1, <1>2, <1>4 DEF InstructionLength
  <2> QED
    BY <1>1, <1>2, <1>4, <2>1 DEF Parse, Meant
<1> QED
    BY <1>3, <1>4 DEF Instructions

\* No int is longer than ten digits, so the first one of an index is a digit.
LEMMA FirstDigitIsDigit ==
    ASSUME NEW n \in Ints
    PROVE  FirstDigit(n) \in -1..9
<1>1. n \in Int
    BY SMT DEF Ints
<1>2. CASE n < 10
  <2>1. n \in 0..9 => FirstDigit(n) = n
    BY OneDigit
  <2> QED
    BY <1>1, <1>2, <2>1 DEF FirstDigit
<1>3. CASE n >= 10
  <2>1. /\ 10^(2 - 1) = 10 /\ 10^(3 - 1) = 100 /\ 10^(4 - 1) = 1000
        /\ 10^(5 - 1) = 10000 /\ 10^(6 - 1) = 100000 /\ 10^(7 - 1) = 1000000
        /\ 10^(8 - 1) = 10000000 /\ 10^(9 - 1) = 100000000 /\ 10^(10 - 1) = 1000000000
    BY SMT
  <2>2. \/ n \div 10 \in 1..9 \/ n \div 100 \in 1..9 \/ n \div 1000 \in 1..9
        \/ n \div 10000 \in 1..9 \/ n \div 100000 \in 1..9 \/ n \div 1000000 \in 1..9
        \/ n \div 10000000 \in 1..9 \/ n \div 100000000 \in 1..9
        \/ n \div 1000000000 \in 1..9
    <3>1. n >= 10 /\ n < 100 => n \div 10 \in 1..9
      BY <1>1, SMT
    <3>2. n >= 100 /\ n < 1000 => n \div 100 \in 1..9
      BY <1>1, SMT
    <3>3. n >= 1000 /\ n < 10000 => n \div 1000 \in 1..9
      BY <1>1, SMT
    <3>4. n >= 10000 /\ n < 100000 => n \div 10000 \in 1..9
      BY <1>1, SMT
    <3>5. n >= 100000 /\ n < 1000000 => n \div 100000 \in 1..9
      BY <1>1, SMT
    <3>6. n >= 1000000 /\ n < 10000000 => n \div 1000000 \in 1..9
      BY <1>1, SMT
    <3>7. n >= 10000000 /\ n < 100000000 => n \div 10000000 \in 1..9
      BY <1>1, SMT
    <3>8. n >= 100000000 /\ n < 1000000000 => n \div 100000000 \in 1..9
      BY <1>1, SMT
    <3>9. n >= 1000000000 /\ n <= 2147483647 => n \div 1000000000 \in 1..9
      BY <1>1, SMT
    <3>10. n <= 2147483647
      BY SMT DEF Ints
    <3> QED
      BY <1>1, <1>3, <3>1, <3>2, <3>3, <3>4, <3>5, <3>6, <3>7, <3>8, <3>9, <3>10, SMT
  <2>3. \E k \in 2..10 : n \div 10^(k - 1) \in 1..9
    <3> DEFINE Leads(k) == n \div 10^(k - 1) \in 1..9
    <3>1. \/ Leads(2) \/ Leads(3) \/ Leads(4) \/ Leads(5) \/ Leads(6)
          \/ Leads(7) \/ Leads(8) \/ Leads(9) \/ Leads(10)
      BY <2>1, <2>2
    <3>2. 2..10 = {2, 3, 4, 5, 6, 7, 8, 9, 10}
      BY SMT
    <3> HIDE DEF Leads
    <3>3. \E k \in 2..10 : Leads(k)
      BY <3>1, <3>2
    <3> QED
      BY <3>3 DEF Leads
  <2>4. Figures(n) = CHOOSE k \in 2..10 : n \div 10^(k - 1) \in 1..9
    <3>1. ~(n < 0) /\ ~(n < 10)
      BY <1>1, <1>3
    <3> QED
      BY <3>1, Zenon DEF Figures
  <2>5. n \div 10^(Figures(n) - 1) \in 1..9
    BY <2>3, <2>4, Zenon
  <2>6. n \div 10^(Figures(n) - 1) \in -1..9
    BY <2>5
  <2> QED
    BY <1>1, <1>3, <2>6 DEF FirstDigit
<1> QED
    BY <1>1, <1>2, <1>3

\* Whatever was typed in, IncomingMessageCallback does one of the things it can do.
LEMMA ParseIsAction ==
    ASSUME NEW t \in Texts
    PROVE  Parse(Compose(t.instr, t.index)) \in Actions
<1>1. Compose(t.instr, t.index).n = t.index
    BY DEF Compose
<1>2. t.index \in Ints
    BY DEF Texts
<1>3. \A n \in -1..9 : SetMicrophone(n) \in Actions
    BY DEF Actions
<1>4. FirstDigit(t.index) \in -1..9 /\ -1 \in -1..9
    BY <1>2, FirstDigitIsDigit
<1> HIDE DEF Compose, SetMicrophone, FirstDigit
<1> QED
    BY <1>1, <1>3, <1>4 DEF Parse, Actions

-----------------------------------------------------------------------------
\* Which request the client's server thread is in, and the two pipes.
Pipes ==
    /\ srv \in {"get", "mic", "send"} => cur \in Requests
    /\ sOutcome \in [ToScanner -> Scanner!Outcomes]
    /\ sHandled \in [ToScanner -> {0, 1}]
    /\ DOMAIN sAhead = ToScanner
    /\ eOutcome \in [Requests -> Enova!Outcomes]
    /\ eHandled \in [Requests -> {0, 1}]
    /\ DOMAIN text = Requests

\* Which callbacks are set, as far as the console thread has come.
Callbacks ==
    /\ con = "new" => ~getCb
    /\ con \notin {"new"} \cup QuittingPCs => getCb
    /\ con \notin {"new", "hasGet"} \cup QuittingPCs => micCb
    /\ srv = "get" => getCb \/ Quitting
    /\ srv = "mic" => micCb \/ Quitting
    /\ srv = "crashed" => con = "crashed"

\* Once the constructor has run the client has a state.
HasState == con \in {"ready", "assign", "call"} => mCurrentState \in States

Inv ==
    /\ TypeOK
    /\ Pipes
    /\ Callbacks
    /\ HasState
    /\ AnswersAreStates

\* SetGetStateCallback preserves the invariant.
LEMMA SetGetStateCallbackStep ==
    ASSUME Inv, SetGetStateCallback
    PROVE  Inv'
<1> USE DEF Inv, SetGetStateCallback, Step, console, server, callbacks, wires, sPipe, ePipe
<1>1. Pipes' /\ Callbacks' /\ HasState' /\ AnswersAreStates'
    BY DEF Pipes, Callbacks, HasState, AnswersAreStates, Quitting, QuittingPCs, Begun
<1>2. TypeOK'
    BY DEF TypeOK
<1> QED
    BY <1>1, <1>2

\* SetChangeMicrophoneCallback preserves the invariant.
LEMMA SetChangeMicrophoneCallbackStep ==
    ASSUME Inv, SetChangeMicrophoneCallback
    PROVE  Inv'
<1> USE DEF Inv, SetChangeMicrophoneCallback, Step, console, server, callbacks, wires, sPipe,
      ePipe
<1>1. Pipes' /\ Callbacks' /\ HasState' /\ AnswersAreStates'
    BY DEF Pipes, Callbacks, HasState, AnswersAreStates, Quitting, QuittingPCs, Begun
<1>2. TypeOK'
    BY DEF TypeOK
<1> QED
    BY <1>1, <1>2

\* FirstAssignment preserves the invariant.
LEMMA FirstAssignmentStep ==
    ASSUME Inv, FirstAssignment
    PROVE  Inv'
<1> USE DEF Inv, FirstAssignment, Step, console, server, callbacks, wires, sPipe, ePipe
<1>1. Pipes' /\ Callbacks' /\ AnswersAreStates'
    BY DEF Pipes, Callbacks, AnswersAreStates, Quitting, QuittingPCs, Begun
<1>2. TypeOK'
    BY DEF TypeOK, Values
<1>3. HasState'
    BY DEF TypeOK, HasState
<1> QED
    BY <1>1, <1>2, <1>3

\* Select preserves the invariant.
LEMMA SelectStep ==
    ASSUME Inv, Select
    PROVE  Inv'
<1> USE DEF Inv, Select, Step, console, server, callbacks, wires, sPipe, ePipe
<1>1. Pipes' /\ Callbacks' /\ HasState' /\ AnswersAreStates'
    BY DEF Pipes, Callbacks, HasState, AnswersAreStates, Quitting, QuittingPCs, Begun
<1>2. TypeOK'
    BY DEF TypeOK
<1> QED
    BY <1>1, <1>2

\* Command preserves the invariant.
LEMMA CommandStep ==
    ASSUME Inv, Command
    PROVE  Inv'
<1> USE DEF Inv, Command, Step, Scanner!Submit, Scanner!Become, Scanner!Outcomes, Fields,
      console, server, callbacks, wires, sPipe, ePipe
<1>1. Pipes' /\ Callbacks' /\ AnswersAreStates'
    BY DEF Pipes, Callbacks, AnswersAreStates, ToScanner, Quitting, QuittingPCs, Begun
<1>2. TypeOK'
    BY DEF TypeOK, ToScanner, Values
<1>3. HasState'
    BY DEF TypeOK, HasState
<1> QED
    BY <1>1, <1>2, <1>3

\* CommandReturns preserves the invariant.
LEMMA CommandReturnsStep ==
    ASSUME Inv, CommandReturns
    PROVE  Inv'
<1> USE DEF Inv, CommandReturns, Step, console, server, callbacks, wires, sPipe, ePipe
<1>1. Pipes' /\ Callbacks' /\ HasState' /\ AnswersAreStates'
    BY DEF Pipes, Callbacks, HasState, AnswersAreStates, Quitting, QuittingPCs, Begun
<1>2. TypeOK'
    BY DEF TypeOK
<1> QED
    BY <1>1, <1>2

\* Quit preserves the invariant.
LEMMA QuitStep ==
    ASSUME Inv, Quit
    PROVE  Inv'
<1> USE DEF Inv, Quit, Step, console, server, callbacks, wires, sPipe, ePipe
<1>1. Pipes' /\ Callbacks' /\ HasState' /\ AnswersAreStates'
    BY DEF Pipes, Callbacks, HasState, AnswersAreStates, Quitting, QuittingPCs
<1>2. TypeOK'
    BY DEF TypeOK, Values
<1> QED
    BY <1>1, <1>2

\* DestroyCallbacks preserves the invariant.
LEMMA DestroyCallbacksStep ==
    ASSUME Inv, DestroyCallbacks
    PROVE  Inv'
<1> USE DEF Inv, DestroyCallbacks, Step, console, server, callbacks, wires, sPipe, ePipe
<1>1. Pipes' /\ Callbacks' /\ HasState' /\ AnswersAreStates'
    BY DEF Pipes, Callbacks, HasState, AnswersAreStates, Quitting, QuittingPCs
<1>2. TypeOK'
    BY DEF TypeOK
<1> QED
    BY <1>1, <1>2

\* Stop preserves the invariant.
LEMMA StopStep ==
    ASSUME Inv, Stop
    PROVE  Inv'
<1> USE DEF Inv, Stop, Step, console, server, callbacks, wires, sPipe, ePipe
<1>1. Pipes' /\ Callbacks' /\ HasState' /\ AnswersAreStates'
    BY DEF Pipes, Callbacks, HasState, AnswersAreStates, Quitting, QuittingPCs, Begun
<1>2. TypeOK'
    BY DEF TypeOK
<1> QED
    BY <1>1, <1>2

\* StopTooEarly preserves the invariant.
LEMMA StopTooEarlyStep ==
    ASSUME Inv, StopTooEarly
    PROVE  Inv'
<1> USE DEF Inv, StopTooEarly, Step, console, server, callbacks, wires, sPipe, ePipe
<1>1. Pipes' /\ Callbacks' /\ HasState' /\ AnswersAreStates'
    BY DEF Pipes, Callbacks, HasState, AnswersAreStates, Quitting, QuittingPCs, Begun
<1>2. TypeOK'
    BY DEF TypeOK
<1> QED
    BY <1>1, <1>2

\* Joined preserves the invariant.
LEMMA JoinedStep ==
    ASSUME Inv, Joined
    PROVE  Inv'
<1> USE DEF Inv, Joined, Joining, console, server, callbacks, wires, sPipe, ePipe
<1>1. Pipes' /\ Callbacks' /\ HasState' /\ AnswersAreStates'
    BY DEF Pipes, Callbacks, HasState, AnswersAreStates, Quitting, QuittingPCs, Begun
<1>2. TypeOK'
    BY DEF TypeOK
<1> QED
    BY <1>1, <1>2

\* Listen preserves the invariant.
LEMMA ListenStep ==
    ASSUME Inv, Listen
    PROVE  Inv'
<1> USE DEF Inv, Listen, console, server, callbacks, wires, sPipe, ePipe
<1>1. Pipes' /\ Callbacks' /\ HasState' /\ AnswersAreStates'
    BY DEF Pipes, Callbacks, HasState, AnswersAreStates, Quitting, QuittingPCs, Begun
<1>2. TypeOK'
    BY DEF TypeOK
<1> QED
    BY <1>1, <1>2

\* ListenEnds preserves the invariant.
LEMMA ListenEndsStep ==
    ASSUME Inv, ListenEnds
    PROVE  Inv'
<1> USE DEF Inv, ListenEnds, Joining, console, server, callbacks, wires, sPipe, ePipe
<1>1. Pipes' /\ Callbacks' /\ HasState' /\ AnswersAreStates'
    BY DEF Pipes, Callbacks, HasState, AnswersAreStates, Quitting, QuittingPCs, Begun
<1>2. TypeOK'
    BY DEF TypeOK
<1> QED
    BY <1>1, <1>2

\* ChangeMicrophone preserves the invariant.
LEMMA ChangeMicrophoneStep ==
    ASSUME Inv, ChangeMicrophone
    PROVE  Inv'
<1> USE DEF Inv, ChangeMicrophone, console, server, callbacks, wires, sPipe, ePipe
<1>1. Pipes' /\ Callbacks' /\ HasState' /\ AnswersAreStates'
    BY DEF Pipes, Callbacks, HasState, AnswersAreStates, Quitting, Begun
<1>2. TypeOK'
    BY DEF TypeOK
<1> QED
    BY <1>1, <1>2

\* GetState preserves the invariant.
LEMMA GetStateStep ==
    ASSUME Inv, GetState
    PROVE  Inv'
<1> USE DEF Inv, GetState, Scanner!Submit, Scanner!Become, Scanner!Outcomes, Fields, Reading,
      Changing, console, server, callbacks, wires, sPipe, ePipe
<1>1. Pipes' /\ Callbacks' /\ HasState'
    BY DEF Pipes, Callbacks, HasState
<1>2. TypeOK'
  <2>1. PICK v \in Reading : said' = [said EXCEPT ![cur] = [state |-> v, command |-> NoState]]
    OBVIOUS
  <2>2. v \in Values
    BY DEF TypeOK, Values
  <2>3. said' \in [ToScanner -> Fields]
    BY <2>1, <2>2 DEF TypeOK, Values
  <2> QED
    BY <2>3 DEF TypeOK
<1>3. AnswersAreStates'
  <2>1. PICK v \in Reading : said' = [said EXCEPT ![cur] = [state |-> v, command |-> NoState]]
    OBVIOUS
  <2>2. v \in States \/ overlapped' \/ Quitting'
    <3>1. con \in {"ready"} \cup QuittingPCs \/ Changing
      BY DEF TypeOK, Callbacks, QuittingPCs
    <3>2. CASE con = "ready"
      BY <2>1, <3>2 DEF HasState
    <3>3. CASE con \in QuittingPCs
      BY <3>3 DEF Quitting
    <3>4. CASE Changing
      BY <3>4, Zenon
    <3> QED
      BY <3>1, <3>2, <3>3, <3>4
  <2>3. cur \in Requests /\ said'[cur] = [state |-> v, command |-> NoState]
    BY <2>1 DEF TypeOK, Pipes, ToScanner
  <2>4. v \in States => Told(said'[cur]) \in States
    BY <2>3 DEF Told
  <2>5. ASSUME NEW r \in Requests, Begun(r)', r # cur
        PROVE  (Told(said[r]) \in States \/ overlapped \/ Quitting)'
    <3>1. said'[r] = said[r] /\ sOutcome'[r] = sOutcome[r]
      BY <2>1, <2>5
    <3>2. Told(said[r]) \in States \/ overlapped \/ Quitting
      BY <2>5, <3>1 DEF AnswersAreStates, Begun
    <3>3. (overlapped => overlapped') /\ (Quitting => Quitting')
      BY DEF Quitting
    <3> QED
      BY <3>1, <3>2, <3>3
  <2> QED
    BY <2>2, <2>3, <2>4, <2>5 DEF AnswersAreStates
<1> QED
    BY <1>1, <1>2, <1>3

\* StateReturns preserves the invariant.
LEMMA StateReturnsStep ==
    ASSUME Inv, StateReturns
    PROVE  Inv'
<1> USE DEF Inv, StateReturns, console, server, callbacks, wires, sPipe, ePipe
<1>1. Pipes' /\ Callbacks' /\ HasState' /\ AnswersAreStates'
    BY DEF Pipes, Callbacks, HasState, AnswersAreStates, Quitting, Begun
<1>2. TypeOK'
    BY DEF TypeOK
<1> QED
    BY <1>1, <1>2

\* CallOfNothing preserves the invariant.
LEMMA CallOfNothingStep ==
    ASSUME Inv, CallOfNothing
    PROVE  Inv'
<1> USE DEF Inv, CallOfNothing, console, server, callbacks, wires, sPipe, ePipe
<1>1. Pipes' /\ Callbacks' /\ HasState' /\ AnswersAreStates'
    BY DEF Pipes, Callbacks, HasState, AnswersAreStates, Quitting, QuittingPCs
<1>2. TypeOK'
    BY DEF TypeOK
<1> QED
    BY <1>1, <1>2

\* Incoming preserves the invariant.
LEMMA IncomingStep ==
    ASSUME Inv, NEW r \in Requests, Incoming(r)
    PROVE  Inv'
<1> USE DEF Inv, Incoming, Enova!Handle, console, server, callbacks, wires, sPipe, ePipe
<1>1. Pipes' /\ Callbacks' /\ HasState' /\ AnswersAreStates'
    BY DEF Pipes, Callbacks, HasState, AnswersAreStates, Quitting, Begun
<1>2. TypeOK'
  <2> DEFINE action == Parse(Compose(text[r].instr, text[r].index))
             set == IF action = Answer THEN getCb ELSE action # Nothing /\ micCb
  <2>1. did' = [did EXCEPT ![r] = IF set THEN action ELSE Nothing]
    OBVIOUS
  <2>2. text[r] \in Texts
    BY DEF TypeOK
  <2>3. action \in Actions /\ Nothing \in Actions
    BY <2>2, ParseIsAction DEF Actions
  <2>4. (IF set THEN action ELSE Nothing) \in Actions
    BY <2>3
  <2> HIDE DEF action, set
  <2>5. did' \in [Requests -> Actions]
    BY <2>1, <2>4 DEF TypeOK
  <2> QED
    BY <2>5 DEF TypeOK
<1> QED
    BY <1>1, <1>2

\* IncomingTooLate preserves the invariant.
LEMMA IncomingTooLateStep ==
    ASSUME Inv, NEW r \in Requests, IncomingTooLate(r)
    PROVE  Inv'
<1> USE DEF Inv, IncomingTooLate, Enova!Handle, console, server, callbacks,
      wires, sPipe, ePipe
<1>1. Pipes' /\ Callbacks' /\ HasState' /\ AnswersAreStates'
    BY DEF Pipes, Callbacks, HasState, AnswersAreStates, Quitting, QuittingPCs, Begun
<1>2. TypeOK'
    BY DEF TypeOK, Pipes
<1> QED
    BY <1>1, <1>2

\* SendScannerToEnova preserves the invariant.
LEMMA SendScannerToEnovaStep ==
    ASSUME Inv, NEW r \in Requests, SendScannerToEnova(r)
    PROVE  Inv'
<1> USE DEF Inv, SendScannerToEnova, Enova!Submit, Enova!Become, Enova!Outcomes, console,
      server, callbacks, wires, sPipe, ePipe
<1>1. Pipes' /\ Callbacks' /\ HasState' /\ AnswersAreStates'
    BY DEF Pipes, Callbacks, HasState, AnswersAreStates, Quitting, Begun
<1>2. TypeOK'
    BY DEF TypeOK, Pipes
<1> QED
    BY <1>1, <1>2

\* EnovaPipe preserves the invariant.
LEMMA EnovaPipeStep ==
    ASSUME Inv, NEW r \in Requests, EnovaPipe(r)
    PROVE  Inv'
<1> USE DEF Inv, EnovaPipe, Enova!Connect, Enova!Send, Enova!Return, Enova!Throw, Enova!Become,
      Enova!Outcomes, console, server, callbacks, wires, sPipe, ePipe
<1>1. Pipes' /\ Callbacks' /\ HasState' /\ AnswersAreStates'
    BY DEF Pipes, Callbacks, HasState, AnswersAreStates, Quitting, Begun
<1>2. TypeOK'
    BY DEF TypeOK, Pipes
<1> QED
    BY <1>1, <1>2

\* Release preserves the invariant.
LEMMA ReleaseStep ==
    ASSUME Inv, NEW r \in Requests, Release(r)
    PROVE  Inv'
<1> USE DEF Inv, Release, Enova!Connect, Enova!Become, Enova!Outcomes, console, server, callbacks,
      wires, sPipe, ePipe
<1>1. Pipes' /\ Callbacks' /\ HasState' /\ AnswersAreStates'
    BY DEF Pipes, Callbacks, HasState, AnswersAreStates, Quitting, QuittingPCs, Begun
<1>2. TypeOK'
    BY DEF TypeOK, Pipes
<1> QED
    BY <1>1, <1>2

\* Show preserves the invariant.
LEMMA ShowStep ==
    ASSUME Inv, NEW c \in ToScanner, Show(c)
    PROVE  Inv'
<1> USE DEF Inv, Show, Scanner!Handle, console, server, callbacks, wires, sPipe, ePipe
<1>1. Pipes' /\ Callbacks' /\ HasState' /\ AnswersAreStates'
    BY DEF Pipes, Callbacks, HasState, AnswersAreStates, Quitting, Begun
<1>2. TypeOK'
    BY DEF TypeOK
<1> QED
    BY <1>1, <1>2

\* ScannerPipe preserves the invariant.
LEMMA ScannerPipeStep ==
    ASSUME Inv, NEW c \in ToScanner, ScannerPipe(c)
    PROVE  Inv'
<1> USE DEF Inv, ScannerPipe, Scanner!Connect, Scanner!Send, Scanner!Return, Scanner!Throw,
      Scanner!Become, Scanner!Outcomes, console, server, callbacks, wires, sPipe, ePipe
<1>1. Pipes' /\ Callbacks' /\ HasState'
    BY DEF Pipes, Callbacks, HasState, Quitting
<1>2. TypeOK'
    BY DEF TypeOK
<1>3. AnswersAreStates'
    BY DEF AnswersAreStates, Pipes, Begun, Quitting, ToScanner
<1> QED
    BY <1>1, <1>2, <1>3

-----------------------------------------------------------------------------
\* The client under construction satisfies the invariant.
LEMMA InitInv == Init => Inv
<1> SUFFICES ASSUME Init PROVE Inv
    OBVIOUS
<1> USE DEF Init, Scanner!Init, Enova!Init
<1>1. TypeOK
    BY DEF TypeOK, Fields, Blank, Values, Actions
<1>2. Pipes
    BY DEF Pipes, Scanner!Outcomes, Enova!Outcomes
<1>3. Callbacks /\ HasState
    BY DEF Callbacks, HasState
<1>4. AnswersAreStates
    BY DEF AnswersAreStates, Begun, ToScanner
<1> QED
    BY <1>1, <1>2, <1>3, <1>4 DEF Inv

\* Every step of the client's threads, of the scanner application and of the pipes
\* preserves it.
LEMMA NextInv == Inv /\ [Next]_vars => Inv'
<1> SUFFICES ASSUME Inv, [Next]_vars PROVE Inv'
    OBVIOUS
<1>1. CASE UNCHANGED vars
  <2> USE <1>1 DEF Inv, vars, console, server, callbacks, wires, sPipe, ePipe
  <2>1. TypeOK' /\ Pipes'
    BY DEF TypeOK, Pipes
  <2>2. Callbacks' /\ HasState'
    BY DEF Callbacks, HasState, Quitting
  <2>3. AnswersAreStates'
    BY DEF AnswersAreStates, Begun, Quitting
  <2> QED
    BY <2>1, <2>2, <2>3
<1>2. CASE ConsoleNext \/ Select \/ Quit
    BY <1>2, SetGetStateCallbackStep, SetChangeMicrophoneCallbackStep, FirstAssignmentStep,
       CommandStep, CommandReturnsStep, DestroyCallbacksStep, StopStep, StopTooEarlyStep,
       JoinedStep, SelectStep, QuitStep DEF ConsoleNext
<1>3. CASE ServerNext
    BY <1>3, ListenStep, ListenEndsStep, ChangeMicrophoneStep, GetStateStep, StateReturnsStep,
       CallOfNothingStep DEF ServerNext
<1>4. CASE \E r \in Requests : Incoming(r) \/ IncomingTooLate(r)
    BY <1>4, IncomingStep, IncomingTooLateStep
<1>6. CASE \E r \in Requests : SendScannerToEnova(r) \/ EnovaPipe(r) \/ Release(r)
    BY <1>6, SendScannerToEnovaStep, EnovaPipeStep, ReleaseStep
<1>5. CASE \E c \in ToScanner : Show(c) \/ ScannerPipe(c)
    BY <1>5, ShowStep, ScannerPipeStep
<1> QED
    BY <1>1, <1>2, <1>3, <1>4, <1>5, <1>6 DEF Next

\* The invariant holds throughout.
LEMMA Invariance == Spec => []Inv
<1> QED
    BY InitInv, NextInv, PTL DEF Spec

\* The types of all variables.
THEOREM TypeCorrect == Spec => []TypeOK
<1>1. Inv => TypeOK
    BY DEF Inv
<1> QED
    BY <1>1, Invariance, PTL

\* GetState is answered with a state, but while the state changes or the client is being
\* destroyed (ScannerCommunicationTest.cpp:45-52, 85-88).
THEOREM Answers == Spec => []AnswersAreStates
<1>1. Inv => AnswersAreStates
    BY DEF Inv
<1> QED
    BY <1>1, Invariance, PTL

\* No callback is called before it is set, and none after its end, except in a client that
\* is being destroyed (ScannerCommunication.h:28-30, ScannerCommunication.cpp:43-61).
THEOREM CallbacksLive == Spec => []CallbackOutlivesCall
<1>1. Inv => CallbackOutlivesCall
    BY DEF Inv, Callbacks, CallbackOutlivesCall, Quitting, QuittingPCs
<1> QED
    BY <1>1, Invariance, PTL

\* A step that handles an instruction does what was meant by it.
LEMMA Understood ==
    ASSUME Inv, [Next]_vars, NEW r \in Requests,
           eHandled'[r] # eHandled[r], text[r].index \in -1..9,
           con \notin {"new", "hasGet"} \cup QuittingPCs
    PROVE  did'[r] = Meant(text[r])
<1>1. Incoming(r)
  <2> USE DEF Inv, TypeOK, Pipes, console, server, callbacks, wires, sPipe, ePipe
  <2>1. CASE UNCHANGED vars
    BY <2>1 DEF vars
  <2>2. CASE ConsoleNext \/ Select \/ Quit
    BY <2>2 DEF ConsoleNext, SetGetStateCallback, SetChangeMicrophoneCallback, FirstAssignment,
       Command, CommandReturns, DestroyCallbacks, Stop, StopTooEarly, Joined, Select, Quit
  <2>3. CASE ServerNext
    BY <2>3 DEF ServerNext, Listen, ListenEnds, ChangeMicrophone, GetState, StateReturns,
       CallOfNothing
  <2>4. ASSUME NEW q \in Requests, Incoming(q) \/ IncomingTooLate(q)
        PROVE  q = r /\ Incoming(q)
    BY <2>4 DEF Incoming, IncomingTooLate, Enova!Handle, QuittingPCs
  <2>5. ASSUME NEW q \in Requests, SendScannerToEnova(q) \/ EnovaPipe(q) \/ Release(q)
        PROVE  FALSE
    BY <2>5 DEF SendScannerToEnova, EnovaPipe, Release, Enova!Submit, Enova!Connect, Enova!Send,
       Enova!Return, Enova!Throw
  <2>6. CASE \E c \in ToScanner : Show(c) \/ ScannerPipe(c)
    BY <2>6 DEF Show, ScannerPipe
  <2> QED
    BY <2>1, <2>2, <2>3, <2>4, <2>5, <2>6 DEF Next
<1>2. text[r].instr \in Instructions
    BY <1>1 DEF Incoming, Enova!Handle, Inv, TypeOK, Texts
<1>3. Parse(Compose(text[r].instr, text[r].index)) = Meant(text[r])
    BY <1>2, OffsetsFit
<1>4. getCb /\ micCb
    BY DEF Inv, Callbacks
<1>5. Meant(text[r]) # Nothing
    BY DEF Meant, Answer, SetMicrophone, Nothing
<1> QED
    BY <1>1, <1>3, <1>4, <1>5 DEF Incoming, Inv, TypeOK

\* Once the client is constructed an instruction does in it what was meant in the scanner
\* (ScannerConnector.cpp:37, ScannerCommunication.cpp:42-58).
THEOREM Instructed == Spec => InstructionUnderstood
<1>1. ASSUME Inv, [Next]_vars
      PROVE  [\A r \in Requests :
                  eHandled'[r] # eHandled[r] /\ text[r].index \in -1..9
                  /\ con \notin {"new", "hasGet"} \cup QuittingPCs
                      => did'[r] = Meant(text[r])]_vars
    BY <1>1, Understood
<1> QED
    BY <1>1, Invariance, PTL DEF Spec, InstructionUnderstood

-----------------------------------------------------------------------------
\* What the threads of the two programs do to a pipe, and all that they see of it, is what
\* Delivery allows: each of its steps is taken by one party, the two processes' calls and
\* handlers or the pipe itself, and the other pipe is not touched.
LEMMA ScannerSteps ==
    ASSUME Inv, [Next]_vars
    PROVE  [Scanner!Next]_(Scanner!vars)
<1> USE DEF Scanner!vars, sPipe
<1>1. CASE UNCHANGED vars
    BY <1>1 DEF vars
<1>2. CASE ConsoleNext \/ Select \/ Quit
  <2>1. CASE Command
    BY <2>1 DEF Command, Scanner!Next, ToScanner
  <2>2. CASE ~Command
    BY <1>2, <2>2 DEF ConsoleNext, SetGetStateCallback, SetChangeMicrophoneCallback,
       FirstAssignment, CommandReturns, DestroyCallbacks, Stop, StopTooEarly, Joined, Select, Quit
  <2> QED
    BY <2>1, <2>2
<1>3. CASE ServerNext
  <2>1. CASE GetState
    BY <2>1 DEF GetState, Inv, Pipes, Scanner!Next, ToScanner
  <2>2. CASE ~GetState
    BY <1>3, <2>2 DEF ServerNext, Listen, ListenEnds, ChangeMicrophone, StateReturns, CallOfNothing
  <2> QED
    BY <2>1, <2>2
<1>4. ASSUME NEW r \in Requests,
             \/ Incoming(r) \/ IncomingTooLate(r)
             \/ SendScannerToEnova(r) \/ EnovaPipe(r) \/ Release(r)
      PROVE  UNCHANGED Scanner!vars
    BY <1>4 DEF Incoming, IncomingTooLate, SendScannerToEnova, EnovaPipe, Release
<1>5. ASSUME NEW c \in ToScanner, Show(c) \/ ScannerPipe(c)
      PROVE  Scanner!Next
    BY <1>5 DEF Show, ScannerPipe, Scanner!Next
<1> QED
    BY <1>1, <1>2, <1>3, <1>4, <1>5 DEF Next

LEMMA EnovaSteps ==
    ASSUME [Next]_vars
    PROVE  [Enova!Next]_(Enova!vars)
<1> USE DEF Enova!vars, ePipe
<1>1. CASE UNCHANGED vars
    BY <1>1 DEF vars
<1>2. CASE ConsoleNext \/ Select \/ Quit
    BY <1>2 DEF ConsoleNext, SetGetStateCallback, SetChangeMicrophoneCallback, FirstAssignment,
       Command, CommandReturns, DestroyCallbacks, Stop, StopTooEarly, Joined, Select, Quit
<1>3. CASE ServerNext
    BY <1>3 DEF ServerNext, Listen, ListenEnds, ChangeMicrophone, GetState, StateReturns,
       CallOfNothing
<1>4. ASSUME NEW r \in Requests,
             \/ Incoming(r) \/ IncomingTooLate(r)
             \/ SendScannerToEnova(r) \/ EnovaPipe(r) \/ Release(r)
      PROVE  Enova!Next
    BY <1>4 DEF Incoming, IncomingTooLate, SendScannerToEnova, EnovaPipe, Release, Enova!Next
<1>5. ASSUME NEW c \in ToScanner, Show(c) \/ ScannerPipe(c)
      PROVE  UNCHANGED Enova!vars
    BY <1>5 DEF Show, ScannerPipe
<1> QED
    BY <1>1, <1>2, <1>3, <1>4, <1>5 DEF Next

\* Client and scanner use each of their two pipes as Delivery allows, so that what is
\* proved of Delivery holds of both (TwoWayCommunicator.cpp:16-24, ScannerConnector.cpp:35-51).
THEOREM PipesAreDeliveries == Spec => Scanner!Spec /\ Enova!Spec
<1>1. Init => Scanner!Init /\ Enova!Init
    BY DEF Init
<1> QED
    BY <1>1, ScannerSteps, EnovaSteps, Invariance, PTL DEF Spec, Scanner!Spec, Enova!Spec
============================================================================
