----------------------- MODULE ScannerLinkOrderProofs -----------------------
(***************************************************************************)
(* What the scanner shows in the end, for any number of calls: module      *)
(* Delivery lets a call be lost and be handled long after it returned, but *)
(* never after one that connected later, and so what the scanner is left   *)
(* with is what the client's console thread told it last.                  *)
(***************************************************************************)
EXTENDS ScannerLinkProofs

USE LinkAssumption

-----------------------------------------------------------------------------
\* The call tells the state that the client is in.
Current(c) == Told(said[c]) = mCurrentState

Connected(c) == sOutcome[c] \in {"connected", "sent", "ok", "dead"}

\* Each of the client's threads makes one call at a time.
OneCallEach ==
    \A c \in ToScanner : Begun(c) =>
        \/ Ended(sOutcome[c])
        \/ con = "call" /\ c = tell
        \/ srv = "send" /\ c = cur

\* Nothing is handled before it was sent.
SentFirst ==
    \A c \in ToScanner : sOutcome[c] \in {"idle", "calling", "connected"} => sHandled[c] = 0

\* No answer is on its way before the first callback is set, nor while the state changes,
\* but for those that overlap.
Alone == con = "new" \/ (Changing /\ ~overlapped) => srv # "send"

\* The constructor tells nothing, and no answer is given during it.
NothingYet ==
    con \in {"new", "hasGet", "first"} /\ ~overlapped
        => \A c \in ToScanner : ~Begun(c)

\* tell is the console thread's last call.
TellIsLast ==
    /\ (\E t \in Tells : Begun(t)) => tell \in Tells /\ Begun(tell)
    /\ con = "call" => tell \in Tells /\ Begun(tell)

\* The console thread's last call told the state the client is in.  Once the scanner has
\* handled it, it shows that state: calls that tell another one had ended when it began,
\* so they are ahead of it, and can be handled no more.
TellIsShown ==
    con \in {"call", "ready"} /\ ~overlapped /\ tell \in Tells /\ Begun(tell) =>
        /\ Current(tell)
        /\ sHandled[tell] = 1 => Told(shown) = mCurrentState
        /\ \A c \in ToScanner : Begun(c) /\ ~Current(c) =>
              /\ Ended(sOutcome[c])
              /\ Connected(tell) \/ sHandled[tell] = 1 => c \in sAhead[tell]

\* Before the console thread's first call, all calls are answers, and tell the state that
\* the constructor assigned.
AnswerIsShown ==
    con = "ready" /\ ~overlapped /\ (\A t \in Tells : ~Begun(t)) =>
        \A c \in ToScanner :
            /\ Begun(c) => Current(c)
            /\ sHandled[c] = 1 => Told(shown) = mCurrentState

Order ==
    /\ OneCallEach
    /\ SentFirst
    /\ Alone
    /\ NothingYet
    /\ TellIsLast
    /\ TellIsShown
    /\ AnswerIsShown

\* A step is aside when it concerns neither what was told to the scanner nor by whom.
Aside ==
    /\ srv = "send" \/ srv' = "send" => UNCHANGED <<srv, cur>>
    /\ UNCHANGED <<con, tell, mCurrentState, said, shown, overlapped, sOutcome, sHandled, sAhead>>

\* A step aside keeps the order.
LEMMA AsideOrder ==
    ASSUME Order, Aside
    PROVE  Order'
<1> USE DEF Order, Aside
<1>1. OneCallEach' /\ SentFirst' /\ Alone' /\ NothingYet' /\ TellIsLast'
    BY DEF OneCallEach, SentFirst, Alone, NothingYet, TellIsLast, Begun, Changing
<1>2. TellIsShown' /\ AnswerIsShown'
    BY DEF TellIsShown, AnswerIsShown, Begun, Current, Connected, Told
<1> QED
    BY <1>1, <1>2

\* The steps of the instructions' pipe and of what an instruction does, but for answers.
LEMMA InstructionsAside ==
    ASSUME \/ UNCHANGED vars
           \/ Listen \/ ListenEnds \/ ChangeMicrophone
           \/ \E r \in Requests : Incoming(r)
           \/ \E r \in Requests : SendScannerToEnova(r) \/ EnovaPipe(r) \/ Release(r)
    PROVE  Aside
<1> USE DEF Aside, console, server, callbacks, wires, sPipe
<1>1. CASE UNCHANGED vars
    BY <1>1 DEF vars
<1>2. CASE Listen \/ ListenEnds \/ ChangeMicrophone
    BY <1>2 DEF Listen, ListenEnds, ChangeMicrophone
<1>3. ASSUME NEW r \in Requests, Incoming(r) PROVE Aside
    BY <1>3 DEF Incoming
<1>4. ASSUME NEW r \in Requests, SendScannerToEnova(r) \/ EnovaPipe(r) \/ Release(r)
      PROVE  Aside
    BY <1>4 DEF SendScannerToEnova, EnovaPipe, Release
<1> QED
    BY <1>1, <1>2, <1>3, <1>4

\* The steps of the client's end keep the order: nothing is said of what the scanner shows
\* then, and no call is made that was not made before.
LEMMA EndOrder ==
    ASSUME Inv, Order,
           \/ Quit \/ DestroyCallbacks \/ Stop \/ StopTooEarly \/ Joined \/ CallOfNothing
           \/ \E r \in Requests : IncomingTooLate(r)
    PROVE  Order'
<1>1. /\ con # "call" /\ con' \in QuittingPCs
      /\ srv = "send" <=> srv' = "send"
      /\ UNCHANGED <<tell, cur, overlapped, sOutcome, sHandled>>
    BY DEF Quit, DestroyCallbacks, Stop, StopTooEarly, Joined, Joining, CallOfNothing,
       IncomingTooLate, Step, Inv, Callbacks, Quitting, QuittingPCs, console, server, wires, sPipe
<1>2. OneCallEach' /\ SentFirst' /\ TellIsLast'
    BY <1>1 DEF Order, OneCallEach, SentFirst, TellIsLast, Begun, QuittingPCs
<1>3. Alone' /\ NothingYet' /\ TellIsShown' /\ AnswerIsShown'
    BY <1>1 DEF Alone, Changing, NothingYet, TellIsShown, AnswerIsShown, QuittingPCs
<1> QED
    BY <1>2, <1>3 DEF Order

\* SetGetStateCallback keeps the order.
LEMMA SetGetStateCallbackOrder ==
    ASSUME Inv, Order, SetGetStateCallback
    PROVE  Order'
<1> USE DEF Inv, Order, SetGetStateCallback, Step, console, server, callbacks, wires, sPipe, ePipe
<1>1. OneCallEach' /\ SentFirst' /\ Alone' /\ NothingYet' /\ TellIsLast' /\ TellIsShown' /\
      AnswerIsShown'
    BY DEF OneCallEach, SentFirst, Alone, NothingYet, TellIsLast, TellIsShown, AnswerIsShown, Begun
<1> QED
    BY <1>1

\* SetChangeMicrophoneCallback keeps the order.
LEMMA SetChangeMicrophoneCallbackOrder ==
    ASSUME Inv, Order, SetChangeMicrophoneCallback
    PROVE  Order'
<1> USE DEF Inv, Order, SetChangeMicrophoneCallback, Step, console, server, callbacks, wires, sPipe,
      ePipe
<1>1. OneCallEach' /\ SentFirst' /\ Alone' /\ NothingYet' /\ TellIsLast' /\ TellIsShown' /\
      AnswerIsShown'
    BY DEF OneCallEach, SentFirst, Alone, NothingYet, TellIsLast, TellIsShown, AnswerIsShown,
       Begun, Changing
<1> QED
    BY <1>1

\* FirstAssignment keeps the order.
LEMMA FirstAssignmentOrder ==
    ASSUME Inv, Order, FirstAssignment
    PROVE  Order'
<1> USE DEF Inv, Order, FirstAssignment, Step, console, server, callbacks, wires, sPipe, ePipe
<1>1. OneCallEach' /\ SentFirst' /\ Alone' /\ NothingYet' /\ TellIsLast'
    BY DEF OneCallEach, SentFirst, Alone, NothingYet, TellIsLast, Begun, Changing
<1>2. TellIsShown'
    BY DEF TellIsShown, NothingYet, Begun, ToScanner
<1>3. AnswerIsShown'
    BY DEF AnswerIsShown, NothingYet, SentFirst, Begun
<1> QED
    BY <1>1, <1>2, <1>3

\* Select keeps the order.
LEMMA SelectOrder ==
    ASSUME Inv, Order, Select
    PROVE  Order'
<1> USE DEF Inv, Order, Select, Step, console, server, callbacks, wires, sPipe, ePipe
<1>1. OneCallEach' /\ SentFirst' /\ Alone' /\ NothingYet' /\ TellIsLast' /\ TellIsShown' /\
      AnswerIsShown'
    BY DEF OneCallEach, SentFirst, Alone, NothingYet, TellIsLast, TellIsShown, AnswerIsShown, Begun
<1> QED
    BY <1>1

\* Command keeps the order.
LEMMA CommandOrder ==
    ASSUME Inv, Order, Command
    PROVE  Order'
<1> USE DEF Inv, Order, Command, Step, Scanner!Submit, Scanner!Become, Scanner!Outcomes, Fields,
      console, server, callbacks, wires, sPipe, ePipe
<1>1. OneCallEach' /\ SentFirst' /\ Alone' /\ NothingYet' /\ AnswerIsShown'
    BY DEF OneCallEach, SentFirst, Alone, NothingYet, AnswerIsShown, Begun, Changing
<1>2. TellIsLast'
    BY DEF Pipes, TellIsLast, Begun, ToScanner
<1>3. TellIsShown'
  <2> SUFFICES ASSUME ~overlapped
               PROVE  /\ Current(tell)'
                      /\ sHandled[tell'] # 1
                      /\ \A c \in ToScanner : Begun(c)' /\ ~Current(c)' =>
                            /\ Ended(sOutcome'[c])
                            /\ Connected(tell)' \/ sHandled[tell'] = 1 => c \in sAhead[tell']
    BY DEF TellIsShown
  <2>1. tell' \in ToScanner /\ sOutcome[tell'] = "idle" /\ sOutcome'[tell'] = "calling"
    BY DEF Pipes, ToScanner
  <2>2. sHandled[tell'] = 0 /\ ~Connected(tell)'
    BY <2>1 DEF SentFirst, Connected
  <2>3. Current(tell)'
    BY <2>1 DEF TypeOK, Current, Told
  <2>4. \A c \in ToScanner : Begun(c) => Ended(sOutcome[c])
    BY DEF OneCallEach, Alone, Changing
  <2>5. \A c \in ToScanner : Begun(c)' /\ c # tell' => Ended(sOutcome'[c])
    BY <2>4 DEF Begun
  <2> QED
    BY <2>2, <2>3, <2>5
<1> QED
    BY <1>1, <1>2, <1>3

\* CommandReturns keeps the order.
LEMMA CommandReturnsOrder ==
    ASSUME Inv, Order, CommandReturns
    PROVE  Order'
<1> USE DEF Inv, Order, CommandReturns, Step, console, server, callbacks, wires, sPipe, ePipe
<1>1. OneCallEach' /\ SentFirst' /\ Alone' /\ NothingYet' /\ TellIsLast' /\ TellIsShown'
    BY DEF OneCallEach, SentFirst, Alone, NothingYet, TellIsLast, TellIsShown, Begun, Changing,
       Current, Connected
<1>2. AnswerIsShown'
    BY DEF AnswerIsShown, TellIsLast, Begun
<1> QED
    BY <1>1, <1>2

\* GetState keeps the order.
LEMMA GetStateOrder ==
    ASSUME Inv, Order, GetState
    PROVE  Order'
<1> USE DEF Inv, Order, GetState, Scanner!Submit, Scanner!Become, console, server, callbacks,
      wires, sPipe, ePipe
<1>1. OneCallEach' /\ SentFirst' /\ Alone'
  <2>1. OneCallEach'
    BY DEF OneCallEach, Begun
  <2>2. SentFirst'
    BY DEF SentFirst
  <2>3. Alone'
    BY DEF Alone, Callbacks, Changing
  <2> QED
    BY <2>1, <2>2, <2>3
<1>2. NothingYet'
    BY DEF NothingYet, Callbacks, Changing
<1>3. TellIsLast'
  <2>1. cur \in Requests
    BY DEF Pipes
  <2>2. \A t \in Tells : sOutcome'[t] = sOutcome[t]
    BY <2>1
  <2> QED
    BY <2>2 DEF TellIsLast, Begun
\* An answer that does not overlap a change tells the state that the client is in.
<1>4. /\ cur \in Requests /\ cur \notin Tells /\ sOutcome[cur] = "idle" /\ sHandled[cur] = 0
      /\ \A c \in ToScanner \ {cur} : sOutcome'[c] = sOutcome[c] /\ said'[c] = said[c]
      /\ con = "ready" => Current(cur)'
  <2>1. cur \in Requests /\ cur \notin Tells /\ sOutcome[cur] = "idle" /\ sHandled[cur] = 0
    BY DEF Pipes, SentFirst, ToScanner
  <2>2. PICK v \in Reading : said' = [said EXCEPT ![cur] = [state |-> v, command |-> NoState]]
    OBVIOUS
  <2>3. \A c \in ToScanner \ {cur} : sOutcome'[c] = sOutcome[c] /\ said'[c] = said[c]
    BY <2>2
  <2>4. ASSUME con = "ready" PROVE Current(cur)'
    <3>1. v = mCurrentState /\ v \in States
      BY <2>4 DEF Reading, HasState
    <3>2. said'[cur] = [state |-> v, command |-> NoState]
      BY <2>1, <2>2 DEF TypeOK, ToScanner
    <3> QED
      BY <3>1, <3>2 DEF Current, Told
  <2> QED
    BY <2>1, <2>3, <2>4
<1>5. TellIsShown'
  <2> SUFFICES ASSUME con \in {"call", "ready"}, ~overlapped', tell \in Tells, Begun(tell)'
               PROVE  /\ Current(tell)'
                      /\ sHandled[tell] = 1 => Told(shown) = mCurrentState
                      /\ \A c \in ToScanner : Begun(c)' /\ ~Current(c)' =>
                            /\ Ended(sOutcome'[c])
                            /\ Connected(tell)' \/ sHandled[tell] = 1 => c \in sAhead[tell]
    BY DEF TellIsShown
  <2>1. con = "ready" /\ ~overlapped
    BY DEF Changing
  <2>2. tell # cur /\ Begun(tell)
    BY <1>4 DEF Begun
  <2>3. /\ Current(tell)
        /\ sHandled[tell] = 1 => Told(shown) = mCurrentState
        /\ \A c \in ToScanner : Begun(c) /\ ~Current(c) =>
              /\ Ended(sOutcome[c])
              /\ Connected(tell) \/ sHandled[tell] = 1 => c \in sAhead[tell]
    BY <2>1, <2>2 DEF TellIsShown
  <2>4. Current(cur)'
    BY <1>4, <2>1
  <2>5. \A c \in ToScanner \ {cur} :
            /\ Begun(c)' <=> Begun(c)
            /\ Current(c)' <=> Current(c)
            /\ Connected(c)' <=> Connected(c)
    BY <1>4 DEF Begun, Current, Connected
  <2> QED
    BY <1>4, <2>2, <2>3, <2>4, <2>5 DEF ToScanner
<1>6. AnswerIsShown'
  <2> SUFFICES ASSUME con = "ready", ~overlapped', \A t \in Tells : ~Begun(t)',
                      NEW c \in ToScanner
               PROVE  /\ Begun(c)' => Current(c)'
                      /\ sHandled[c] = 1 => Told(shown) = mCurrentState
    BY DEF AnswerIsShown
  <2>1. \A t \in Tells : ~Begun(t)
    BY <1>4 DEF Begun
  <2>2. /\ Begun(c) => Current(c)
        /\ sHandled[c] = 1 => Told(shown) = mCurrentState
    BY <2>1 DEF AnswerIsShown
  <2>3. CASE c = cur
    BY <1>4, <2>2, <2>3
  <2>4. CASE c # cur
    BY <1>4, <2>2, <2>4 DEF Begun, Current
  <2> QED
    BY <2>3, <2>4
<1> QED
    BY <1>1, <1>2, <1>3, <1>5, <1>6

\* StateReturns keeps the order.
LEMMA StateReturnsOrder ==
    ASSUME Inv, Order, StateReturns
    PROVE  Order'
<1> USE DEF Inv, Order, StateReturns, console, server, callbacks, wires, sPipe, ePipe
<1>1. OneCallEach' /\ SentFirst' /\ Alone' /\ NothingYet' /\ TellIsLast' /\ TellIsShown' /\
      AnswerIsShown'
    BY DEF OneCallEach, SentFirst, Alone, NothingYet, TellIsLast, TellIsShown, AnswerIsShown,
       Begun, Current, Connected
<1> QED
    BY <1>1

\* Show keeps the order.
LEMMA ShowOrder ==
    ASSUME Inv, Order, NEW c \in ToScanner, Show(c)
    PROVE  Order'
<1> USE DEF Inv, Order, Show, Scanner!Handle, console, server, callbacks, wires, sPipe, ePipe
<1>1. OneCallEach' /\ SentFirst' /\ Alone' /\ NothingYet' /\ TellIsLast' /\ AnswerIsShown'
    BY DEF OneCallEach, SentFirst, Alone, NothingYet, TellIsLast, AnswerIsShown, Begun, Changing,
       Current
<1>2. TellIsShown'
  <2> SUFFICES ASSUME con \in {"call", "ready"}, ~overlapped, tell \in Tells, Begun(tell)
               PROVE  /\ Current(tell)
                      /\ sHandled'[tell] = 1 => Told(shown') = mCurrentState
                      /\ \A d \in ToScanner : Begun(d) /\ ~Current(d) =>
                            /\ Ended(sOutcome[d])
                            /\ Connected(tell) \/ sHandled'[tell] = 1 => d \in sAhead[tell]
    BY DEF TellIsShown, Begun, Current, Connected
  <2>1. /\ Current(tell)
        /\ \A d \in ToScanner : Begun(d) /\ ~Current(d) =>
              /\ Ended(sOutcome[d])
              /\ Connected(tell) \/ sHandled[tell] = 1 => d \in sAhead[tell]
    BY DEF TellIsShown
  <2>2. CASE c = tell
    <3>1. Told(shown') = mCurrentState
      BY <2>1, <2>2 DEF Current
    <3>2. Connected(tell)
      BY <2>2 DEF Connected
    <3> QED
      BY <2>1, <3>1, <3>2
  <2>3. CASE c # tell
    <3>1. sHandled'[tell] = sHandled[tell]
      BY <2>3
    <3>2. sHandled[tell] = 1 => c \notin sAhead[tell]
      BY DEF ToScanner
    <3>3. sHandled[tell] = 1 => Current(c)
      BY <2>1, <3>2 DEF Begun
    <3>4. sHandled[tell] = 1 => Told(shown') = mCurrentState
      BY <3>3 DEF Current
    <3> QED
      BY <2>1, <3>1, <3>4
  <2> QED
    BY <2>2, <2>3
<1> QED
    BY <1>1, <1>2

\* ScannerPipe keeps the order.
LEMMA ScannerPipeOrder ==
    ASSUME Inv, Order, NEW c \in ToScanner, ScannerPipe(c)
    PROVE  Order'
<1> USE DEF Inv, Order, ScannerPipe, Scanner!Connect, Scanner!Send, Scanner!Return, Scanner!Throw,
      Scanner!Become, Scanner!Outcomes, console, server, callbacks, wires, sPipe, ePipe
<1>1. Alone' /\ NothingYet'
    BY DEF Alone, NothingYet, Changing, Begun
<1>2. OneCallEach'
    BY DEF Pipes, OneCallEach, Begun, Ended
<1>3. SentFirst'
    BY DEF Pipes, SentFirst
<1>4. TellIsLast'
    BY DEF Pipes, TellIsLast, Begun, ToScanner
<1>5. TellIsShown'
    BY DEF Pipes, TellIsShown, Begun, Ended, ToScanner, Current, Connected
<1>6. AnswerIsShown'
    BY DEF Pipes, AnswerIsShown, Begun, ToScanner, Current
<1> QED
    BY <1>1, <1>2, <1>3, <1>4, <1>5, <1>6

-----------------------------------------------------------------------------
\* Nothing has been told before the constructor has run.
LEMMA InitOrder == Init => Order
<1> SUFFICES ASSUME Init PROVE Order
    OBVIOUS
<1> USE DEF Init, Scanner!Init
<1>1. \A c \in ToScanner : ~Begun(c) /\ sHandled[c] = 0
    BY DEF Begun
<1>2. con = "new" /\ srv = "unborn"
    OBVIOUS
<1> QED
    BY <1>1, <1>2 DEF Order, OneCallEach, SentFirst, Alone, NothingYet, TellIsLast, TellIsShown,
       AnswerIsShown, ToScanner

\* Every step keeps the order.
LEMMA NextOrder == Inv /\ Order /\ [Next]_vars => Order'
<1> SUFFICES ASSUME Inv, Order, [Next]_vars PROVE Order'
    OBVIOUS
<1>1. CASE UNCHANGED vars
    BY <1>1, InstructionsAside, AsideOrder
<1>2. CASE ConsoleNext \/ Select \/ Quit
    BY <1>2, SetGetStateCallbackOrder, SetChangeMicrophoneCallbackOrder, FirstAssignmentOrder,
       SelectOrder, CommandOrder, CommandReturnsOrder, EndOrder
       DEF ConsoleNext
<1>3. CASE ServerNext
    BY <1>3, InstructionsAside, AsideOrder, GetStateOrder, StateReturnsOrder, EndOrder
       DEF ServerNext
<1>4. CASE \E r \in Requests : Incoming(r) \/ IncomingTooLate(r)
    BY <1>4, InstructionsAside, AsideOrder, EndOrder
<1>6. CASE \E r \in Requests : SendScannerToEnova(r) \/ EnovaPipe(r) \/ Release(r)
    BY <1>6, InstructionsAside, AsideOrder
<1>5. CASE \E c \in ToScanner : Show(c) \/ ScannerPipe(c)
    BY <1>5, ShowOrder, ScannerPipeOrder
<1> QED
    BY <1>1, <1>2, <1>3, <1>4, <1>5, <1>6 DEF Next

\* The order is kept throughout.
LEMMA OrderInvariance == Spec => []Order
<1> QED
    BY InitOrder, NextOrder, Invariance, PTL DEF Spec

\* As soon as the scanner has handled what the console thread told it last it shows the
\* state the client is in, whatever became of the calls before, and whatever answers are
\* still on their way; unless one was given while the state changed
\* (ScannerCommunicationTest.cpp:73-75, 85-88).
LastTellIsShown ==
    /\ con = "ready" /\ tell \in Tells /\ Begun(tell) /\ sHandled[tell] = 1
    /\ ~overlapped
    => Told(shown) = mCurrentState

THEOREM ShowsLastTell == Spec => []LastTellIsShown
<1>1. Order => LastTellIsShown
    BY DEF Order, TellIsShown, LastTellIsShown
<1> QED
    BY <1>1, OrderInvariance, PTL

\* When everything sent to the scanner has arrived, it shows the state the client is in
\* (ScannerCommunicationTest.cpp:73-75, 85-88).
THEOREM ShowsCurrent == Spec => []ShownIsCurrent
<1>1. Order => ShownIsCurrent
  <2> SUFFICES ASSUME Order, con = "ready", ~overlapped,
                      \A c \in ToScanner : Begun(c) => sHandled[c] = 1,
                      \E c \in ToScanner : Begun(c)
               PROVE  Told(shown) = mCurrentState
    BY DEF ShownIsCurrent
  <2>1. CASE \E t \in Tells : Begun(t)
    BY <2>1 DEF Order, TellIsLast, TellIsShown, ToScanner
  <2>2. CASE \A t \in Tells : ~Begun(t)
    BY <2>2 DEF Order, AnswerIsShown
  <2> QED
    BY <2>1, <2>2
<1> QED
    BY <1>1, OrderInvariance, PTL
============================================================================
