--------------------------- MODULE DeliveryProofs ---------------------------
(***************************************************************************)
(* What the header of Delivery says in words, as theorems about its        *)
(* specification.  They are about any number of calls, and hold of every   *)
(* module that implements Delivery.                                        *)
(***************************************************************************)
EXTENDS Delivery, TLAPS

TypeOK ==
    /\ outcome \in [Calls -> Outcomes]
    /\ handled \in [Calls -> {0, 1}]
    /\ ahead \in [Calls -> SUBSET Calls]
    /\ waits \in [Calls -> BOOLEAN]

\* A request is handled at most once, and only after it was sent.
SentFirst ==
    \A c \in Calls :
        /\ handled[c] \in {0, 1}
        /\ handled[c] = 1 => outcome[c] \in {"sent", "ok", "threw", "dead"}

\* A call that waits for a response returns only once its request was handled.
OkMeansHandled ==
    \A c \in Calls : outcome[c] = "ok" /\ waits[c] => handled[c] = 1

\* The calls that are known to have connected.  A call that threw may have done so before.
HasConnected(c) == outcome[c] \in {"connected", "sent", "ok", "dead"} \/ handled[c] = 1

\* The order of the connections: no call is ahead of itself, and of two calls that
\* connected one is ahead of the other, and of all that the other is ahead of.
AheadIsAnOrder ==
    /\ \A c \in Calls : c \notin ahead[c]
    /\ \A c, d \in Calls : d \in ahead[c] => ahead[d] \subseteq ahead[c]
    /\ \A c, d \in Calls :
           HasConnected(c) /\ HasConnected(d) => c = d \/ c \in ahead[d] \/ d \in ahead[c]

\* Who is ahead or has somebody ahead is no longer calling.
Past ==
    \A c, d \in Calls :
        c \in ahead[d] =>
            outcome[c] \notin {"idle", "calling"} /\ outcome[d] \notin {"idle", "calling"}

\* A request that was overtaken by that of a later call is never handled.
OvertakenIsLost ==
    \A c, d \in Calls : c \in ahead[d] /\ handled[d] = 1 => handled'[c] = handled[c]

\* Once a call has thrown its request is not handled any more.
NotAfterThrow ==
    \A c \in Calls : outcome[c] = "threw" => outcome'[c] = "threw" /\ handled'[c] = handled[c]

Inv == TypeOK /\ SentFirst /\ OkMeansHandled /\ Past /\ AheadIsAnOrder

-----------------------------------------------------------------------------
\* The initial states satisfy the invariant.
LEMMA InitInv ==
    ASSUME Init
    PROVE  Inv
  BY DEF Init, Inv, TypeOK, Outcomes, SentFirst, OkMeansHandled, Past, AheadIsAnOrder, HasConnected

\* A call that connects comes after all that were no longer calling.
LEMMA ConnectInv ==
    ASSUME Inv, NEW c \in Calls, Connect(c)
    PROVE  Inv'
  <1> USE DEF Inv, Connect, Become
  <1>1. TypeOK'
    BY DEF TypeOK, Outcomes
  <1>2. /\ \A d \in Calls : outcome'[d] = IF d = c THEN "connected" ELSE outcome[d]
        /\ \A d \in Calls :
               ahead'[d] = IF d = c THEN {e \in Calls : outcome[e] \notin {"idle", "calling"}}
                           ELSE ahead[d]
        /\ outcome[c] = "calling"
        /\ handled' = handled /\ waits' = waits
    BY DEF TypeOK
  <1> HIDE DEF Connect, Become
  <1>3. SentFirst' /\ OkMeansHandled'
    BY <1>2 DEF SentFirst, OkMeansHandled
  <1>4. Past'
    BY <1>2 DEF Past
  <1>5. AheadIsAnOrder'
    <2>1. ASSUME NEW d \in Calls
          PROVE  d \notin ahead'[d]
      <3>1. CASE d = c
        BY <1>2, <3>1
      <3>2. CASE d # c
        BY <1>2, <3>2 DEF AheadIsAnOrder
      <3> QED
        BY <3>1, <3>2
    <2>2. ASSUME NEW d \in Calls, NEW e \in Calls, e \in ahead'[d]
          PROVE  ahead'[e] \subseteq ahead'[d]
      <3>1. e # c
        BY <1>2, <2>2 DEF Past
      <3>2. CASE d = c
        BY <1>1, <1>2, <2>2, <3>1, <3>2 DEF Past, TypeOK
      <3>3. CASE d # c
        BY <1>2, <2>2, <3>1, <3>3 DEF AheadIsAnOrder
      <3> QED
        BY <3>2, <3>3
    <2>3. ASSUME NEW d \in Calls, NEW e \in Calls, HasConnected(d)', HasConnected(e)'
          PROVE  d = e \/ d \in ahead'[e] \/ e \in ahead'[d]
      <3>1. \A f \in Calls : f # c /\ HasConnected(f)' => HasConnected(f) /\ f \in ahead'[c]
        BY <1>2 DEF HasConnected, SentFirst
      <3> QED
        BY <1>2, <2>3, <3>1 DEF AheadIsAnOrder
    <2> QED
      BY <2>1, <2>2, <2>3 DEF AheadIsAnOrder
  <1> QED
    BY <1>1, <1>3, <1>4, <1>5

\* The other steps leave the order alone.
LEMMA StepInv ==
    ASSUME Inv, NEW c \in Calls,
           Submit(c) \/ Send(c) \/ Handle(c) \/ Return(c) \/ Throw(c) \/ Die(c)
    PROVE  Inv'
  <1> USE DEF Inv, Submit, Send, Handle, Return, Throw, Die, Become
  <1>1. TypeOK'
    BY DEF TypeOK, Outcomes
  <1>2. SentFirst'
    BY DEF TypeOK, SentFirst
  <1>3. OkMeansHandled'
    BY DEF TypeOK, OkMeansHandled
  <1>4. Past'
    BY DEF TypeOK, Past
  <1>5. ahead' = ahead /\ \A d \in Calls : HasConnected(d)' => HasConnected(d)
    BY DEF TypeOK, HasConnected
  <1>6. AheadIsAnOrder'
    BY <1>5 DEF AheadIsAnOrder
  <1> QED
    BY <1>1, <1>2, <1>3, <1>4, <1>6

\* The invariant holds throughout.
THEOREM Invariance == Spec => []Inv
  <1>1. Inv /\ UNCHANGED vars => Inv'
    BY DEF Inv, vars, TypeOK, SentFirst, OkMeansHandled, Past, AheadIsAnOrder, HasConnected
  <1>2. Inv /\ [Next]_vars => Inv'
    BY <1>1, ConnectInv, StepInv DEF Next
  <1> QED
    BY <1>2, InitInv, PTL DEF Spec

\* What the header says of states: at most one delivery, after the request was sent; no
\* return of a call that waits before it; one order of all connections.
THEOREM StatesKept == Spec => [](SentFirst /\ OkMeansHandled /\ AheadIsAnOrder)
  <1>1. Inv => SentFirst /\ OkMeansHandled /\ AheadIsAnOrder
    BY DEF Inv
  <1> QED
    BY <1>1, Invariance, PTL

\* What no step does.
LEMMA StepKept ==
    ASSUME Inv, [Next]_vars
    PROVE  OvertakenIsLost /\ NotAfterThrow
  <1>1. CASE UNCHANGED vars
    BY <1>1 DEF vars, OvertakenIsLost, NotAfterThrow
  <1>2. ASSUME NEW c \in Calls,
               Submit(c) \/ Connect(c) \/ Send(c) \/ Return(c) \/ Throw(c) \/ Die(c)
        PROVE  OvertakenIsLost /\ NotAfterThrow
    BY <1>2 DEF Inv, TypeOK, OvertakenIsLost, NotAfterThrow, Submit, Connect, Send, Return,
       Throw, Die, Become
  <1>3. ASSUME NEW c \in Calls, Handle(c)
        PROVE  OvertakenIsLost /\ NotAfterThrow
    BY <1>3 DEF Inv, TypeOK, OvertakenIsLost, NotAfterThrow, Handle
  <1> QED
    BY <1>1, <1>2, <1>3 DEF Next

\* What the header says of steps: requests are handled in the order of their connections,
\* and that of a call which threw never afterwards.
THEOREM StepsKept == Spec => [][OvertakenIsLost /\ NotAfterThrow]_vars
  <1>1. Inv /\ [Next]_vars => [OvertakenIsLost /\ NotAfterThrow]_vars
    BY StepKept
  <1> QED
    BY <1>1, Invariance, PTL DEF Spec
=============================================================================
