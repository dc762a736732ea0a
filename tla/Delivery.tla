------------------------------ MODULE Delivery ------------------------------
(***************************************************************************)
(* What a named pipe of eNovaConnect promises to the code that calls       *)
(* NamedPipeClient::sendRequest on one side and that implements            *)
(* RequestHandlerInterface::handleRequest on the other, with the pipe, its *)
(* instances and the server's thread left out:                             *)
(*                                                                         *)
(*   - a request is handled at most once, and only after it was sent;      *)
(*   - requests are handled in the order in which their calls connected;   *)
(*   - a call that waits for a response returns only once its own request  *)
(*     was handled;                                                        *)
(*   - the request of a call that threw is never handled afterwards.       *)
(*                                                                         *)
(* It promises neither that a request which was sent is handled, nor that  *)
(* one whose call threw was not: it may have been handled before.          *)
(***************************************************************************)
EXTENDS Naturals

CONSTANT Calls                  \* the calls of sendRequest

VARIABLES
    outcome,                    \* how far each call has come
    handled,                    \* how often each call's request was handled
    ahead,                      \* the calls that were no longer calling when a call connected
    waits                       \* which calls wait for a response

vars == <<outcome, handled, ahead, waits>>

Outcomes == {"idle", "calling", "connected", "sent", "ok", "threw", "dead"}

Init ==
    /\ outcome = [c \in Calls |-> "idle"]
    /\ handled = [c \in Calls |-> 0]
    /\ ahead = [c \in Calls |-> {}]
    /\ waits \in [Calls -> BOOLEAN]

Become(c, o) == outcome' = [outcome EXCEPT ![c] = o]

Submit(c) ==
    /\ outcome[c] = "idle"
    /\ Become(c, "calling")
    /\ UNCHANGED <<handled, ahead, waits>>

Connect(c) ==
    /\ outcome[c] = "calling"
    /\ Become(c, "connected")
    /\ ahead' = [ahead EXCEPT ![c] = {d \in Calls : outcome[d] \notin {"idle", "calling"}}]
    /\ UNCHANGED <<handled, waits>>

Send(c) ==
    /\ outcome[c] = "connected"
    /\ Become(c, "sent")
    /\ UNCHANGED <<handled, ahead, waits>>

\* The request is handled once, after it was sent, by a caller that has not been
\* told of a failure, and before the requests of all the calls that came later.
Handle(c) ==
    /\ outcome[c] \in {"sent", "ok", "dead"}
    /\ handled[c] = 0
    /\ \A d \in Calls : c \in ahead[d] => handled[d] = 0
    /\ handled' = [handled EXCEPT ![c] = 1]
    /\ UNCHANGED <<outcome, ahead, waits>>

Return(c) ==
    /\ outcome[c] = "sent"
    /\ waits[c] => handled[c] = 1
    /\ Become(c, "ok")
    /\ UNCHANGED <<handled, ahead, waits>>

Throw(c) ==
    /\ outcome[c] \in {"calling", "connected", "sent"}
    /\ Become(c, "threw")
    /\ UNCHANGED <<handled, ahead, waits>>

\* The caller's process ends in the middle of the call.
Die(c) ==
    /\ outcome[c] \in {"connected", "sent"}
    /\ Become(c, "dead")
    /\ UNCHANGED <<handled, ahead, waits>>

Next ==
    \E c \in Calls :
        Submit(c) \/ Connect(c) \/ Send(c) \/ Handle(c) \/ Return(c) \/ Throw(c) \/ Die(c)

Spec == Init /\ [][Next]_vars
=============================================================================
