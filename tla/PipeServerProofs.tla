-------------------------- MODULE PipeServerProofs --------------------------
(***************************************************************************)
(* Proofs about PipeServer, for every number of calls and instances, every *)
(* buffer size and every choice of requests, replies and faults: the type  *)
(* invariant, the safety invariants, that the thread and its callers do    *)
(* not block each other, how many instances are enough, and that           *)
(* PipeServer implements Delivery.                                         *)
(***************************************************************************)
EXTENDS PipeServer, FiniteSetTheorems, TLAPS

Holding == {"mode", "write", "writing", "read", "close"}

\* The instance the thread works on, and the only one that can be listening.
InvServer ==
    /\ spc \in Accepting \cup Serving => mHPipe \in Instances /\ state[mHPipe] # "none"
    /\ spc \in Serving => state[mHPipe] # "listening"
    /\ \A h \in Instances : state[h] = "listening" => h = mHPipe /\ spc \in Accepting

\* Which calls hold a client end, and of what: no two the same one.
InvConn ==
    \A c \in Calls :
        /\ cpc[c] \in Holding => conn[c] \in Instances
        /\ conn[c] # NoInst =>
              /\ cpc[c] \in Holding \cup {"threw"}
              /\ state[conn[c]] \in {"none", "connected"}
              /\ \A d \in Calls : conn[d] = conn[c] => d = c

\* A request that waits was written by the one client of its instance, was not handled
\* and waits nowhere else.
InvReq ==
    \A h \in Instances : \A c \in Calls : req[h] = c =>
        /\ state[h] \in {"connected", "closing"}
        /\ handled[c] = 0
        /\ cpc[c] \in {"writing", "read", "close", "ok", "dead"}
        /\ conn[c] # NoInst \/ state[h] = "connected" => conn[c] = h
        /\ \A g \in Instances : req[g] = c => g = h

\* The request Read has in hand is that of the one client of its instance.
InvCur ==
    spc \in {"handle", "send"} =>
        /\ cur \in Calls
        /\ cpc[cur] \in {"read", "close", "ok", "dead"}
        /\ conn[cur] # NoInst \/ state[mHPipe] = "connected" => conn[cur] = mHPipe
        /\ \A h \in Instances : req[h] # cur
        /\ req[mHPipe] = NoCall
        /\ spc = "handle" => handled[cur] = 0
        /\ spc = "send" => handled[cur] = 1 /\ MayReply

\* A request is handled only after its call has written it.
InvHandled ==
    \A c \in Calls : cpc[c] \in {"idle", "open", "wait", "mode", "write"} => handled[c] = 0

\* A response waits in the instance its caller holds.
InvResp ==
    \A h \in Instances : \A c \in Calls : resp[h] = c => conn[c] = h /\ handled[c] = 1

InvGot ==
    \A c \in Calls :
        /\ got[c] # NoCall => got[c] = c /\ handled[c] = 1
        /\ cpc[c] \in {"close", "ok"} => got[c] = c \/ ~request[c].wait

\* c is the client of the instance the thread works on.
Current(c) ==
    /\ spc \in Accepting \cup Serving
    /\ \/ conn[c] = mHPipe /\ state[mHPipe] = "connected"
       \/ req[mHPipe] = c
       \/ spc \in {"handle", "send"} /\ cur = c

\* Nobody has connected after the current client.
InvOrder ==
    \A c \in Calls :
        cpc[c] \in {"idle", "open", "wait"} \/ Current(c) => \A d \in Calls : c \notin ahead[d]

InHand(h) == h = mHPipe /\ spc \in Accepting \cup Serving

\* A connection that is alive and not in hand was left with its response.
InvLeft ==
    "alloc" \notin faults =>
        \A c \in Calls : conn[c] # NoInst /\ state[conn[c]] = "connected" =>
            InHand(conn[c]) \/ (handled[c] = 1 /\ cpc[c] # "threw")

InvOwner ==
    /\ opc = "new" => spc = "none" /\ ~joinable /\ ~stopped
    /\ ~joinable => spc \in {"none", "done"}
    /\ stopped => ~joinable
    /\ spc = "none" => ~joinable

IInv ==
    /\ TypeOK
    /\ InvServer
    /\ InvConn
    /\ InvReq
    /\ InvCur
    /\ InvHandled
    /\ InvResp
    /\ InvGot
    /\ InvOrder
    /\ InvOwner
    /\ OneInstance
    /\ InvLeft
    /\ OneLiveLeak

-----------------------------------------------------------------------------
(* Lemmas.                                                                 *)

\* The identity Create takes is free (external: what CreateNamedPipe returns).
LEMMA NewInstIsFree ==
    ASSUME \E h \in Instances : Free(h)
    PROVE  NewInst \in Instances /\ Free(NewInst)
  BY DEF NewInst

\* Read goes on to sendResponse only when handleRequest may return a response.
LEMMA SendMeansReply ==
    ASSUME Handle
    PROVE  spc' = "send" => MayReply
  <1>1. ASSUME NEW reply \in Replies
        PROVE  MayReply \/ reply = FALSE
    BY <1>1, PipeAssumption DEF MayReply
  <1> QED
    BY <1>1, Zenon DEF Handle, Go

\* Every step of the specification is a step of one of these actions.
LEMMA NextCases ==
    ASSUME Next
    PROVE  \/ OwnerNext \/ Quit \/ ServerNext \/ ServerFaults
           \/ \E c \in Calls : Begin(c) \/ Die(c) \/ Exit(c) \/ ClientNext(c)
  BY DEF Next

-----------------------------------------------------------------------------
(* Type correctness.  ReadResponse needs a call that reads to hold an      *)
(* instance, Handle the call in hand to be one.                            *)

\* No step leaves the types.
LEMMA TypeStep ==
    ASSUME TypeOK, InvConn, InvCur, [Next]_vars
    PROVE  TypeOK'
  <1> USE PipeAssumption
  <1>1. CASE UNCHANGED vars
        BY <1>1 DEF vars, ownerVars, serverVars, pipeVars, clientVars, params, TypeOK, OwnerPCs,
        ServerPCs, ClientPCs, Go
  <1>2. CASE OwnerNext \/ Quit
        <2> USE DEF TypeOK, OwnerPCs, ServerPCs, ClientPCs, Go, ownerVars, serverVars, pipeVars,
        clientVars, params
    <2>1. CASE Start  BY <2>1 DEF Start
    <2>2. CASE Quit  BY <2>2 DEF Quit
    <2>3. CASE StopTest  BY <2>3 DEF StopTest, NextStop
    <2>4. CASE StopDelete  BY <2>4 DEF StopDelete
    <2>5. CASE StopJoin  BY <2>5 DEF StopJoin, NextStop
    <2>6. CASE Destroy  BY <2>6 DEF Destroy
    <2>7. CASE Terminate  BY <2>7 DEF Terminate
    <2> QED
      BY <1>2, <2>1, <2>2, <2>3, <2>4, <2>5, <2>6, <2>7 DEF OwnerNext
  <1>3. CASE ServerNext
        <2> USE DEF TypeOK, OwnerPCs, ServerPCs, ClientPCs, Go, ownerVars, serverVars, pipeVars,
        clientVars, params
    <2>1. CASE ListenEntry  BY <2>1 DEF ListenEntry
    <2>2. CASE ListenTest  BY <2>2 DEF ListenTest
    <2>3. CASE Create  BY <2>3, NewInstIsFree DEF Create
    <2>4. CASE ConnectPends  BY <2>4 DEF ConnectPends
    <2>5. CASE ConnectFindsClient  BY <2>5 DEF ConnectFindsClient
    <2>6. CASE ConnectTooLate  BY <2>6 DEF ConnectTooLate, Discard
    <2>7. CASE ConnectReturns  BY <2>7 DEF ConnectReturns
    <2>8. CASE ReadAllocates  BY <2>8 DEF ReadAllocates
    <2>9. CASE ReadTest  BY <2>9 DEF ReadTest
    <2>10. CASE ReadRequest
      <3>1. cpc' \in [Calls -> ClientPCs]
        BY <2>10 DEF ReadRequest, Unblock, AfterWrite
      <3> QED
        BY <2>10, <3>1 DEF ReadRequest
    <2>11. CASE ReadTooLong
      <3>1. cpc' \in [Calls -> ClientPCs]
        BY <2>11 DEF ReadTooLong, Unblock, AfterWrite
      <3> QED
        BY <2>11, <3>1 DEF ReadTooLong
    <2>12. CASE ReadBroken  BY <2>12 DEF ReadBroken
    <2>13. CASE Handle  BY <2>13 DEF Handle, InvCur
    <2>14. CASE Send  BY <2>14 DEF Send
    <2>15. CASE SendFails  BY <2>15 DEF SendFails
    <2>16. CASE FlushDisconnectClose  BY <2>16 DEF FlushDisconnectClose, Discard
    <2> QED
            BY <1>3, <2>1, <2>2, <2>3, <2>4, <2>5, <2>6, <2>7, <2>8, <2>9, <2>10, <2>11, <2>12,
          <2>13, <2>14, <2>15, <2>16 DEF ServerNext
  <1>4. CASE ServerFaults
        <2> USE DEF TypeOK, OwnerPCs, ServerPCs, ClientPCs, Go, ownerVars, serverVars, pipeVars,
        clientVars, params
    <2>1. CASE CreateFails  BY <2>1 DEF CreateFails
    <2>2. CASE ReadAllocFails  BY <2>2 DEF ReadAllocFails
    <2>3. CASE ReplyNotText  BY <2>3 DEF ReplyNotText
    <2> QED
      BY <1>4, <2>1, <2>2, <2>3 DEF ServerFaults
  <1>5. ASSUME NEW c \in Calls, Begin(c) \/ Die(c) \/ Exit(c) \/ ClientNext(c)
        PROVE  TypeOK'
        <2> USE DEF Move, Throw, TypeOK, ClientPCs, ownerVars, serverVars, pipeVars, clientVars,
        params
    <2>1. CASE Begin(c)  BY <2>1 DEF Begin
    <2>2. CASE Die(c)  BY <2>2 DEF Die, Hangup
    <2>3. CASE Open(c)  BY <2>3 DEF Open
    <2>4. CASE OpenBusy(c)  BY <2>4 DEF OpenBusy
    <2>5. CASE OpenNotFound(c)  BY <2>5 DEF OpenNotFound
    <2>6. CASE WaitSucceeds(c)  BY <2>6 DEF WaitSucceeds
    <2>7. CASE WaitFails(c)  BY <2>7 DEF WaitFails
    <2>8. CASE SetMode(c)  BY <2>8 DEF SetMode
    <2>9. CASE SetModeFails(c)  BY <2>9 DEF SetModeFails
    <2>10. CASE Write(c)  BY <2>10 DEF Write, AfterWrite
    <2>11. CASE WriteFails(c)  BY <2>11 DEF WriteFails
    <2>12. CASE ReadResponse(c)  BY <2>12 DEF ReadResponse, InvConn, Holding
    <2>13. CASE ReadFails(c)  BY <2>13 DEF ReadFails
    <2>14. CASE Close(c)  BY <2>14 DEF Close, Hangup
    <2>15. CASE RequestNotText(c)  BY <2>15 DEF RequestNotText
    <2>16. CASE Exit(c)  BY <2>16 DEF Exit, Hangup
    <2> QED
            BY <1>5, <2>1, <2>2, <2>3, <2>4, <2>5, <2>6, <2>7, <2>8, <2>9, <2>10, <2>11, <2>12,
          <2>13, <2>14, <2>15, <2>16 DEF ClientNext
  <1> QED
    BY <1>1, <1>2, <1>3, <1>4, <1>5, NextCases

\* Only Create makes an instance listen, and no other one then does.
LEMMA ServerStep ==
    ASSUME TypeOK, InvServer, InvConn, InvCur, InvOwner, [Next]_vars
    PROVE  InvServer'
  <1> USE PipeAssumption
  <1>1. CASE UNCHANGED vars
        BY <1>1 DEF vars, ownerVars, serverVars, pipeVars, clientVars, params, TypeOK, InvServer,
        Accepting, Serving, Go, Listening
  <1>2. CASE OwnerNext \/ Quit
        <2> USE DEF TypeOK, InvServer, Accepting, Serving, Go, Listening, ownerVars, serverVars,
        pipeVars, clientVars, params
    <2>1. CASE Start  BY <2>1 DEF Start, InvOwner
    <2>2. CASE Quit  BY <2>2 DEF Quit
    <2>3. CASE StopTest  BY <2>3 DEF StopTest, NextStop
    <2>4. CASE StopDelete  BY <2>4 DEF StopDelete
    <2>5. CASE StopJoin  BY <2>5 DEF StopJoin, NextStop
    <2>6. CASE Destroy  BY <2>6 DEF Destroy
    <2>7. CASE Terminate  BY <2>7 DEF Terminate
    <2> QED
      BY <1>2, <2>1, <2>2, <2>3, <2>4, <2>5, <2>6, <2>7 DEF OwnerNext
  <1>3. CASE ServerNext
        <2> USE DEF TypeOK, InvServer, Accepting, Serving, Go, Listening, ownerVars, serverVars,
        pipeVars, clientVars, params
    <2>1. CASE ListenEntry  BY <2>1 DEF ListenEntry
    <2>2. CASE ListenTest  BY <2>2 DEF ListenTest
    <2>3. CASE Create  BY <2>3, NewInstIsFree DEF Create
    <2>4. CASE ConnectPends  BY <2>4 DEF ConnectPends
    <2>5. CASE ConnectFindsClient  BY <2>5 DEF ConnectFindsClient
    <2>6. CASE ConnectTooLate  BY <2>6 DEF ConnectTooLate, Discard
    <2>7. CASE ConnectReturns  BY <2>7 DEF ConnectReturns
    <2>8. CASE ReadAllocates  BY <2>8 DEF ReadAllocates
    <2>9. CASE ReadTest  BY <2>9 DEF ReadTest
    <2>10. CASE ReadRequest  BY <2>10 DEF ReadRequest, Unblock, AfterWrite
    <2>11. CASE ReadTooLong  BY <2>11 DEF ReadTooLong, Unblock, AfterWrite
    <2>12. CASE ReadBroken  BY <2>12 DEF ReadBroken
    <2>13. CASE Handle  BY <2>13 DEF Handle
    <2>14. CASE Send  BY <2>14 DEF Send
    <2>15. CASE SendFails  BY <2>15 DEF SendFails
    <2>16. CASE FlushDisconnectClose  BY <2>16 DEF FlushDisconnectClose, Discard
    <2> QED
            BY <1>3, <2>1, <2>2, <2>3, <2>4, <2>5, <2>6, <2>7, <2>8, <2>9, <2>10, <2>11, <2>12,
          <2>13, <2>14, <2>15, <2>16 DEF ServerNext
  <1>4. CASE ServerFaults
        <2> USE DEF TypeOK, InvServer, Accepting, Serving, Go, Listening, ownerVars, serverVars,
        pipeVars, clientVars, params
    <2>1. CASE CreateFails  BY <2>1 DEF CreateFails
    <2>2. CASE ReadAllocFails  BY <2>2 DEF ReadAllocFails
    <2>3. CASE ReplyNotText  BY <2>3 DEF ReplyNotText
    <2> QED
      BY <1>4, <2>1, <2>2, <2>3 DEF ServerFaults
  <1>5. ASSUME NEW c \in Calls, Begin(c) \/ Die(c) \/ Exit(c) \/ ClientNext(c)
        PROVE  InvServer'
        <2> USE DEF Move, Throw, TypeOK, InvServer, Accepting, Serving, Go, Listening, ownerVars,
        serverVars, pipeVars, clientVars, params
    <2>1. CASE Begin(c)  BY <2>1 DEF Begin
    <2>2. CASE Die(c)  BY <2>2 DEF Die, Hangup
    <2>3. CASE Open(c)  BY <2>3 DEF Open
    <2>4. CASE OpenBusy(c)  BY <2>4 DEF OpenBusy
    <2>5. CASE OpenNotFound(c)  BY <2>5 DEF OpenNotFound
    <2>6. CASE WaitSucceeds(c)  BY <2>6 DEF WaitSucceeds
    <2>7. CASE WaitFails(c)  BY <2>7 DEF WaitFails
    <2>8. CASE SetMode(c)  BY <2>8 DEF SetMode
    <2>9. CASE SetModeFails(c)  BY <2>9 DEF SetModeFails
    <2>10. CASE Write(c)  BY <2>10 DEF Write, AfterWrite
    <2>11. CASE WriteFails(c)  BY <2>11 DEF WriteFails
    <2>12. CASE ReadResponse(c)  BY <2>12 DEF ReadResponse
    <2>13. CASE ReadFails(c)  BY <2>13 DEF ReadFails
    <2>14. CASE Close(c)  BY <2>14 DEF Close, Hangup
    <2>15. CASE RequestNotText(c)  BY <2>15 DEF RequestNotText
    <2>16. CASE Exit(c)  BY <2>16 DEF Exit, Hangup
    <2> QED
            BY <1>5, <2>1, <2>2, <2>3, <2>4, <2>5, <2>6, <2>7, <2>8, <2>9, <2>10, <2>11, <2>12,
          <2>13, <2>14, <2>15, <2>16 DEF ClientNext
  <1> QED
    BY <1>1, <1>2, <1>3, <1>4, <1>5, NextCases

\* Open takes an instance no call holds, and only a dead one is left by a call that throws.
LEMMA ConnStep ==
    ASSUME TypeOK, InvServer, InvConn, [Next]_vars
    PROVE  InvConn'
  <1> USE PipeAssumption
  <1>1. CASE UNCHANGED vars
        BY <1>1 DEF vars, ownerVars, serverVars, pipeVars, clientVars, params, TypeOK, InvConn,
        InvServer, Holding, Free, Connected, Listening, Go
  <1>2. CASE OwnerNext \/ Quit
        <2> USE DEF TypeOK, InvConn, InvServer, Holding, Free, Connected, Listening, Go,
        ownerVars, serverVars, pipeVars, clientVars, params
    <2>1. CASE Start  BY <2>1 DEF Start
    <2>2. CASE Quit  BY <2>2 DEF Quit
    <2>3. CASE StopTest  BY <2>3 DEF StopTest, NextStop
    <2>4. CASE StopDelete  BY <2>4 DEF StopDelete
    <2>5. CASE StopJoin  BY <2>5 DEF StopJoin, NextStop
    <2>6. CASE Destroy  BY <2>6 DEF Destroy
    <2>7. CASE Terminate  BY <2>7 DEF Terminate
    <2> QED
      BY <1>2, <2>1, <2>2, <2>3, <2>4, <2>5, <2>6, <2>7 DEF OwnerNext
  <1>3. CASE ServerNext
        <2> USE DEF TypeOK, InvConn, InvServer, Holding, Free, Connected, Listening, Go,
        ownerVars, serverVars, pipeVars, clientVars, params
    <2>1. CASE ListenEntry  BY <2>1 DEF ListenEntry
    <2>2. CASE ListenTest  BY <2>2 DEF ListenTest
    <2>3. CASE Create  BY <2>3, NewInstIsFree DEF Create
    <2>4. CASE ConnectPends  BY <2>4 DEF ConnectPends
    <2>5. CASE ConnectFindsClient  BY <2>5 DEF ConnectFindsClient
    <2>6. CASE ConnectTooLate  BY <2>6 DEF ConnectTooLate, Discard
    <2>7. CASE ConnectReturns  BY <2>7 DEF ConnectReturns
    <2>8. CASE ReadAllocates  BY <2>8 DEF ReadAllocates
    <2>9. CASE ReadTest  BY <2>9 DEF ReadTest
    <2>10. CASE ReadRequest  BY <2>10 DEF ReadRequest, Unblock, AfterWrite
    <2>11. CASE ReadTooLong  BY <2>11 DEF ReadTooLong, Unblock, AfterWrite
    <2>12. CASE ReadBroken  BY <2>12 DEF ReadBroken
    <2>13. CASE Handle  BY <2>13 DEF Handle
    <2>14. CASE Send  BY <2>14 DEF Send
    <2>15. CASE SendFails  BY <2>15 DEF SendFails
    <2>16. CASE FlushDisconnectClose  BY <2>16 DEF FlushDisconnectClose, Discard
    <2> QED
            BY <1>3, <2>1, <2>2, <2>3, <2>4, <2>5, <2>6, <2>7, <2>8, <2>9, <2>10, <2>11, <2>12,
          <2>13, <2>14, <2>15, <2>16 DEF ServerNext
  <1>4. CASE ServerFaults
        <2> USE DEF TypeOK, InvConn, InvServer, Holding, Free, Connected, Listening, Go,
        ownerVars, serverVars, pipeVars, clientVars, params
    <2>1. CASE CreateFails  BY <2>1 DEF CreateFails
    <2>2. CASE ReadAllocFails  BY <2>2 DEF ReadAllocFails
    <2>3. CASE ReplyNotText  BY <2>3 DEF ReplyNotText
    <2> QED
      BY <1>4, <2>1, <2>2, <2>3 DEF ServerFaults
  <1>5. ASSUME NEW c \in Calls, Begin(c) \/ Die(c) \/ Exit(c) \/ ClientNext(c)
        PROVE  InvConn'
        <2> USE DEF Move, Throw, TypeOK, InvConn, InvServer, Holding, Free, Connected, Listening,
        Go, ownerVars, serverVars, pipeVars, clientVars, params
    <2>1. CASE Begin(c)  BY <2>1 DEF Begin
    <2>2. CASE Die(c)  BY <2>2 DEF Die, Hangup
    <2>3. CASE Open(c)  BY <2>3 DEF Open
    <2>4. CASE OpenBusy(c)  BY <2>4 DEF OpenBusy
    <2>5. CASE OpenNotFound(c)  BY <2>5 DEF OpenNotFound
    <2>6. CASE WaitSucceeds(c)  BY <2>6 DEF WaitSucceeds
    <2>7. CASE WaitFails(c)  BY <2>7 DEF WaitFails
    <2>8. CASE SetMode(c)  BY <2>8 DEF SetMode
    <2>9. CASE SetModeFails(c)  BY <2>9 DEF SetModeFails
    <2>10. CASE Write(c)  BY <2>10 DEF Write, AfterWrite
    <2>11. CASE WriteFails(c)  BY <2>11 DEF WriteFails
    <2>12. CASE ReadResponse(c)  BY <2>12 DEF ReadResponse
    <2>13. CASE ReadFails(c)  BY <2>13 DEF ReadFails
    <2>14. CASE Close(c)  BY <2>14 DEF Close, Hangup
    <2>15. CASE RequestNotText(c)  BY <2>15 DEF RequestNotText
    <2>16. CASE Exit(c)  BY <2>16 DEF Exit, Hangup
    <2> QED
            BY <1>5, <2>1, <2>2, <2>3, <2>4, <2>5, <2>6, <2>7, <2>8, <2>9, <2>10, <2>11, <2>12,
          <2>13, <2>14, <2>15, <2>16 DEF ClientNext
  <1> QED
    BY <1>1, <1>2, <1>3, <1>4, <1>5, NextCases

\* A request is written once, by the call that holds the instance.
LEMMA ReqStep ==
    ASSUME TypeOK, InvServer, InvConn, InvReq, InvCur, InvHandled, [Next]_vars
    PROVE  InvReq'
  <1> USE PipeAssumption
  <1>1. CASE UNCHANGED vars
        BY <1>1 DEF vars, ownerVars, serverVars, pipeVars, clientVars, params, TypeOK, InvReq,
        InvConn, InvServer, InvCur, InvHandled, Holding, Free, Connected, Listening, Go
  <1>2. CASE OwnerNext \/ Quit
        <2> USE DEF TypeOK, InvReq, InvConn, InvServer, InvCur, InvHandled, Holding, Free,
        Connected, Listening, Go, ownerVars, serverVars, pipeVars, clientVars, params
    <2>1. CASE Start  BY <2>1 DEF Start
    <2>2. CASE Quit  BY <2>2 DEF Quit
    <2>3. CASE StopTest  BY <2>3 DEF StopTest, NextStop
    <2>4. CASE StopDelete  BY <2>4 DEF StopDelete
    <2>5. CASE StopJoin  BY <2>5 DEF StopJoin, NextStop
    <2>6. CASE Destroy  BY <2>6 DEF Destroy
    <2>7. CASE Terminate  BY <2>7 DEF Terminate
    <2> QED
      BY <1>2, <2>1, <2>2, <2>3, <2>4, <2>5, <2>6, <2>7 DEF OwnerNext
  <1>3. CASE ServerNext
        <2> USE DEF TypeOK, InvReq, InvConn, InvServer, InvCur, InvHandled, Holding, Free,
        Connected, Listening, Go, ownerVars, serverVars, pipeVars, clientVars, params
    <2>1. CASE ListenEntry  BY <2>1 DEF ListenEntry
    <2>2. CASE ListenTest  BY <2>2 DEF ListenTest
    <2>3. CASE Create  BY <2>3, NewInstIsFree DEF Create
    <2>4. CASE ConnectPends  BY <2>4 DEF ConnectPends
    <2>5. CASE ConnectFindsClient  BY <2>5 DEF ConnectFindsClient
    <2>6. CASE ConnectTooLate  BY <2>6 DEF ConnectTooLate, Discard
    <2>7. CASE ConnectReturns  BY <2>7 DEF ConnectReturns
    <2>8. CASE ReadAllocates  BY <2>8 DEF ReadAllocates
    <2>9. CASE ReadTest  BY <2>9 DEF ReadTest
    <2>10. CASE ReadRequest  BY <2>10 DEF ReadRequest, Unblock, AfterWrite
    <2>11. CASE ReadTooLong  BY <2>11 DEF ReadTooLong, Unblock, AfterWrite
    <2>12. CASE ReadBroken  BY <2>12 DEF ReadBroken
    <2>13. CASE Handle  BY <2>13 DEF Handle
    <2>14. CASE Send  BY <2>14 DEF Send
    <2>15. CASE SendFails  BY <2>15 DEF SendFails
    <2>16. CASE FlushDisconnectClose  BY <2>16 DEF FlushDisconnectClose, Discard
    <2> QED
            BY <1>3, <2>1, <2>2, <2>3, <2>4, <2>5, <2>6, <2>7, <2>8, <2>9, <2>10, <2>11, <2>12,
          <2>13, <2>14, <2>15, <2>16 DEF ServerNext
  <1>4. CASE ServerFaults
        <2> USE DEF TypeOK, InvReq, InvConn, InvServer, InvCur, InvHandled, Holding, Free,
        Connected, Listening, Go, ownerVars, serverVars, pipeVars, clientVars, params
    <2>1. CASE CreateFails  BY <2>1 DEF CreateFails
    <2>2. CASE ReadAllocFails  BY <2>2 DEF ReadAllocFails
    <2>3. CASE ReplyNotText  BY <2>3 DEF ReplyNotText
    <2> QED
      BY <1>4, <2>1, <2>2, <2>3 DEF ServerFaults
  <1>5. ASSUME NEW c \in Calls, Begin(c) \/ Die(c) \/ Exit(c) \/ ClientNext(c)
        PROVE  InvReq'
        <2> USE DEF Move, Throw, TypeOK, InvReq, InvConn, InvServer, InvCur, InvHandled, Holding,
        Free, Connected, Listening, Go, ownerVars, serverVars, pipeVars, clientVars, params
    <2>1. CASE Begin(c)  BY <2>1 DEF Begin
    <2>2. CASE Die(c)  BY <2>2 DEF Die, Hangup
    <2>3. CASE Open(c)  BY <2>3 DEF Open
    <2>4. CASE OpenBusy(c)  BY <2>4 DEF OpenBusy
    <2>5. CASE OpenNotFound(c)  BY <2>5 DEF OpenNotFound
    <2>6. CASE WaitSucceeds(c)  BY <2>6 DEF WaitSucceeds
    <2>7. CASE WaitFails(c)  BY <2>7 DEF WaitFails
    <2>8. CASE SetMode(c)  BY <2>8 DEF SetMode
    <2>9. CASE SetModeFails(c)  BY <2>9 DEF SetModeFails
    <2>10. CASE Write(c)  BY <2>10 DEF Write, AfterWrite
    <2>11. CASE WriteFails(c)  BY <2>11 DEF WriteFails
    <2>12. CASE ReadResponse(c)  BY <2>12 DEF ReadResponse
    <2>13. CASE ReadFails(c)  BY <2>13 DEF ReadFails
    <2>14. CASE Close(c)  BY <2>14 DEF Close, Hangup
    <2>15. CASE RequestNotText(c)  BY <2>15 DEF RequestNotText
    <2>16. CASE Exit(c)  BY <2>16 DEF Exit, Hangup
    <2> QED
            BY <1>5, <2>1, <2>2, <2>3, <2>4, <2>5, <2>6, <2>7, <2>8, <2>9, <2>10, <2>11, <2>12,
          <2>13, <2>14, <2>15, <2>16 DEF ClientNext
  <1> QED
    BY <1>1, <1>2, <1>3, <1>4, <1>5, NextCases

\* The request in hand was taken from the one client of mHPipe.
LEMMA CurStep ==
    ASSUME TypeOK, InvServer, InvConn, InvReq, InvCur, [Next]_vars
    PROVE  InvCur'
  <1> USE PipeAssumption
  <1>1. CASE UNCHANGED vars
        BY <1>1 DEF vars, ownerVars, serverVars, pipeVars, clientVars, params, TypeOK, InvReq,
        InvConn, InvServer, InvCur, Accepting, Serving, Holding, Free, Connected, Listening, Go
  <1>2. CASE OwnerNext \/ Quit
        <2> USE DEF TypeOK, InvReq, InvConn, InvServer, InvCur, Accepting, Serving, Holding, Free,
        Connected, Listening, Go, ownerVars, serverVars, pipeVars, clientVars, params
    <2>1. CASE Start  BY <2>1 DEF Start
    <2>2. CASE Quit  BY <2>2 DEF Quit
    <2>3. CASE StopTest  BY <2>3 DEF StopTest, NextStop
    <2>4. CASE StopDelete  BY <2>4 DEF StopDelete
    <2>5. CASE StopJoin  BY <2>5 DEF StopJoin, NextStop
    <2>6. CASE Destroy  BY <2>6 DEF Destroy
    <2>7. CASE Terminate  BY <2>7 DEF Terminate
    <2> QED
      BY <1>2, <2>1, <2>2, <2>3, <2>4, <2>5, <2>6, <2>7 DEF OwnerNext
  <1>3. CASE ServerNext
        <2> USE DEF TypeOK, InvReq, InvConn, InvServer, InvCur, Accepting, Serving, Holding, Free,
        Connected, Listening, Go, ownerVars, serverVars, pipeVars, clientVars, params
    <2>1. CASE ListenEntry  BY <2>1 DEF ListenEntry
    <2>2. CASE ListenTest  BY <2>2 DEF ListenTest
    <2>3. CASE Create  BY <2>3, NewInstIsFree DEF Create
    <2>4. CASE ConnectPends  BY <2>4 DEF ConnectPends
    <2>5. CASE ConnectFindsClient  BY <2>5 DEF ConnectFindsClient
    <2>6. CASE ConnectTooLate  BY <2>6 DEF ConnectTooLate, Discard
    <2>7. CASE ConnectReturns  BY <2>7 DEF ConnectReturns
    <2>8. CASE ReadAllocates  BY <2>8 DEF ReadAllocates
    <2>9. CASE ReadTest  BY <2>9 DEF ReadTest
    <2>10. CASE ReadRequest  BY <2>10 DEF ReadRequest, Unblock, AfterWrite
    <2>11. CASE ReadTooLong  BY <2>11 DEF ReadTooLong, Unblock, AfterWrite
    <2>12. CASE ReadBroken  BY <2>12 DEF ReadBroken
    <2>13. CASE Handle  BY <2>13, SendMeansReply DEF Handle
    <2>14. CASE Send  BY <2>14 DEF Send
    <2>15. CASE SendFails  BY <2>15 DEF SendFails
    <2>16. CASE FlushDisconnectClose  BY <2>16 DEF FlushDisconnectClose, Discard
    <2> QED
            BY <1>3, <2>1, <2>2, <2>3, <2>4, <2>5, <2>6, <2>7, <2>8, <2>9, <2>10, <2>11, <2>12,
          <2>13, <2>14, <2>15, <2>16 DEF ServerNext
  <1>4. CASE ServerFaults
        <2> USE DEF TypeOK, InvReq, InvConn, InvServer, InvCur, Accepting, Serving, Holding, Free,
        Connected, Listening, Go, ownerVars, serverVars, pipeVars, clientVars, params
    <2>1. CASE CreateFails  BY <2>1 DEF CreateFails
    <2>2. CASE ReadAllocFails  BY <2>2 DEF ReadAllocFails
    <2>3. CASE ReplyNotText  BY <2>3 DEF ReplyNotText
    <2> QED
      BY <1>4, <2>1, <2>2, <2>3 DEF ServerFaults
  <1>5. ASSUME NEW c \in Calls, Begin(c) \/ Die(c) \/ Exit(c) \/ ClientNext(c)
        PROVE  InvCur'
        <2> USE DEF Move, Throw, TypeOK, InvReq, InvConn, InvServer, InvCur, Accepting, Serving,
        Holding, Free, Connected, Listening, Go, ownerVars, serverVars, pipeVars, clientVars,
        params
    <2>1. CASE Begin(c)  BY <2>1 DEF Begin
    <2>2. CASE Die(c)  BY <2>2 DEF Die, Hangup
    <2>3. CASE Open(c)  BY <2>3 DEF Open
    <2>4. CASE OpenBusy(c)  BY <2>4 DEF OpenBusy
    <2>5. CASE OpenNotFound(c)  BY <2>5 DEF OpenNotFound
    <2>6. CASE WaitSucceeds(c)  BY <2>6 DEF WaitSucceeds
    <2>7. CASE WaitFails(c)  BY <2>7 DEF WaitFails
    <2>8. CASE SetMode(c)  BY <2>8 DEF SetMode
    <2>9. CASE SetModeFails(c)  BY <2>9 DEF SetModeFails
    <2>10. CASE Write(c)  BY <2>10 DEF Write, AfterWrite
    <2>11. CASE WriteFails(c)  BY <2>11 DEF WriteFails
    <2>12. CASE ReadResponse(c)  BY <2>12 DEF ReadResponse
    <2>13. CASE ReadFails(c)  BY <2>13 DEF ReadFails
    <2>14. CASE Close(c)  BY <2>14 DEF Close, Hangup
    <2>15. CASE RequestNotText(c)  BY <2>15 DEF RequestNotText
    <2>16. CASE Exit(c)  BY <2>16 DEF Exit, Hangup
    <2> QED
            BY <1>5, <2>1, <2>2, <2>3, <2>4, <2>5, <2>6, <2>7, <2>8, <2>9, <2>10, <2>11, <2>12,
          <2>13, <2>14, <2>15, <2>16 DEF ClientNext
  <1> QED
    BY <1>1, <1>2, <1>3, <1>4, <1>5, NextCases

\* A request is handled at most once, and not before it was written.
LEMMA HandledStep ==
    ASSUME TypeOK, InvReq, InvCur, InvHandled, [Next]_vars
    PROVE  InvHandled'
  <1> USE PipeAssumption
  <1>1. CASE UNCHANGED vars
        BY <1>1 DEF vars, ownerVars, serverVars, pipeVars, clientVars, params, TypeOK, InvReq,
        InvCur, InvHandled, Go
  <1>2. CASE OwnerNext \/ Quit
        <2> USE DEF TypeOK, InvReq, InvCur, InvHandled, Go, ownerVars, serverVars, pipeVars,
        clientVars, params
    <2>1. CASE Start  BY <2>1 DEF Start
    <2>2. CASE Quit  BY <2>2 DEF Quit
    <2>3. CASE StopTest  BY <2>3 DEF StopTest, NextStop
    <2>4. CASE StopDelete  BY <2>4 DEF StopDelete
    <2>5. CASE StopJoin  BY <2>5 DEF StopJoin, NextStop
    <2>6. CASE Destroy  BY <2>6 DEF Destroy
    <2>7. CASE Terminate  BY <2>7 DEF Terminate
    <2> QED
      BY <1>2, <2>1, <2>2, <2>3, <2>4, <2>5, <2>6, <2>7 DEF OwnerNext
  <1>3. CASE ServerNext
        <2> USE DEF TypeOK, InvReq, InvCur, InvHandled, Go, ownerVars, serverVars, pipeVars,
        clientVars, params
    <2>1. CASE ListenEntry  BY <2>1 DEF ListenEntry
    <2>2. CASE ListenTest  BY <2>2 DEF ListenTest
    <2>3. CASE Create  BY <2>3, NewInstIsFree DEF Create
    <2>4. CASE ConnectPends  BY <2>4 DEF ConnectPends
    <2>5. CASE ConnectFindsClient  BY <2>5 DEF ConnectFindsClient
    <2>6. CASE ConnectTooLate  BY <2>6 DEF ConnectTooLate, Discard
    <2>7. CASE ConnectReturns  BY <2>7 DEF ConnectReturns
    <2>8. CASE ReadAllocates  BY <2>8 DEF ReadAllocates
    <2>9. CASE ReadTest  BY <2>9 DEF ReadTest
    <2>10. CASE ReadRequest  BY <2>10 DEF ReadRequest, Unblock, AfterWrite
    <2>11. CASE ReadTooLong  BY <2>11 DEF ReadTooLong, Unblock, AfterWrite
    <2>12. CASE ReadBroken  BY <2>12 DEF ReadBroken
    <2>13. CASE Handle  BY <2>13 DEF Handle
    <2>14. CASE Send  BY <2>14 DEF Send
    <2>15. CASE SendFails  BY <2>15 DEF SendFails
    <2>16. CASE FlushDisconnectClose  BY <2>16 DEF FlushDisconnectClose, Discard
    <2> QED
            BY <1>3, <2>1, <2>2, <2>3, <2>4, <2>5, <2>6, <2>7, <2>8, <2>9, <2>10, <2>11, <2>12,
          <2>13, <2>14, <2>15, <2>16 DEF ServerNext
  <1>4. CASE ServerFaults
        <2> USE DEF TypeOK, InvReq, InvCur, InvHandled, Go, ownerVars, serverVars, pipeVars,
        clientVars, params
    <2>1. CASE CreateFails  BY <2>1 DEF CreateFails
    <2>2. CASE ReadAllocFails  BY <2>2 DEF ReadAllocFails
    <2>3. CASE ReplyNotText  BY <2>3 DEF ReplyNotText
    <2> QED
      BY <1>4, <2>1, <2>2, <2>3 DEF ServerFaults
  <1>5. ASSUME NEW c \in Calls, Begin(c) \/ Die(c) \/ Exit(c) \/ ClientNext(c)
        PROVE  InvHandled'
        <2> USE DEF Move, Throw, TypeOK, InvReq, InvCur, InvHandled, Go, ownerVars, serverVars,
        pipeVars, clientVars, params
    <2>1. CASE Begin(c)  BY <2>1 DEF Begin
    <2>2. CASE Die(c)  BY <2>2 DEF Die, Hangup
    <2>3. CASE Open(c)  BY <2>3 DEF Open
    <2>4. CASE OpenBusy(c)  BY <2>4 DEF OpenBusy
    <2>5. CASE OpenNotFound(c)  BY <2>5 DEF OpenNotFound
    <2>6. CASE WaitSucceeds(c)  BY <2>6 DEF WaitSucceeds
    <2>7. CASE WaitFails(c)  BY <2>7 DEF WaitFails
    <2>8. CASE SetMode(c)  BY <2>8 DEF SetMode
    <2>9. CASE SetModeFails(c)  BY <2>9 DEF SetModeFails
    <2>10. CASE Write(c)  BY <2>10 DEF Write, AfterWrite
    <2>11. CASE WriteFails(c)  BY <2>11 DEF WriteFails
    <2>12. CASE ReadResponse(c)  BY <2>12 DEF ReadResponse
    <2>13. CASE ReadFails(c)  BY <2>13 DEF ReadFails
    <2>14. CASE Close(c)  BY <2>14 DEF Close, Hangup
    <2>15. CASE RequestNotText(c)  BY <2>15 DEF RequestNotText
    <2>16. CASE Exit(c)  BY <2>16 DEF Exit, Hangup
    <2> QED
            BY <1>5, <2>1, <2>2, <2>3, <2>4, <2>5, <2>6, <2>7, <2>8, <2>9, <2>10, <2>11, <2>12,
          <2>13, <2>14, <2>15, <2>16 DEF ClientNext
  <1> QED
    BY <1>1, <1>2, <1>3, <1>4, <1>5, NextCases

\* A response waits for the caller of the request that was handled last.
LEMMA RespStep ==
    ASSUME TypeOK, InvServer, InvConn, InvCur, InvResp, [Next]_vars
    PROVE  InvResp'
  <1> USE PipeAssumption
  <1>1. CASE UNCHANGED vars
        BY <1>1 DEF vars, ownerVars, serverVars, pipeVars, clientVars, params, TypeOK, InvConn,
        InvCur, InvServer, InvResp, Holding, Free, Connected, Listening, Go
  <1>2. CASE OwnerNext \/ Quit
        <2> USE DEF TypeOK, InvConn, InvCur, InvServer, InvResp, Holding, Free, Connected,
        Listening, Go, ownerVars, serverVars, pipeVars, clientVars, params
    <2>1. CASE Start  BY <2>1 DEF Start
    <2>2. CASE Quit  BY <2>2 DEF Quit
    <2>3. CASE StopTest  BY <2>3 DEF StopTest, NextStop
    <2>4. CASE StopDelete  BY <2>4 DEF StopDelete
    <2>5. CASE StopJoin  BY <2>5 DEF StopJoin, NextStop
    <2>6. CASE Destroy  BY <2>6 DEF Destroy
    <2>7. CASE Terminate  BY <2>7 DEF Terminate
    <2> QED
      BY <1>2, <2>1, <2>2, <2>3, <2>4, <2>5, <2>6, <2>7 DEF OwnerNext
  <1>3. CASE ServerNext
        <2> USE DEF TypeOK, InvConn, InvCur, InvServer, InvResp, Holding, Free, Connected,
        Listening, Go, ownerVars, serverVars, pipeVars, clientVars, params
    <2>1. CASE ListenEntry  BY <2>1 DEF ListenEntry
    <2>2. CASE ListenTest  BY <2>2 DEF ListenTest
    <2>3. CASE Create  BY <2>3, NewInstIsFree DEF Create
    <2>4. CASE ConnectPends  BY <2>4 DEF ConnectPends
    <2>5. CASE ConnectFindsClient  BY <2>5 DEF ConnectFindsClient
    <2>6. CASE ConnectTooLate  BY <2>6 DEF ConnectTooLate, Discard
    <2>7. CASE ConnectReturns  BY <2>7 DEF ConnectReturns
    <2>8. CASE ReadAllocates  BY <2>8 DEF ReadAllocates
    <2>9. CASE ReadTest  BY <2>9 DEF ReadTest
    <2>10. CASE ReadRequest  BY <2>10 DEF ReadRequest, Unblock, AfterWrite
    <2>11. CASE ReadTooLong  BY <2>11 DEF ReadTooLong, Unblock, AfterWrite
    <2>12. CASE ReadBroken  BY <2>12 DEF ReadBroken
    <2>13. CASE Handle  BY <2>13 DEF Handle
    <2>14. CASE Send  BY <2>14 DEF Send
    <2>15. CASE SendFails  BY <2>15 DEF SendFails
    <2>16. CASE FlushDisconnectClose  BY <2>16 DEF FlushDisconnectClose, Discard
    <2> QED
            BY <1>3, <2>1, <2>2, <2>3, <2>4, <2>5, <2>6, <2>7, <2>8, <2>9, <2>10, <2>11, <2>12,
          <2>13, <2>14, <2>15, <2>16 DEF ServerNext
  <1>4. CASE ServerFaults
        <2> USE DEF TypeOK, InvConn, InvCur, InvServer, InvResp, Holding, Free, Connected,
        Listening, Go, ownerVars, serverVars, pipeVars, clientVars, params
    <2>1. CASE CreateFails  BY <2>1 DEF CreateFails
    <2>2. CASE ReadAllocFails  BY <2>2 DEF ReadAllocFails
    <2>3. CASE ReplyNotText  BY <2>3 DEF ReplyNotText
    <2> QED
      BY <1>4, <2>1, <2>2, <2>3 DEF ServerFaults
  <1>5. ASSUME NEW c \in Calls, Begin(c) \/ Die(c) \/ Exit(c) \/ ClientNext(c)
        PROVE  InvResp'
        <2> USE DEF Move, Throw, TypeOK, InvConn, InvCur, InvServer, InvResp, Holding, Free,
        Connected, Listening, Go, ownerVars, serverVars, pipeVars, clientVars, params
    <2>1. CASE Begin(c)  BY <2>1 DEF Begin
    <2>2. CASE Die(c)  BY <2>2 DEF Die, Hangup
    <2>3. CASE Open(c)  BY <2>3 DEF Open
    <2>4. CASE OpenBusy(c)  BY <2>4 DEF OpenBusy
    <2>5. CASE OpenNotFound(c)  BY <2>5 DEF OpenNotFound
    <2>6. CASE WaitSucceeds(c)  BY <2>6 DEF WaitSucceeds
    <2>7. CASE WaitFails(c)  BY <2>7 DEF WaitFails
    <2>8. CASE SetMode(c)  BY <2>8 DEF SetMode
    <2>9. CASE SetModeFails(c)  BY <2>9 DEF SetModeFails
    <2>10. CASE Write(c)  BY <2>10 DEF Write, AfterWrite
    <2>11. CASE WriteFails(c)  BY <2>11 DEF WriteFails
    <2>12. CASE ReadResponse(c)  BY <2>12 DEF ReadResponse
    <2>13. CASE ReadFails(c)  BY <2>13 DEF ReadFails
    <2>14. CASE Close(c)  BY <2>14 DEF Close, Hangup
    <2>15. CASE RequestNotText(c)  BY <2>15 DEF RequestNotText
    <2>16. CASE Exit(c)  BY <2>16 DEF Exit, Hangup
    <2> QED
            BY <1>5, <2>1, <2>2, <2>3, <2>4, <2>5, <2>6, <2>7, <2>8, <2>9, <2>10, <2>11, <2>12,
          <2>13, <2>14, <2>15, <2>16 DEF ClientNext
  <1> QED
    BY <1>1, <1>2, <1>3, <1>4, <1>5, NextCases

\* sendRequest returns the response it finds.
LEMMA GotStep ==
    ASSUME TypeOK, InvConn, InvCur, InvResp, InvGot, [Next]_vars
    PROVE  InvGot'
  <1> USE PipeAssumption
  <1>1. CASE UNCHANGED vars
        BY <1>1 DEF vars, ownerVars, serverVars, pipeVars, clientVars, params, TypeOK, InvCur,
        InvGot, Go
  <1>2. CASE OwnerNext \/ Quit
    <2> USE DEF TypeOK, InvCur, InvGot, Go, ownerVars, serverVars, pipeVars, clientVars, params
    <2>1. CASE Start  BY <2>1 DEF Start
    <2>2. CASE Quit  BY <2>2 DEF Quit
    <2>3. CASE StopTest  BY <2>3 DEF StopTest, NextStop
    <2>4. CASE StopDelete  BY <2>4 DEF StopDelete
    <2>5. CASE StopJoin  BY <2>5 DEF StopJoin, NextStop
    <2>6. CASE Destroy  BY <2>6 DEF Destroy
    <2>7. CASE Terminate  BY <2>7 DEF Terminate
    <2> QED
      BY <1>2, <2>1, <2>2, <2>3, <2>4, <2>5, <2>6, <2>7 DEF OwnerNext
  <1>3. CASE ServerNext
    <2> USE DEF TypeOK, InvCur, InvGot, Go, ownerVars, serverVars, pipeVars, clientVars, params
    <2>1. CASE ListenEntry  BY <2>1 DEF ListenEntry
    <2>2. CASE ListenTest  BY <2>2 DEF ListenTest
    <2>3. CASE Create  BY <2>3, NewInstIsFree DEF Create
    <2>4. CASE ConnectPends  BY <2>4 DEF ConnectPends
    <2>5. CASE ConnectFindsClient  BY <2>5 DEF ConnectFindsClient
    <2>6. CASE ConnectTooLate  BY <2>6 DEF ConnectTooLate, Discard
    <2>7. CASE ConnectReturns  BY <2>7 DEF ConnectReturns
    <2>8. CASE ReadAllocates  BY <2>8 DEF ReadAllocates
    <2>9. CASE ReadTest  BY <2>9 DEF ReadTest
    <2>10. CASE ReadRequest  BY <2>10 DEF ReadRequest, Unblock, AfterWrite
    <2>11. CASE ReadTooLong  BY <2>11 DEF ReadTooLong, Unblock, AfterWrite
    <2>12. CASE ReadBroken  BY <2>12 DEF ReadBroken
    <2>13. CASE Handle  BY <2>13 DEF Handle
    <2>14. CASE Send  BY <2>14 DEF Send
    <2>15. CASE SendFails  BY <2>15 DEF SendFails
    <2>16. CASE FlushDisconnectClose  BY <2>16 DEF FlushDisconnectClose, Discard
    <2> QED
            BY <1>3, <2>1, <2>2, <2>3, <2>4, <2>5, <2>6, <2>7, <2>8, <2>9, <2>10, <2>11, <2>12,
          <2>13, <2>14, <2>15, <2>16 DEF ServerNext
  <1>4. CASE ServerFaults
    <2> USE DEF TypeOK, InvCur, InvGot, Go, ownerVars, serverVars, pipeVars, clientVars, params
    <2>1. CASE CreateFails  BY <2>1 DEF CreateFails
    <2>2. CASE ReadAllocFails  BY <2>2 DEF ReadAllocFails
    <2>3. CASE ReplyNotText  BY <2>3 DEF ReplyNotText
    <2> QED
      BY <1>4, <2>1, <2>2, <2>3 DEF ServerFaults
  <1>5. ASSUME NEW c \in Calls, Begin(c) \/ Die(c) \/ Exit(c) \/ ClientNext(c)
        PROVE  InvGot'
        <2> USE DEF Move, Throw, TypeOK, InvCur, InvGot, Go, ownerVars, serverVars, pipeVars,
        clientVars, params
    <2>1. CASE Begin(c)  BY <2>1 DEF Begin
    <2>2. CASE Die(c)  BY <2>2 DEF Die, Hangup
    <2>3. CASE Open(c)  BY <2>3 DEF Open
    <2>4. CASE OpenBusy(c)  BY <2>4 DEF OpenBusy
    <2>5. CASE OpenNotFound(c)  BY <2>5 DEF OpenNotFound
    <2>6. CASE WaitSucceeds(c)  BY <2>6 DEF WaitSucceeds
    <2>7. CASE WaitFails(c)  BY <2>7 DEF WaitFails
    <2>8. CASE SetMode(c)  BY <2>8 DEF SetMode
    <2>9. CASE SetModeFails(c)  BY <2>9 DEF SetModeFails
    <2>10. CASE Write(c)  BY <2>10 DEF Write, AfterWrite
    <2>11. CASE WriteFails(c)  BY <2>11 DEF WriteFails
    <2>12. CASE ReadResponse(c)  BY <2>12 DEF ReadResponse, InvConn, InvResp, Holding
    <2>13. CASE ReadFails(c)  BY <2>13 DEF ReadFails
    <2>14. CASE Close(c)  BY <2>14 DEF Close, Hangup
    <2>15. CASE RequestNotText(c)  BY <2>15 DEF RequestNotText
    <2>16. CASE Exit(c)  BY <2>16 DEF Exit, Hangup
    <2> QED
            BY <1>5, <2>1, <2>2, <2>3, <2>4, <2>5, <2>6, <2>7, <2>8, <2>9, <2>10, <2>11, <2>12,
          <2>13, <2>14, <2>15, <2>16 DEF ClientNext
  <1> QED
    BY <1>1, <1>2, <1>3, <1>4, <1>5, NextCases

\* Nobody connects while the thread has a client.
LEMMA OrderStep ==
    ASSUME TypeOK, InvServer, InvConn, InvReq, InvCur, InvOrder, [Next]_vars
    PROVE  InvOrder'
  <1> USE PipeAssumption
  <1>1. CASE UNCHANGED vars
        BY <1>1 DEF vars, ownerVars, serverVars, pipeVars, clientVars, params, TypeOK, InvReq,
        InvConn, InvServer, InvCur, InvOrder, Current, Accepting, Serving, Holding, Free,
        Connected, Listening, Go
  <1>2. CASE OwnerNext \/ Quit
        <2> USE DEF TypeOK, InvReq, InvConn, InvServer, InvCur, InvOrder, Current, Accepting,
        Serving, Holding, Free, Connected, Listening, Go, ownerVars, serverVars, pipeVars,
        clientVars, params
    <2>1. CASE Start  BY <2>1 DEF Start
    <2>2. CASE Quit  BY <2>2 DEF Quit
    <2>3. CASE StopTest  BY <2>3 DEF StopTest, NextStop
    <2>4. CASE StopDelete  BY <2>4 DEF StopDelete
    <2>5. CASE StopJoin  BY <2>5 DEF StopJoin, NextStop
    <2>6. CASE Destroy  BY <2>6 DEF Destroy
    <2>7. CASE Terminate  BY <2>7 DEF Terminate
    <2> QED
      BY <1>2, <2>1, <2>2, <2>3, <2>4, <2>5, <2>6, <2>7 DEF OwnerNext
  <1>3. CASE ServerNext
        <2> USE DEF TypeOK, InvReq, InvConn, InvServer, InvCur, InvOrder, Current, Accepting,
        Serving, Holding, Free, Connected, Listening, Go, ownerVars, serverVars, pipeVars,
        clientVars, params
    <2>1. CASE ListenEntry  BY <2>1 DEF ListenEntry
    <2>2. CASE ListenTest  BY <2>2 DEF ListenTest
    <2>3. CASE Create  BY <2>3, NewInstIsFree DEF Create
    <2>4. CASE ConnectPends  BY <2>4 DEF ConnectPends
    <2>5. CASE ConnectFindsClient  BY <2>5 DEF ConnectFindsClient
    <2>6. CASE ConnectTooLate  BY <2>6 DEF ConnectTooLate, Discard
    <2>7. CASE ConnectReturns  BY <2>7 DEF ConnectReturns
    <2>8. CASE ReadAllocates  BY <2>8 DEF ReadAllocates
    <2>9. CASE ReadTest  BY <2>9 DEF ReadTest
    <2>10. CASE ReadRequest  BY <2>10 DEF ReadRequest, Unblock, AfterWrite
    <2>11. CASE ReadTooLong  BY <2>11 DEF ReadTooLong, Unblock, AfterWrite
    <2>12. CASE ReadBroken  BY <2>12 DEF ReadBroken
    <2>13. CASE Handle  BY <2>13 DEF Handle
    <2>14. CASE Send  BY <2>14 DEF Send
    <2>15. CASE SendFails  BY <2>15 DEF SendFails
    <2>16. CASE FlushDisconnectClose  BY <2>16 DEF FlushDisconnectClose, Discard
    <2> QED
            BY <1>3, <2>1, <2>2, <2>3, <2>4, <2>5, <2>6, <2>7, <2>8, <2>9, <2>10, <2>11, <2>12,
          <2>13, <2>14, <2>15, <2>16 DEF ServerNext
  <1>4. CASE ServerFaults
        <2> USE DEF TypeOK, InvReq, InvConn, InvServer, InvCur, InvOrder, Current, Accepting,
        Serving, Holding, Free, Connected, Listening, Go, ownerVars, serverVars, pipeVars,
        clientVars, params
    <2>1. CASE CreateFails  BY <2>1 DEF CreateFails
    <2>2. CASE ReadAllocFails  BY <2>2 DEF ReadAllocFails
    <2>3. CASE ReplyNotText  BY <2>3 DEF ReplyNotText
    <2> QED
      BY <1>4, <2>1, <2>2, <2>3 DEF ServerFaults
  <1>5. ASSUME NEW c \in Calls, Begin(c) \/ Die(c) \/ Exit(c) \/ ClientNext(c)
        PROVE  InvOrder'
        <2> USE DEF Move, Throw, TypeOK, InvReq, InvConn, InvServer, InvCur, InvOrder, Current,
        Accepting, Serving, Holding, Free, Connected, Listening, Go, ownerVars, serverVars,
        pipeVars, clientVars, params
    <2>1. CASE Begin(c)  BY <2>1 DEF Begin
    <2>2. CASE Die(c)  BY <2>2 DEF Die, Hangup
    <2>3. CASE Open(c)  BY <2>3 DEF Open
    <2>4. CASE OpenBusy(c)  BY <2>4 DEF OpenBusy
    <2>5. CASE OpenNotFound(c)  BY <2>5 DEF OpenNotFound
    <2>6. CASE WaitSucceeds(c)  BY <2>6 DEF WaitSucceeds
    <2>7. CASE WaitFails(c)  BY <2>7 DEF WaitFails
    <2>8. CASE SetMode(c)  BY <2>8 DEF SetMode
    <2>9. CASE SetModeFails(c)  BY <2>9 DEF SetModeFails
    <2>10. CASE Write(c)  BY <2>10 DEF Write, AfterWrite
    <2>11. CASE WriteFails(c)  BY <2>11 DEF WriteFails
    <2>12. CASE ReadResponse(c)  BY <2>12 DEF ReadResponse
    <2>13. CASE ReadFails(c)  BY <2>13 DEF ReadFails
    <2>14. CASE Close(c)  BY <2>14 DEF Close, Hangup
    <2>15. CASE RequestNotText(c)  BY <2>15 DEF RequestNotText
    <2>16. CASE Exit(c)  BY <2>16 DEF Exit, Hangup
    <2> QED
            BY <1>5, <2>1, <2>2, <2>3, <2>4, <2>5, <2>6, <2>7, <2>8, <2>9, <2>10, <2>11, <2>12,
          <2>13, <2>14, <2>15, <2>16 DEF ClientNext
  <1> QED
    BY <1>1, <1>2, <1>3, <1>4, <1>5, NextCases

\* Only a thread that has ended, or never was, is not joinable.
LEMMA OwnerStep ==
    ASSUME TypeOK, InvOwner, [Next]_vars
    PROVE  InvOwner'
  <1> USE PipeAssumption
  <1>1. CASE UNCHANGED vars
    BY <1>1 DEF vars, ownerVars, serverVars, pipeVars, clientVars, params, TypeOK, InvOwner, Go
  <1>2. CASE OwnerNext \/ Quit
    <2> USE DEF TypeOK, InvOwner, Go, ownerVars, serverVars, pipeVars, clientVars, params
    <2>1. CASE Start  BY <2>1 DEF Start
    <2>2. CASE Quit  BY <2>2 DEF Quit
    <2>3. CASE StopTest  BY <2>3 DEF StopTest, NextStop
    <2>4. CASE StopDelete  BY <2>4 DEF StopDelete
    <2>5. CASE StopJoin  BY <2>5 DEF StopJoin, NextStop
    <2>6. CASE Destroy  BY <2>6 DEF Destroy
    <2>7. CASE Terminate  BY <2>7 DEF Terminate
    <2> QED
      BY <1>2, <2>1, <2>2, <2>3, <2>4, <2>5, <2>6, <2>7 DEF OwnerNext
  <1>3. CASE ServerNext
    <2> USE DEF TypeOK, InvOwner, Go, ownerVars, serverVars, pipeVars, clientVars, params
    <2>1. CASE ListenEntry  BY <2>1 DEF ListenEntry
    <2>2. CASE ListenTest  BY <2>2 DEF ListenTest
    <2>3. CASE Create  BY <2>3, NewInstIsFree DEF Create
    <2>4. CASE ConnectPends  BY <2>4 DEF ConnectPends
    <2>5. CASE ConnectFindsClient  BY <2>5 DEF ConnectFindsClient
    <2>6. CASE ConnectTooLate  BY <2>6 DEF ConnectTooLate, Discard
    <2>7. CASE ConnectReturns  BY <2>7 DEF ConnectReturns
    <2>8. CASE ReadAllocates  BY <2>8 DEF ReadAllocates
    <2>9. CASE ReadTest  BY <2>9 DEF ReadTest
    <2>10. CASE ReadRequest  BY <2>10 DEF ReadRequest, Unblock, AfterWrite
    <2>11. CASE ReadTooLong  BY <2>11 DEF ReadTooLong, Unblock, AfterWrite
    <2>12. CASE ReadBroken  BY <2>12 DEF ReadBroken
    <2>13. CASE Handle  BY <2>13 DEF Handle
    <2>14. CASE Send  BY <2>14 DEF Send
    <2>15. CASE SendFails  BY <2>15 DEF SendFails
    <2>16. CASE FlushDisconnectClose  BY <2>16 DEF FlushDisconnectClose, Discard
    <2> QED
            BY <1>3, <2>1, <2>2, <2>3, <2>4, <2>5, <2>6, <2>7, <2>8, <2>9, <2>10, <2>11, <2>12,
          <2>13, <2>14, <2>15, <2>16 DEF ServerNext
  <1>4. CASE ServerFaults
    <2> USE DEF TypeOK, InvOwner, Go, ownerVars, serverVars, pipeVars, clientVars, params
    <2>1. CASE CreateFails  BY <2>1 DEF CreateFails
    <2>2. CASE ReadAllocFails  BY <2>2 DEF ReadAllocFails
    <2>3. CASE ReplyNotText  BY <2>3 DEF ReplyNotText
    <2> QED
      BY <1>4, <2>1, <2>2, <2>3 DEF ServerFaults
  <1>5. ASSUME NEW c \in Calls, Begin(c) \/ Die(c) \/ Exit(c) \/ ClientNext(c)
        PROVE  InvOwner'
        <2> USE DEF Move, Throw, TypeOK, InvOwner, Go, ownerVars, serverVars, pipeVars,
        clientVars, params
    <2>1. CASE Begin(c)  BY <2>1 DEF Begin
    <2>2. CASE Die(c)  BY <2>2 DEF Die, Hangup
    <2>3. CASE Open(c)  BY <2>3 DEF Open
    <2>4. CASE OpenBusy(c)  BY <2>4 DEF OpenBusy
    <2>5. CASE OpenNotFound(c)  BY <2>5 DEF OpenNotFound
    <2>6. CASE WaitSucceeds(c)  BY <2>6 DEF WaitSucceeds
    <2>7. CASE WaitFails(c)  BY <2>7 DEF WaitFails
    <2>8. CASE SetMode(c)  BY <2>8 DEF SetMode
    <2>9. CASE SetModeFails(c)  BY <2>9 DEF SetModeFails
    <2>10. CASE Write(c)  BY <2>10 DEF Write, AfterWrite
    <2>11. CASE WriteFails(c)  BY <2>11 DEF WriteFails
    <2>12. CASE ReadResponse(c)  BY <2>12 DEF ReadResponse
    <2>13. CASE ReadFails(c)  BY <2>13 DEF ReadFails
    <2>14. CASE Close(c)  BY <2>14 DEF Close, Hangup
    <2>15. CASE RequestNotText(c)  BY <2>15 DEF RequestNotText
    <2>16. CASE Exit(c)  BY <2>16 DEF Exit, Hangup
    <2> QED
            BY <1>5, <2>1, <2>2, <2>3, <2>4, <2>5, <2>6, <2>7, <2>8, <2>9, <2>10, <2>11, <2>12,
          <2>13, <2>14, <2>15, <2>16 DEF ClientNext
  <1> QED
    BY <1>1, <1>2, <1>3, <1>4, <1>5, NextCases

\* Only a response that cannot be sent makes Read leave an instance open.
LEMMA OneStep ==
    ASSUME TypeOK, InvServer, InvConn, InvReq, InvCur, InvHandled, InvOwner, OneInstance, InvLeft, [Next]_vars
    PROVE  OneInstance'
  <1> USE PipeAssumption
  <1>1. CASE UNCHANGED vars
        BY <1>1 DEF vars, ownerVars, serverVars, pipeVars, clientVars, params, TypeOK, InvServer,
        OneInstance, Accepting, Serving, Listening, Go
  <1>2. CASE OwnerNext \/ Quit
        <2> USE DEF TypeOK, InvServer, OneInstance, Accepting, Serving, Listening, Go, ownerVars,
        serverVars, pipeVars, clientVars, params
    <2>1. CASE Start  BY <2>1 DEF Start, InvOwner
    <2>2. CASE Quit  BY <2>2 DEF Quit
    <2>3. CASE StopTest  BY <2>3 DEF StopTest, NextStop
    <2>4. CASE StopDelete  BY <2>4 DEF StopDelete
    <2>5. CASE StopJoin  BY <2>5 DEF StopJoin, NextStop
    <2>6. CASE Destroy  BY <2>6 DEF Destroy
    <2>7. CASE Terminate  BY <2>7 DEF Terminate
    <2> QED
      BY <1>2, <2>1, <2>2, <2>3, <2>4, <2>5, <2>6, <2>7 DEF OwnerNext
  <1>3. CASE ServerNext
        <2> USE DEF TypeOK, InvServer, OneInstance, Accepting, Serving, Listening, Go, ownerVars,
        serverVars, pipeVars, clientVars, params
    <2>1. CASE ListenEntry  BY <2>1 DEF ListenEntry
    <2>2. CASE ListenTest  BY <2>2 DEF ListenTest
    <2>3. CASE Create  BY <2>3, NewInstIsFree DEF Create, Free
    <2>4. CASE ConnectPends  BY <2>4 DEF ConnectPends
    <2>5. CASE ConnectFindsClient  BY <2>5 DEF ConnectFindsClient
    <2>6. CASE ConnectTooLate  BY <2>6 DEF ConnectTooLate, Discard
    <2>7. CASE ConnectReturns  BY <2>7 DEF ConnectReturns
    <2>8. CASE ReadAllocates  BY <2>8 DEF ReadAllocates
    <2>9. CASE ReadTest  BY <2>9 DEF ReadTest
    <2>10. CASE ReadRequest  BY <2>10 DEF ReadRequest, Unblock, AfterWrite
    <2>11. CASE ReadTooLong  BY <2>11 DEF ReadTooLong, Unblock, AfterWrite
    <2>12. CASE ReadBroken  BY <2>12 DEF ReadBroken
    <2>13. CASE Handle  BY <2>13 DEF Handle
    <2>14. CASE Send  BY <2>14 DEF Send
    <2>15. CASE SendFails  BY <2>15 DEF SendFails, InvCur
    <2>16. CASE FlushDisconnectClose  BY <2>16 DEF FlushDisconnectClose, Discard
    <2> QED
            BY <1>3, <2>1, <2>2, <2>3, <2>4, <2>5, <2>6, <2>7, <2>8, <2>9, <2>10, <2>11, <2>12,
          <2>13, <2>14, <2>15, <2>16 DEF ServerNext
  <1>4. CASE ServerFaults
        <2> USE DEF TypeOK, InvServer, OneInstance, Accepting, Serving, Listening, Go, ownerVars,
        serverVars, pipeVars, clientVars, params
    <2>1. CASE CreateFails  BY <2>1 DEF CreateFails
    <2>2. CASE ReadAllocFails  BY <2>2 DEF ReadAllocFails
    <2>3. CASE ReplyNotText  BY <2>3 DEF ReplyNotText, InvCur
    <2> QED
      BY <1>4, <2>1, <2>2, <2>3 DEF ServerFaults
  <1>5. ASSUME NEW c \in Calls, Begin(c) \/ Die(c) \/ Exit(c) \/ ClientNext(c)
        PROVE  OneInstance'
        <2> USE DEF Move, Throw, TypeOK, InvServer, OneInstance, Accepting, Serving, Listening,
        Go, ownerVars, serverVars, pipeVars, clientVars, params
    <2>1. CASE Begin(c)  BY <2>1 DEF Begin
    <2>2. CASE Die(c)  BY <2>2 DEF Die, Hangup, InvConn, Holding
    <2>3. CASE Open(c)  BY <2>3 DEF Open, InvConn
    <2>4. CASE OpenBusy(c)  BY <2>4 DEF OpenBusy
    <2>5. CASE OpenNotFound(c)  BY <2>5 DEF OpenNotFound
    <2>6. CASE WaitSucceeds(c)  BY <2>6 DEF WaitSucceeds
    <2>7. CASE WaitFails(c)  BY <2>7 DEF WaitFails
    <2>8. CASE SetMode(c)  BY <2>8 DEF SetMode
    <2>9. CASE SetModeFails(c)  BY <2>9 DEF SetModeFails
    <2>10. CASE Write(c)
      <3>1. conn[c] \in Instances /\ state[conn[c]] = "connected" /\ handled[c] = 0
        BY <2>10 DEF Write, InvConn, Connected, Holding, InvHandled
      <3>2. "alloc" \notin faults => InHand(conn[c])
        BY <3>1 DEF InvLeft
      <3> QED
        BY <2>10, <3>2 DEF Write, InHand
    <2>11. CASE WriteFails(c)  BY <2>11 DEF WriteFails
    <2>12. CASE ReadResponse(c)  BY <2>12 DEF ReadResponse
    <2>13. CASE ReadFails(c)  BY <2>13 DEF ReadFails
    <2>14. CASE Close(c)  BY <2>14 DEF Close, Hangup, InvConn, Holding
    <2>15. CASE RequestNotText(c)  BY <2>15 DEF RequestNotText
    <2>16. CASE Exit(c)  BY <2>16 DEF Exit, Hangup
    <2> QED
            BY <1>5, <2>1, <2>2, <2>3, <2>4, <2>5, <2>6, <2>7, <2>8, <2>9, <2>10, <2>11, <2>12,
          <2>13, <2>14, <2>15, <2>16 DEF ClientNext
  <1> QED
    BY <1>1, <1>2, <1>3, <1>4, <1>5, NextCases

\* Only a response that is not UTF-8 makes Read leave a client that is there.
LEMMA LeftStep ==
    ASSUME TypeOK, InvServer, InvConn, InvReq, InvCur, InvHandled, InvOwner, InvLeft, [Next]_vars
    PROVE  InvLeft'
  <1> USE PipeAssumption
  <1>1. CASE UNCHANGED vars
        BY <1>1 DEF vars, ownerVars, serverVars, pipeVars, clientVars, params, TypeOK, InvServer,
        InvLeft, InHand, InvConn, Connected, Holding, InvHandled, Accepting, Serving, Listening, Go
  <1>2. CASE OwnerNext \/ Quit
        <2> USE DEF TypeOK, InvServer, InvLeft, InHand, InvConn, Connected, Holding, InvHandled, Accepting, Serving, Listening, Go, ownerVars,
        serverVars, pipeVars, clientVars, params
    <2>1. CASE Start  BY <2>1 DEF Start, InvOwner
    <2>2. CASE Quit  BY <2>2 DEF Quit
    <2>3. CASE StopTest  BY <2>3 DEF StopTest, NextStop
    <2>4. CASE StopDelete  BY <2>4 DEF StopDelete
    <2>5. CASE StopJoin  BY <2>5 DEF StopJoin, NextStop
    <2>6. CASE Destroy  BY <2>6 DEF Destroy
    <2>7. CASE Terminate  BY <2>7 DEF Terminate
    <2> QED
      BY <1>2, <2>1, <2>2, <2>3, <2>4, <2>5, <2>6, <2>7 DEF OwnerNext
  <1>3. CASE ServerNext
        <2> USE DEF TypeOK, InvServer, InvLeft, InHand, InvConn, Connected, Holding, InvHandled, Accepting, Serving, Listening, Go, ownerVars,
        serverVars, pipeVars, clientVars, params
    <2>1. CASE ListenEntry  BY <2>1 DEF ListenEntry
    <2>2. CASE ListenTest  BY <2>2 DEF ListenTest
    <2>3. CASE Create  BY <2>3, NewInstIsFree DEF Create, Free
    <2>4. CASE ConnectPends  BY <2>4 DEF ConnectPends
    <2>5. CASE ConnectFindsClient  BY <2>5 DEF ConnectFindsClient
    <2>6. CASE ConnectTooLate  BY <2>6 DEF ConnectTooLate, Discard
    <2>7. CASE ConnectReturns  BY <2>7 DEF ConnectReturns
    <2>8. CASE ReadAllocates  BY <2>8 DEF ReadAllocates
    <2>9. CASE ReadTest  BY <2>9 DEF ReadTest
    <2>10. CASE ReadRequest  BY <2>10 DEF ReadRequest, Unblock, AfterWrite
    <2>11. CASE ReadTooLong  BY <2>11 DEF ReadTooLong, Unblock, AfterWrite
    <2>12. CASE ReadBroken  BY <2>12 DEF ReadBroken
    <2>13. CASE Handle  BY <2>13 DEF Handle, InvCur
    <2>14. CASE Send  BY <2>14 DEF Send
    <2>15. CASE SendFails  BY <2>15 DEF SendFails, InvCur
    <2>16. CASE FlushDisconnectClose  BY <2>16 DEF FlushDisconnectClose, Discard
    <2> QED
            BY <1>3, <2>1, <2>2, <2>3, <2>4, <2>5, <2>6, <2>7, <2>8, <2>9, <2>10, <2>11, <2>12,
          <2>13, <2>14, <2>15, <2>16 DEF ServerNext
  <1>4. CASE ServerFaults
        <2> USE DEF TypeOK, InvServer, InvLeft, InHand, InvConn, Connected, Holding, InvHandled, Accepting, Serving, Listening, Go, ownerVars,
        serverVars, pipeVars, clientVars, params
    <2>1. CASE CreateFails  BY <2>1 DEF CreateFails
    <2>2. CASE ReadAllocFails  BY <2>2 DEF ReadAllocFails
    <2>3. CASE ReplyNotText  BY <2>3 DEF ReplyNotText, InvCur
    <2> QED
      BY <1>4, <2>1, <2>2, <2>3 DEF ServerFaults
  <1>5. ASSUME NEW c \in Calls, Begin(c) \/ Die(c) \/ Exit(c) \/ ClientNext(c)
        PROVE  InvLeft'
        <2> USE DEF Move, Throw, TypeOK, InvServer, InvLeft, InHand, InvConn, Connected, Holding, InvHandled, Accepting, Serving, Listening,
        Go, ownerVars, serverVars, pipeVars, clientVars, params
    <2>1. CASE Begin(c)  BY <2>1 DEF Begin
    <2>2. CASE Die(c)  BY <2>2 DEF Die, Hangup, InvConn, Holding
    <2>3. CASE Open(c)  BY <2>3 DEF Open, InvConn
    <2>4. CASE OpenBusy(c)  BY <2>4 DEF OpenBusy
    <2>5. CASE OpenNotFound(c)  BY <2>5 DEF OpenNotFound
    <2>6. CASE WaitSucceeds(c)  BY <2>6 DEF WaitSucceeds
    <2>7. CASE WaitFails(c)  BY <2>7 DEF WaitFails
    <2>8. CASE SetMode(c)  BY <2>8 DEF SetMode
    <2>9. CASE SetModeFails(c)  BY <2>9 DEF SetModeFails
    <2>10. CASE Write(c)  BY <2>10 DEF Write, AfterWrite, InvConn, Connected, Holding
    <2>11. CASE WriteFails(c)  BY <2>11 DEF WriteFails
    <2>12. CASE ReadResponse(c)  BY <2>12 DEF ReadResponse
    <2>13. CASE ReadFails(c)  BY <2>13 DEF ReadFails
    <2>14. CASE Close(c)  BY <2>14 DEF Close, Hangup, InvConn, Holding
    <2>15. CASE RequestNotText(c)  BY <2>15 DEF RequestNotText
    <2>16. CASE Exit(c)  BY <2>16 DEF Exit, Hangup
    <2> QED
            BY <1>5, <2>1, <2>2, <2>3, <2>4, <2>5, <2>6, <2>7, <2>8, <2>9, <2>10, <2>11, <2>12,
          <2>13, <2>14, <2>15, <2>16 DEF ClientNext
  <1> QED
    BY <1>1, <1>2, <1>3, <1>4, <1>5, NextCases

\* Only a request that is not UTF-8 makes sendRequest leave a server that is there.
LEMMA LeakStep ==
    ASSUME TypeOK, InvServer, InvConn, InvReq, InvCur, InvHandled, InvResp, InvOwner, InvLeft, OneLiveLeak, [Next]_vars
    PROVE  OneLiveLeak'
  <1> USE PipeAssumption
  <1>1. CASE UNCHANGED vars
        BY <1>1 DEF vars, ownerVars, serverVars, pipeVars, clientVars, params, TypeOK, InvServer,
        OneLiveLeak, Leaked, InvLeft, InHand, InvConn, Connected, Holding, Accepting, Serving, Listening, Go
  <1>2. CASE OwnerNext \/ Quit
        <2> USE DEF TypeOK, InvServer, OneLiveLeak, Leaked, InvLeft, InHand, InvConn, Connected, Holding, Accepting, Serving, Listening, Go, ownerVars,
        serverVars, pipeVars, clientVars, params
    <2>1. CASE Start  BY <2>1 DEF Start, InvOwner
    <2>2. CASE Quit  BY <2>2 DEF Quit
    <2>3. CASE StopTest  BY <2>3 DEF StopTest, NextStop
    <2>4. CASE StopDelete  BY <2>4 DEF StopDelete
    <2>5. CASE StopJoin  BY <2>5 DEF StopJoin, NextStop
    <2>6. CASE Destroy  BY <2>6 DEF Destroy
    <2>7. CASE Terminate  BY <2>7 DEF Terminate
    <2> QED
      BY <1>2, <2>1, <2>2, <2>3, <2>4, <2>5, <2>6, <2>7 DEF OwnerNext
  <1>3. CASE ServerNext
        <2> USE DEF TypeOK, InvServer, OneLiveLeak, Leaked, InvLeft, InHand, InvConn, Connected, Holding, Accepting, Serving, Listening, Go, ownerVars,
        serverVars, pipeVars, clientVars, params
    <2>1. CASE ListenEntry  BY <2>1 DEF ListenEntry
    <2>2. CASE ListenTest  BY <2>2 DEF ListenTest
    <2>3. CASE Create  BY <2>3, NewInstIsFree DEF Create, Free
    <2>4. CASE ConnectPends  BY <2>4 DEF ConnectPends
    <2>5. CASE ConnectFindsClient  BY <2>5 DEF ConnectFindsClient
    <2>6. CASE ConnectTooLate  BY <2>6 DEF ConnectTooLate, Discard
    <2>7. CASE ConnectReturns  BY <2>7 DEF ConnectReturns
    <2>8. CASE ReadAllocates  BY <2>8 DEF ReadAllocates
    <2>9. CASE ReadTest  BY <2>9 DEF ReadTest
    <2>10. CASE ReadRequest  BY <2>10 DEF ReadRequest, Unblock, AfterWrite
    <2>11. CASE ReadTooLong  BY <2>11 DEF ReadTooLong, Unblock, AfterWrite
    <2>12. CASE ReadBroken  BY <2>12 DEF ReadBroken
    <2>13. CASE Handle  BY <2>13 DEF Handle
    <2>14. CASE Send  BY <2>14 DEF Send, InvCur
    <2>15. CASE SendFails  BY <2>15 DEF SendFails, InvCur
    <2>16. CASE FlushDisconnectClose  BY <2>16 DEF FlushDisconnectClose, Discard
    <2> QED
            BY <1>3, <2>1, <2>2, <2>3, <2>4, <2>5, <2>6, <2>7, <2>8, <2>9, <2>10, <2>11, <2>12,
          <2>13, <2>14, <2>15, <2>16 DEF ServerNext
  <1>4. CASE ServerFaults
        <2> USE DEF TypeOK, InvServer, OneLiveLeak, Leaked, InvLeft, InHand, InvConn, Connected, Holding, Accepting, Serving, Listening, Go, ownerVars,
        serverVars, pipeVars, clientVars, params
    <2>1. CASE CreateFails  BY <2>1 DEF CreateFails
    <2>2. CASE ReadAllocFails  BY <2>2 DEF ReadAllocFails
    <2>3. CASE ReplyNotText  BY <2>3 DEF ReplyNotText
    <2> QED
      BY <1>4, <2>1, <2>2, <2>3 DEF ServerFaults
  <1>5. ASSUME NEW c \in Calls, Begin(c) \/ Die(c) \/ Exit(c) \/ ClientNext(c)
        PROVE  OneLiveLeak'
        <2> USE DEF Move, Throw, TypeOK, InvServer, OneLiveLeak, Leaked, InvLeft, InHand, InvConn, Connected, Holding, Accepting, Serving, Listening,
        Go, ownerVars, serverVars, pipeVars, clientVars, params
    <2>1. CASE Begin(c)  BY <2>1 DEF Begin
    <2>2. CASE Die(c)  BY <2>2 DEF Die, Hangup, InvConn, Holding
    <2>3. CASE Open(c)  BY <2>3 DEF Open, InvConn
    <2>4. CASE OpenBusy(c)  BY <2>4 DEF OpenBusy
    <2>5. CASE OpenNotFound(c)  BY <2>5 DEF OpenNotFound
    <2>6. CASE WaitSucceeds(c)  BY <2>6 DEF WaitSucceeds
    <2>7. CASE WaitFails(c)  BY <2>7 DEF WaitFails
    <2>8. CASE SetMode(c)  BY <2>8 DEF SetMode
    <2>9. CASE SetModeFails(c)  BY <2>9 DEF SetModeFails
    <2>10. CASE Write(c)  BY <2>10 DEF Write, AfterWrite, InvConn, Connected, Holding
    <2>11. CASE WriteFails(c)  BY <2>11 DEF WriteFails
    <2>12. CASE ReadResponse(c)  BY <2>12 DEF ReadResponse
    <2>13. CASE ReadFails(c)  BY <2>13 DEF ReadFails
    <2>14. CASE Close(c)  BY <2>14 DEF Close, Hangup, InvConn, Holding
    <2>15. CASE RequestNotText(c)
      <3> SUFFICES ASSUME conn[c] # NoInst, state[conn[c]] # "none"
                   PROVE  /\ "text" \in faults
                          /\ state[conn[c]] = "connected"
                          /\ req[conn[c]] = NoCall /\ resp[conn[c]] = NoCall
                          /\ \/ InHand(conn[c]) /\ spc \notin {"handle", "send"}
                             \/ "alloc" \in faults
        BY <2>15 DEF RequestNotText
      <3>1. cpc[c] = "write" /\ handled[c] = 0 /\ "text" \in faults
        BY <2>15 DEF RequestNotText, InvHandled
      <3>2. conn[c] \in Instances /\ state[conn[c]] = "connected"
        OBVIOUS
      <3>3. \A d \in Calls : conn[d] = conn[c] => d = c
        OBVIOUS
      <3>4. req[conn[c]] = NoCall
        BY <3>1, <3>2, <3>3 DEF InvReq
      <3>5. resp[conn[c]] = NoCall
        BY <3>1, <3>2, <3>3 DEF InvResp
      <3>6. "alloc" \notin faults => InHand(conn[c])
        BY <3>1, <3>2
      <3>7. InHand(conn[c]) => spc \notin {"handle", "send"}
        BY <3>1, <3>2, <3>3 DEF InvCur
      <3> QED
        BY <3>1, <3>2, <3>4, <3>5, <3>6, <3>7
    <2>16. CASE Exit(c)  BY <2>16 DEF Exit, Hangup
    <2> QED
            BY <1>5, <2>1, <2>2, <2>3, <2>4, <2>5, <2>6, <2>7, <2>8, <2>9, <2>10, <2>11, <2>12,
          <2>13, <2>14, <2>15, <2>16 DEF ClientNext
  <1> QED
    BY <1>1, <1>2, <1>3, <1>4, <1>5, NextCases

-----------------------------------------------------------------------------
(* The invariant, and the properties that follow from it.                  *)

LEMMA InitInv ==
    ASSUME Init
    PROVE  IInv
  <1> USE PipeAssumption DEF Init
  <1>1. TypeOK
    BY DEF TypeOK, OwnerPCs, ServerPCs, ClientPCs
  <1>2. InvServer /\ InvConn /\ InvReq /\ InvCur
    BY DEF InvServer, InvConn, InvReq, InvCur, Accepting, Serving, Holding
  <1>3. InvHandled /\ InvResp /\ InvGot
    BY DEF InvHandled, InvResp, InvGot
  <1>4. InvOrder /\ InvOwner /\ OneInstance /\ InvLeft /\ OneLiveLeak
    BY DEF InvOrder, InvOwner, OneInstance, InvLeft, OneLiveLeak, Leaked
  <1> QED
    BY <1>1, <1>2, <1>3, <1>4 DEF IInv

LEMMA NextInv ==
    ASSUME IInv, [Next]_vars
    PROVE  IInv'
  <1> USE DEF IInv
  <1>1. TypeOK' /\ InvServer' /\ InvConn'
    BY TypeStep, ServerStep, ConnStep
  <1>2. InvReq' /\ InvCur' /\ InvHandled'
    BY ReqStep, CurStep, HandledStep
  <1>3. InvResp' /\ InvGot' /\ InvOrder'
    BY RespStep, GotStep, OrderStep
  <1>4. InvOwner' /\ OneInstance' /\ InvLeft' /\ OneLiveLeak'
    BY OwnerStep, OneStep, LeftStep, LeakStep
  <1> QED
    BY <1>1, <1>2, <1>3, <1>4

\* The inductive invariant holds of every behaviour of the program.
THEOREM Invariance == Spec => []IInv
  BY InitInv, NextInv, PTL DEF Spec

\* Types: the program counters, the instances and the calls are what they are said to be.
THEOREM TypeCorrect == Spec => []TypeOK
  <1>1. IInv => TypeOK
    BY DEF IInv
  <1> QED
    BY <1>1, Invariance, PTL

\* Read and Listen leave no instance open but the one they work on, or one whose
\* client left before its response (NamedPipeServer.cpp:54-85, 130-176).
THEOREM InstancesAreClosed == Spec => []OneInstance
  <1>1. IInv => OneInstance
    BY DEF IInv
  <1> QED
    BY <1>1, Invariance, PTL

\* Stop returns true only of a server that is down (NamedPipeServer.cpp:28-40).
THEOREM StopIsTruthful == Spec => []StopTrueMeansDown
  <1>1. IInv => StopTrueMeansDown
    <2> SUFFICES ASSUME IInv, stopped PROVE StopTrueMeansDown
      BY DEF StopTrueMeansDown
    <2>1. ~joinable /\ spc \in {"none", "done"}
      BY DEF IInv, InvOwner
    <2>2. \A h \in Instances : ~Listening(h)
      BY <2>1 DEF IInv, InvServer, Listening, Accepting
    <2>3. \A h \in Instances : state[h] = "connected" =>
              "alloc" \in faults \/ ("text" \in faults /\ MayReply)
      BY <2>1 DEF IInv, OneInstance, Accepting, Serving
    <2> QED
      BY <2>1, <2>2, <2>3 DEF StopTrueMeansDown
  <1> QED
    BY <1>1, Invariance, PTL

\* A call gets the answer to its own request (NamedPipeServer.cpp:151-157,
\* NamedPipeClient.cpp:83-109).
THEOREM AnswersMatch == Spec => []AnswersOwnRequest
  <1>1. IInv => AnswersOwnRequest
    BY DEF IInv, InvGot, AnswersOwnRequest
  <1> QED
    BY <1>1, Invariance, PTL

\* The client end that sendRequest leaks when it throws is a dead one, but for one at a
\* time whose request was not UTF-8, and that holds up the thread
\* (NamedPipeClient.cpp:60-67, 77-81, 99-103).
THEOREM LeaksAreKnown == Spec => []OneLiveLeak
  <1>1. IInv => OneLiveLeak
    BY DEF IInv
  <1> QED
    BY <1>1, Invariance, PTL

-----------------------------------------------------------------------------
(* Nobody waits in a circle.                                               *)

\* A connected instance has a client.
InvClient ==
    \A h \in Instances : state[h] = "connected" => \E c \in Calls : conn[c] = h

\* Who reads waits for a response, and a response waits for one who reads or has not
\* closed yet.
InvReads ==
    /\ \A c \in Calls : cpc[c] = "read" => request[c].wait
    /\ \A h \in Instances : \A c \in Calls : resp[h] = c => cpc[c] \in {"read", "close"}

\* Who leaves an instance that is connected closes it.
LEMMA ClientStep ==
    ASSUME TypeOK, InvServer, InvConn, InvClient, [Next]_vars
    PROVE  InvClient'
  <1> USE PipeAssumption
  <1>1. CASE UNCHANGED vars
    BY <1>1 DEF vars, ownerVars, serverVars, pipeVars, clientVars, params, TypeOK, InvServer,
        InvConn, Holding, Free, Connected, Listening, Go, InvClient
  <1>2. CASE OwnerNext \/ Quit
    <2> USE DEF TypeOK, InvServer, InvConn, Holding, Free, Connected, Listening, Go, InvClient,
        ownerVars, serverVars, pipeVars, clientVars, params
    <2>1. CASE Start  BY <2>1 DEF Start
    <2>2. CASE Quit  BY <2>2 DEF Quit
    <2>3. CASE StopTest  BY <2>3 DEF StopTest, NextStop
    <2>4. CASE StopDelete  BY <2>4 DEF StopDelete
    <2>5. CASE StopJoin  BY <2>5 DEF StopJoin, NextStop
    <2>6. CASE Destroy  BY <2>6 DEF Destroy
    <2>7. CASE Terminate  BY <2>7 DEF Terminate
    <2> QED
      BY <1>2, <2>1, <2>2, <2>3, <2>4, <2>5, <2>6, <2>7 DEF OwnerNext
  <1>3. CASE ServerNext
    <2> USE DEF TypeOK, InvServer, InvConn, Holding, Free, Connected, Listening, Go, InvClient,
        ownerVars, serverVars, pipeVars, clientVars, params
    <2>1. CASE ListenEntry  BY <2>1 DEF ListenEntry
    <2>2. CASE ListenTest  BY <2>2 DEF ListenTest
    <2>3. CASE Create  BY <2>3, NewInstIsFree DEF Create
    <2>4. CASE ConnectPends  BY <2>4 DEF ConnectPends
    <2>5. CASE ConnectFindsClient  BY <2>5 DEF ConnectFindsClient
    <2>6. CASE ConnectTooLate  BY <2>6 DEF ConnectTooLate, Discard
    <2>7. CASE ConnectReturns  BY <2>7 DEF ConnectReturns
    <2>8. CASE ReadAllocates  BY <2>8 DEF ReadAllocates
    <2>9. CASE ReadTest  BY <2>9 DEF ReadTest
    <2>10. CASE ReadRequest  BY <2>10 DEF ReadRequest, Unblock, AfterWrite
    <2>11. CASE ReadTooLong  BY <2>11 DEF ReadTooLong, Unblock, AfterWrite
    <2>12. CASE ReadBroken  BY <2>12 DEF ReadBroken
    <2>13. CASE Handle  BY <2>13 DEF Handle
    <2>14. CASE Send  BY <2>14 DEF Send
    <2>15. CASE SendFails  BY <2>15 DEF SendFails
    <2>16. CASE FlushDisconnectClose  BY <2>16 DEF FlushDisconnectClose, Discard
    <2> QED
      BY <1>3, <2>1, <2>2, <2>3, <2>4, <2>5, <2>6, <2>7, <2>8, <2>9, <2>10, <2>11, <2>12, <2>13,
          <2>14, <2>15, <2>16 DEF ServerNext
  <1>4. CASE ServerFaults
    <2> USE DEF TypeOK, InvServer, InvConn, Holding, Free, Connected, Listening, Go, InvClient,
        ownerVars, serverVars, pipeVars, clientVars, params
    <2>1. CASE CreateFails  BY <2>1 DEF CreateFails
    <2>2. CASE ReadAllocFails  BY <2>2 DEF ReadAllocFails
    <2>3. CASE ReplyNotText  BY <2>3 DEF ReplyNotText
    <2> QED
      BY <1>4, <2>1, <2>2, <2>3 DEF ServerFaults
  <1>5. ASSUME NEW c \in Calls, Begin(c) \/ Die(c) \/ Exit(c) \/ ClientNext(c)
        PROVE  InvClient'
    <2> USE DEF Move, Throw, TypeOK, InvServer, InvConn, Holding, Free, Connected, Listening,
        Go, InvClient, ownerVars, serverVars, pipeVars, clientVars, params
    <2>1. CASE Begin(c)  BY <2>1 DEF Begin
    <2>2. CASE Die(c)  BY <2>2 DEF Die, Hangup
    <2>3. CASE Open(c)  BY <2>3 DEF Open
    <2>4. CASE OpenBusy(c)  BY <2>4 DEF OpenBusy
    <2>5. CASE OpenNotFound(c)  BY <2>5 DEF OpenNotFound
    <2>6. CASE WaitSucceeds(c)  BY <2>6 DEF WaitSucceeds
    <2>7. CASE WaitFails(c)  BY <2>7 DEF WaitFails
    <2>8. CASE SetMode(c)  BY <2>8 DEF SetMode
    <2>9. CASE SetModeFails(c)  BY <2>9 DEF SetModeFails
    <2>10. CASE Write(c)  BY <2>10 DEF Write, AfterWrite
    <2>11. CASE WriteFails(c)  BY <2>11 DEF WriteFails
    <2>12. CASE ReadResponse(c)  BY <2>12 DEF ReadResponse
    <2>13. CASE ReadFails(c)  BY <2>13 DEF ReadFails
    <2>14. CASE Close(c)  BY <2>14 DEF Close, Hangup
    <2>15. CASE RequestNotText(c)  BY <2>15 DEF RequestNotText
    <2>16. CASE Exit(c)  BY <2>16 DEF Exit, Hangup
    <2> QED
      BY <1>5, <2>1, <2>2, <2>3, <2>4, <2>5, <2>6, <2>7, <2>8, <2>9, <2>10, <2>11, <2>12, <2>13,
          <2>14, <2>15, <2>16 DEF ClientNext
  <1> QED
    BY <1>1, <1>2, <1>3, <1>4, <1>5, NextCases

\* A response is written to a call that reads or has not closed.
LEMMA ReadsStep ==
    ASSUME TypeOK, InvServer, InvConn, InvCur, InvResp, InvReads, [Next]_vars
    PROVE  InvReads'
  <1> USE PipeAssumption
  <1>1. CASE UNCHANGED vars
    BY <1>1 DEF vars, ownerVars, serverVars, pipeVars, clientVars, params, TypeOK, InvServer,
        InvConn, Holding, Free, Connected, Listening, Go, InvCur, InvResp, InvReads
  <1>2. CASE OwnerNext \/ Quit
    <2> USE DEF TypeOK, InvServer, InvConn, Holding, Free, Connected, Listening, Go, InvCur,
        InvResp, InvReads, ownerVars, serverVars, pipeVars, clientVars, params
    <2>1. CASE Start  BY <2>1 DEF Start
    <2>2. CASE Quit  BY <2>2 DEF Quit
    <2>3. CASE StopTest  BY <2>3 DEF StopTest, NextStop
    <2>4. CASE StopDelete  BY <2>4 DEF StopDelete
    <2>5. CASE StopJoin  BY <2>5 DEF StopJoin, NextStop
    <2>6. CASE Destroy  BY <2>6 DEF Destroy
    <2>7. CASE Terminate  BY <2>7 DEF Terminate
    <2> QED
      BY <1>2, <2>1, <2>2, <2>3, <2>4, <2>5, <2>6, <2>7 DEF OwnerNext
  <1>3. CASE ServerNext
    <2> USE DEF TypeOK, InvServer, InvConn, Holding, Free, Connected, Listening, Go, InvCur,
        InvResp, InvReads, ownerVars, serverVars, pipeVars, clientVars, params
    <2>1. CASE ListenEntry  BY <2>1 DEF ListenEntry
    <2>2. CASE ListenTest  BY <2>2 DEF ListenTest
    <2>3. CASE Create  BY <2>3, NewInstIsFree DEF Create
    <2>4. CASE ConnectPends  BY <2>4 DEF ConnectPends
    <2>5. CASE ConnectFindsClient  BY <2>5 DEF ConnectFindsClient
    <2>6. CASE ConnectTooLate  BY <2>6 DEF ConnectTooLate, Discard
    <2>7. CASE ConnectReturns  BY <2>7 DEF ConnectReturns
    <2>8. CASE ReadAllocates  BY <2>8 DEF ReadAllocates
    <2>9. CASE ReadTest  BY <2>9 DEF ReadTest
    <2>10. CASE ReadRequest  BY <2>10 DEF ReadRequest, Unblock, AfterWrite
    <2>11. CASE ReadTooLong  BY <2>11 DEF ReadTooLong, Unblock, AfterWrite
    <2>12. CASE ReadBroken  BY <2>12 DEF ReadBroken
    <2>13. CASE Handle  BY <2>13 DEF Handle
    <2>14. CASE Send  BY <2>14 DEF Send
    <2>15. CASE SendFails  BY <2>15 DEF SendFails
    <2>16. CASE FlushDisconnectClose  BY <2>16 DEF FlushDisconnectClose, Discard
    <2> QED
      BY <1>3, <2>1, <2>2, <2>3, <2>4, <2>5, <2>6, <2>7, <2>8, <2>9, <2>10, <2>11, <2>12, <2>13,
          <2>14, <2>15, <2>16 DEF ServerNext
  <1>4. CASE ServerFaults
    <2> USE DEF TypeOK, InvServer, InvConn, Holding, Free, Connected, Listening, Go, InvCur,
        InvResp, InvReads, ownerVars, serverVars, pipeVars, clientVars, params
    <2>1. CASE CreateFails  BY <2>1 DEF CreateFails
    <2>2. CASE ReadAllocFails  BY <2>2 DEF ReadAllocFails
    <2>3. CASE ReplyNotText  BY <2>3 DEF ReplyNotText
    <2> QED
      BY <1>4, <2>1, <2>2, <2>3 DEF ServerFaults
  <1>5. ASSUME NEW c \in Calls, Begin(c) \/ Die(c) \/ Exit(c) \/ ClientNext(c)
        PROVE  InvReads'
    <2> USE DEF Move, Throw, TypeOK, InvServer, InvConn, Holding, Free, Connected, Listening,
        Go, InvCur, InvResp, InvReads, ownerVars, serverVars, pipeVars, clientVars, params
    <2>1. CASE Begin(c)  BY <2>1 DEF Begin
    <2>2. CASE Die(c)  BY <2>2 DEF Die, Hangup
    <2>3. CASE Open(c)  BY <2>3 DEF Open
    <2>4. CASE OpenBusy(c)  BY <2>4 DEF OpenBusy
    <2>5. CASE OpenNotFound(c)  BY <2>5 DEF OpenNotFound
    <2>6. CASE WaitSucceeds(c)  BY <2>6 DEF WaitSucceeds
    <2>7. CASE WaitFails(c)  BY <2>7 DEF WaitFails
    <2>8. CASE SetMode(c)  BY <2>8 DEF SetMode
    <2>9. CASE SetModeFails(c)  BY <2>9 DEF SetModeFails
    <2>10. CASE Write(c)  BY <2>10 DEF Write, AfterWrite
    <2>11. CASE WriteFails(c)  BY <2>11 DEF WriteFails
    <2>12. CASE ReadResponse(c)  BY <2>12 DEF ReadResponse
    <2>13. CASE ReadFails(c)  BY <2>13 DEF ReadFails
    <2>14. CASE Close(c)  BY <2>14 DEF Close, Hangup
    <2>15. CASE RequestNotText(c)  BY <2>15 DEF RequestNotText
    <2>16. CASE Exit(c)  BY <2>16 DEF Exit, Hangup
    <2> QED
      BY <1>5, <2>1, <2>2, <2>3, <2>4, <2>5, <2>6, <2>7, <2>8, <2>9, <2>10, <2>11, <2>12, <2>13,
          <2>14, <2>15, <2>16 DEF ClientNext
  <1> QED
    BY <1>1, <1>2, <1>3, <1>4, <1>5, NextCases

\* What a call that waits in WriteFile or ReadFile waits for: its request is in the
\* instance or in the hands of the thread, its response is there, or the thread is about
\* to disconnect it; a handler that gives no response, or one that is not UTF-8, is what
\* else there is.
Unsent(c) == "text" \in faults /\ handled[c] = 1 /\ ~InHand(conn[c])

Pends(c) ==
    /\ cpc[c] = "writing" /\ Connected(c) =>
          \/ req[conn[c]] = c
          \/ conn[c] = mHPipe /\ spc = "flush"
    /\ cpc[c] = "read" /\ Connected(c) =>
          \/ req[conn[c]] = c
          \/ resp[conn[c]] = c
          \/ conn[c] = mHPipe /\ spc \in {"handle", "send"} /\ cur = c
          \/ conn[c] = mHPipe /\ spc = "flush"
          \/ conn[c] = mHPipe /\ spc \in {"test", "read"} /\ FALSE \in Replies
          \/ Unsent(c)

InvPending == \A c \in Calls : Pends(c)

\* Read returns with no response only if handleRequest may give none.
LEMMA TestMeansNoReply ==
    ASSUME Handle
    PROVE  spc' = "test" => FALSE \in Replies
  <1>1. ASSUME NEW reply \in Replies
        PROVE  FALSE \in Replies \/ reply = TRUE
    BY <1>1, PipeAssumption
  <1> QED
    BY <1>1, Zenon DEF Handle, Go

\* A step that does not touch the instance of a call leaves it as it was.
LEMMA StillPends ==
    ASSUME TypeOK, InvConn, NEW d \in Calls, Pends(d), UNCHANGED <<serverVars, params, handled>>,
           cpc'[d] = cpc[d], conn'[d] = conn[d],
           ASSUME conn[d] \in Instances, state'[conn[d]] = "connected"
           PROVE  /\ state[conn[d]] = "connected"
                  /\ req'[conn[d]] = req[conn[d]]
                  /\ resp'[conn[d]] = resp[conn[d]]
    PROVE  Pends(d)'
  <1>1. cpc[d] \in {"writing", "read"} => conn[d] \in Instances
    BY DEF InvConn, Holding
  <1> QED
    BY <1>1 DEF Pends, Unsent, InHand, Connected, serverVars, params

\* A call does not touch the instance of another one.
LEMMA OthersPend ==
    ASSUME TypeOK, InvConn, InvServer, NEW c \in Calls, Begin(c) \/ Die(c) \/ Exit(c) \/ ClientNext(c),
           NEW d \in Calls, d # c, Pends(d)
    PROVE  Pends(d)'
  <1>1. UNCHANGED <<serverVars, params, handled>>
    <2> USE DEF serverVars, params
    <2>1. CASE Begin(c) \/ Die(c) \/ Exit(c)  BY <2>1 DEF Begin, Die, Exit
    <2>2. CASE Open(c) \/ OpenBusy(c) \/ OpenNotFound(c) \/ WaitSucceeds(c) \/ WaitFails(c)
      BY <2>2 DEF Open, OpenBusy, OpenNotFound, WaitSucceeds, WaitFails, Throw
    <2>3. CASE SetMode(c) \/ SetModeFails(c) \/ RequestNotText(c) \/ Write(c) \/ WriteFails(c)
      BY <2>3 DEF SetMode, SetModeFails, RequestNotText, Write, WriteFails, Throw
    <2>4. CASE ReadResponse(c) \/ ReadFails(c) \/ Close(c)
      BY <2>4 DEF ReadResponse, ReadFails, Close, Throw
    <2> QED
      BY <2>1, <2>2, <2>3, <2>4 DEF ClientNext
  <1>2. /\ cpc'[d] = cpc[d]
        /\ conn'[d] = conn[d]
        /\ conn[d] \in Instances /\ state'[conn[d]] = "connected" =>
              /\ state[conn[d]] = "connected"
              /\ req'[conn[d]] = req[conn[d]]
              /\ resp'[conn[d]] = resp[conn[d]]
    <2> USE DEF Move, Throw, TypeOK, pipeVars
    <2>1. CASE Begin(c) \/ OpenBusy(c) \/ OpenNotFound(c) \/ WaitSucceeds(c) \/ WaitFails(c)
      BY <2>1 DEF Begin, OpenBusy, OpenNotFound, WaitSucceeds, WaitFails
    <2>2. CASE SetMode(c) \/ SetModeFails(c) \/ RequestNotText(c) \/ WriteFails(c) \/ ReadFails(c)
      BY <2>2 DEF SetMode, SetModeFails, RequestNotText, WriteFails, ReadFails
    <2>3. CASE Open(c)
      BY <2>3, PipeAssumption DEF Open, Listening, InvConn
    <2>4. CASE Write(c)
      BY <2>4, PipeAssumption DEF Write, InvConn, Holding
    <2>5. CASE ReadResponse(c)
      BY <2>5, PipeAssumption DEF ReadResponse, InvConn, Holding
    <2>6. CASE Close(c)
      BY <2>6, PipeAssumption DEF Close, Hangup, InvConn, Holding
    <2>7. CASE Die(c) \/ Exit(c)
      BY <2>7, PipeAssumption DEF Die, Exit, Hangup, InvConn, Holding
    <2> QED
      BY <2>1, <2>2, <2>3, <2>4, <2>5, <2>6, <2>7 DEF ClientNext
  <1> QED
    BY <1>1, <1>2, StillPends

\* Read leaves its loop for FlushFileBuffers only.
LEMMA PendingStep ==
    ASSUME TypeOK, InvServer, InvConn, InvReq, InvCur, InvResp, InvOwner, InvPending,
        [Next]_vars
    PROVE  InvPending'
  <1> USE PipeAssumption
  <1>1. CASE UNCHANGED vars
    BY <1>1 DEF vars, ownerVars, serverVars, pipeVars, clientVars, params, TypeOK, InvServer,
        InvConn, Holding, Connected, Listening, Go, InvPending, Pends, Unsent, InHand, Accepting,
        Serving
  <1>2. CASE OwnerNext \/ Quit
    <2> USE DEF TypeOK, InvServer, InvConn, Holding, Connected, Listening, Go, InvPending,
        Pends, Unsent, InHand, Accepting, Serving, ownerVars, serverVars, pipeVars, clientVars, params
    <2>1. CASE Start  BY <2>1 DEF Start, InvOwner
    <2>2. CASE Quit  BY <2>2 DEF Quit
    <2>3. CASE StopTest
      <3> SUFFICES ASSUME NEW d \in Calls PROVE Pends(d)'
        BY DEF InvPending
      <3>1. Pends(d) /\ (cpc[d] \in {"writing", "read"} => conn[d] \in Instances)
        BY DEF InvPending, InvConn, Holding
      <3> HIDE DEF InvPending, InvConn, InvServer
      <3> QED
        BY <2>3, <3>1 DEF StopTest, NextStop
    <2>4. CASE StopDelete
      <3> SUFFICES ASSUME NEW d \in Calls PROVE Pends(d)'
        BY DEF InvPending
      <3>1. Pends(d) /\ (cpc[d] \in {"writing", "read"} => conn[d] \in Instances)
        BY DEF InvPending, InvConn, Holding
      <3> HIDE DEF InvPending, InvConn, InvServer
      <3>2. conn[d] \in Instances /\ state'[conn[d]] = "connected" => state[conn[d]] =
          "connected"
        BY <2>4 DEF StopDelete
      <3> QED
        BY <2>4, <3>1, <3>2, StillPends DEF StopDelete
    <2>5. CASE StopJoin  BY <2>5 DEF StopJoin, NextStop
    <2>6. CASE Destroy  BY <2>6 DEF Destroy
    <2>7. CASE Terminate  BY <2>7 DEF Terminate
    <2> QED
      BY <1>2, <2>1, <2>2, <2>3, <2>4, <2>5, <2>6, <2>7 DEF OwnerNext
  <1>3. CASE ServerNext
    <2> USE DEF TypeOK, InvServer, InvConn, Holding, Connected, Listening, Go, InvPending,
        Pends, Unsent, InHand, Accepting, Serving, ownerVars, serverVars, pipeVars, clientVars, params
    <2>1. CASE ListenEntry  BY <2>1 DEF ListenEntry
    <2>2. CASE ListenTest  BY <2>2 DEF ListenTest
    <2>3. CASE Create  BY <2>3, NewInstIsFree DEF Create, Free
    <2>4. CASE ConnectPends  BY <2>4 DEF ConnectPends
    <2>5. CASE ConnectFindsClient  BY <2>5 DEF ConnectFindsClient
    <2>6. CASE ConnectTooLate  BY <2>6 DEF ConnectTooLate, Discard
    <2>7. CASE ConnectReturns  BY <2>7 DEF ConnectReturns
    <2>8. CASE ReadAllocates  BY <2>8 DEF ReadAllocates
    <2>9. CASE ReadTest
      <3> SUFFICES ASSUME NEW d \in Calls PROVE Pends(d)'
        BY DEF InvPending
      <3>1. Pends(d) /\ (cpc[d] \in {"writing", "read"} => conn[d] \in Instances)
        BY DEF InvPending, InvConn, Holding
      <3> HIDE DEF InvPending, InvConn, InvServer
      <3> QED
        BY <2>9, <3>1 DEF ReadTest
    <2>10. CASE ReadRequest
      <3> SUFFICES ASSUME NEW d \in Calls PROVE Pends(d)'
        BY DEF InvPending
      <3>1. Pends(d) /\ (cpc[d] \in {"writing", "read"} => conn[d] \in Instances)
        BY DEF InvPending, InvConn, Holding
      <3> HIDE DEF InvPending, InvConn, InvServer
      <3>2. PICK c \in Calls : /\ req[mHPipe] = c /\ cur' = c
                              /\ cpc' = [cpc EXCEPT ![c] = IF @ = "writing" THEN AfterWrite(c)
                                  ELSE @]
        BY <2>10 DEF ReadRequest, Unblock
      <3>3. CASE d = c
        <4>1. cpc'[c] # "writing" /\ (cpc'[c] = "read" => cpc[c] \in {"writing", "read"})
          BY <3>2 DEF AfterWrite
        <4>2. cpc'[c] = "read" => conn[c] = mHPipe
          BY <2>10, <3>2, <4>1, PipeAssumption DEF ReadRequest, InvReq, InvConn, InvServer,
              Serving
        <4> QED
          BY <2>10, <3>2, <3>3, <4>1, <4>2 DEF ReadRequest
      <3>4. CASE d # c
        <4>1. cpc'[d] = cpc[d]
          BY <3>2, <3>4
        <4>2. conn[d] \in Instances /\ Connected(d) => conn[d] # mHPipe
          BY <3>2, <3>4, PipeAssumption DEF InvReq, InvConn
        <4>3. conn'[d] = conn[d] /\ handled'[d] = handled[d] /\ spc' = "handle" /\ mHPipe' = mHPipe
          BY <2>10 DEF ReadRequest
        <4>4. Unsent(d) => Unsent(d)'
          BY <2>10, <4>3 DEF ReadRequest
        <4>5. cpc'[d] \in {"writing", "read"} /\ Connected(d)' =>
                  /\ conn[d] # mHPipe /\ Connected(d)
                  /\ req'[conn'[d]] = req[conn[d]] /\ resp'[conn'[d]] = resp[conn[d]]
          BY <2>10, <3>1, <4>1, <4>2 DEF ReadRequest
        <4> HIDE DEF Unsent, Connected, TypeOK
        <4> QED
          BY <3>1, <4>1, <4>3, <4>4, <4>5
      <3> QED
        BY <2>10, <3>1, <3>3, <3>4 DEF ReadRequest
    <2>11. CASE ReadTooLong
      <3> SUFFICES ASSUME NEW d \in Calls PROVE Pends(d)'
        BY DEF InvPending
      <3>1. Pends(d) /\ (cpc[d] \in {"writing", "read"} => conn[d] \in Instances)
        BY DEF InvPending, InvConn, Holding
      <3> HIDE DEF InvPending, InvConn, InvServer
      <3>2. PICK c \in Calls : req[mHPipe] = c /\ (Unblock(c) \/ UNCHANGED cpc)
        BY <2>11 DEF ReadTooLong
      <3>3. cpc'[d] \in {"writing", "read"} => cpc[d] = cpc'[d] \/ (d = c /\ conn[c] = mHPipe)
        BY <2>11, <3>2, PipeAssumption
           DEF ReadTooLong, Unblock, AfterWrite, InvReq, InvConn, InvServer, Serving
      <3> QED
        BY <2>11, <3>1, <3>2, <3>3 DEF ReadTooLong
    <2>12. CASE ReadBroken  BY <2>12 DEF ReadBroken
    <2>13. CASE Handle
      <3> SUFFICES ASSUME NEW d \in Calls PROVE Pends(d)'
        BY DEF InvPending
      <3>1. Pends(d) /\ (cpc[d] \in {"writing", "read"} => conn[d] \in Instances)
        BY DEF InvPending, InvConn, Holding
      <3> HIDE DEF InvPending, InvConn, InvServer
      <3>2. spc' \in {"send", "test"}
        BY <2>13 DEF Handle
      <3>3. Unsent(d) => Unsent(d)'
        BY <2>13, <3>2, PipeAssumption DEF Handle, InvCur
      <3> HIDE DEF Unsent
      <3> QED
        BY <2>13, <3>1, TestMeansNoReply, <3>2, <3>3 DEF Handle
    <2>14. CASE Send
      <3> SUFFICES ASSUME NEW d \in Calls PROVE Pends(d)'
        BY DEF InvPending
      <3>1. Pends(d) /\ (cpc[d] \in {"writing", "read"} => conn[d] \in Instances)
        BY DEF InvPending, InvConn, Holding
      <3> HIDE DEF InvPending, InvConn, InvServer
      <3>2. mHPipe \in Instances /\ (conn[d] = mHPipe => d = cur)
        BY <2>14, PipeAssumption DEF Send, InvCur, InvConn, InvServer, Serving
      <3> QED
        BY <2>14, <3>1, <3>2 DEF Send
    <2>15. CASE SendFails  BY <2>15 DEF SendFails
    <2>16. CASE FlushDisconnectClose  BY <2>16 DEF FlushDisconnectClose, Discard
    <2> QED
      BY <1>3, <2>1, <2>2, <2>3, <2>4, <2>5, <2>6, <2>7, <2>8, <2>9, <2>10, <2>11, <2>12, <2>13,
          <2>14, <2>15, <2>16 DEF ServerNext
  <1>4. CASE ServerFaults
    <2> USE DEF TypeOK, InvServer, InvConn, Holding, Connected, Listening, Go, InvPending,
        Pends, Unsent, InHand, Accepting, Serving, ownerVars, serverVars, pipeVars, clientVars, params
    <2>1. CASE CreateFails  BY <2>1 DEF CreateFails
    <2>2. CASE ReadAllocFails  BY <2>2 DEF ReadAllocFails
    <2>3. CASE ReplyNotText
      <3> SUFFICES ASSUME NEW d \in Calls PROVE Pends(d)'
        BY DEF InvPending
      <3>1. Pends(d) /\ (cpc[d] \in {"writing", "read"} => conn[d] \in Instances)
        BY DEF InvPending, InvConn, Holding
      <3>2. d = cur => handled[d] = 1
        BY <2>3 DEF ReplyNotText, InvCur
      <3> HIDE DEF InvPending, InvConn, InvServer
      <3> QED
        BY <2>3, <3>1, <3>2 DEF ReplyNotText
    <2> QED
      BY <1>4, <2>1, <2>2, <2>3 DEF ServerFaults
  <1>5. ASSUME NEW c \in Calls, Begin(c) \/ Die(c) \/ Exit(c) \/ ClientNext(c)
        PROVE  InvPending'
    <2>1. \A d \in Calls : d # c => Pends(d)'
      BY <1>5, OthersPend DEF InvPending
    <2>2. Pends(c)'
      <3> USE DEF Move, Throw, TypeOK
      <3>1. CASE Begin(c) \/ Die(c) \/ Exit(c) \/ RequestNotText(c) \/ Close(c)
        <4>1. cpc'[c] \in {"open", "dead", "threw", "ok"}
          BY <3>1 DEF Begin, Die, Exit, RequestNotText, Close
        <4> QED
          BY <4>1 DEF Pends
      <3>2. CASE Open(c) \/ OpenBusy(c) \/ OpenNotFound(c) \/ WaitSucceeds(c) \/ WaitFails(c)
        <4>1. cpc'[c] \in {"mode", "wait", "threw", "open"}
          BY <3>2 DEF Open, OpenBusy, OpenNotFound, WaitSucceeds, WaitFails
        <4> QED
          BY <4>1 DEF Pends
      <3>3. CASE SetMode(c) \/ SetModeFails(c) \/ WriteFails(c) \/ ReadResponse(c) \/ ReadFails(c)
        <4>1. cpc'[c] \in {"write", "threw", "close"}
          BY <3>3 DEF SetMode, SetModeFails, WriteFails, ReadResponse, ReadFails
        <4> QED
          BY <4>1 DEF Pends
      <3>4. CASE Write(c)
        BY <3>4 DEF Write, Pends, InvConn, Holding
      <3> QED
        BY <1>5, <3>1, <3>2, <3>3, <3>4 DEF ClientNext
    <2> QED
      BY <2>1, <2>2 DEF InvPending
  <1> QED
    BY <1>1, <1>2, <1>3, <1>4, <1>5, NextCases

\* No call has begun.
LEMMA InitPeers ==
    ASSUME Init
    PROVE  InvClient /\ InvReads /\ InvPending
  BY PipeAssumption DEF Init, InvClient, InvReads, InvPending, Pends

\* What calls and thread wait for, in every behaviour.
THEOREM PeersInvariance == Spec => [](IInv /\ InvClient /\ InvReads /\ InvPending)
  <1> DEFINE Peers == InvClient /\ InvReads /\ InvPending
  <1>1. Init => Peers
    BY InitPeers
  <1>2. IInv /\ Peers /\ [Next]_vars => Peers'
    BY ClientStep, ReadsStep, PendingStep DEF IInv
  <1> QED
    BY <1>1, <1>2, Invariance, PTL DEF Spec

\* The call c is blocked in WriteFile or in ReadFile.
ClientWaits(c) ==
    /\ Connected(c)
    /\ cpc[c] = "writing" \/ (cpc[c] = "read" /\ resp[conn[c]] = NoCall)

\* The thread is blocked in ReadFile or in FlushFileBuffers.
ServerWaits ==
    /\ state[mHPipe] = "connected"
    /\ (spc = "read" /\ req[mHPipe] = NoCall) \/ (spc = "flush" /\ resp[mHPipe] # NoCall)

\* A call that is blocked is the client of the thread, and the thread is not blocked,
\* unless the text of its response could not be sent; a thread that is blocked has a
\* client that is not, or is held up by a client end that leaked.
NobodyIsStuck ==
    "alloc" \notin faults /\ (FALSE \in Replies => TRUE \notin Waits) =>
        /\ \A c \in Calls : ClientWaits(c) =>
               \/ "text" \in faults /\ handled[c] = 1
               \/ InHand(conn[c]) /\ ~Listening(mHPipe) /\ ~ServerWaits
        /\ ServerWaits => \/ HeldUp
                          \/ \E c \in Calls :
                                 conn[c] = mHPipe /\ cpc[c] \in Holding /\ ~ClientWaits(c)

\* The thread and its callers do not block each other, unless an allocation failed or a
\* handler gives no response to a call that waits for one (NamedPipeServer.cpp:130-173,
\* NamedPipeClient.cpp:68-110).
THEOREM NoCircle == Spec => []NobodyIsStuck
  <1>1. ASSUME IInv, InvClient, InvReads, InvPending
        PROVE  NobodyIsStuck
    <2> SUFFICES ASSUME "alloc" \notin faults, FALSE \in Replies => TRUE \notin Waits
                 PROVE  NobodyIsStuck
      BY DEF NobodyIsStuck
    <2> USE <1>1, PipeAssumption DEF IInv
    <2>1. \A c \in Calls : cpc[c] = "read" => FALSE \notin Replies
      BY DEF InvReads, TypeOK
    <2>2. ASSUME NEW c \in Calls, ClientWaits(c)
          PROVE  ("text" \in faults /\ handled[c] = 1) \/ InHand(conn[c])
      <3>1. conn[c] \in Instances /\ state[conn[c]] = "connected"
        BY <2>2 DEF ClientWaits, Connected, InvConn, Holding
      <3>2. InHand(conn[c]) \/ "text" \in faults
        BY <3>1 DEF OneInstance, InHand
      <3>3. InHand(conn[c]) \/ handled[c] = 1
        BY <3>1, PipeAssumption DEF InvLeft
      <3> QED
        BY <3>2, <3>3
    <2>3. ASSUME NEW c \in Calls, ClientWaits(c), InHand(conn[c])
          PROVE  ~Listening(mHPipe) /\ ~ServerWaits
      <3>1. conn[c] \in Instances /\ state[conn[c]] = "connected" /\ cpc[c] \in {"writing", "read"}
        BY <2>3 DEF ClientWaits, Connected, InvConn, Holding
      <3>2. conn[c] = mHPipe /\ spc \in Accepting \cup Serving
        BY <2>3 DEF InHand
      <3>3. ~Listening(mHPipe)
        BY <3>1, <3>2 DEF Listening
      <3>4. ~(spc = "read" /\ req[mHPipe] = NoCall)
        <4>1. spc = "read" => req[mHPipe] = c
          BY <2>1, <2>3, <3>1, <3>2 DEF InvPending, Pends, Unsent, Connected, ClientWaits
        <4> QED
          BY <4>1
      <3>5. ~(spc = "flush" /\ resp[mHPipe] # NoCall)
        <4>1. ASSUME resp[mHPipe] # NoCall
              PROVE  cpc[c] = "read"
          <5>1. resp[mHPipe] \in Calls
            BY <3>1, <3>2, <4>1 DEF TypeOK
          <5>2. resp[mHPipe] = c
            BY <3>1, <3>2, <5>1 DEF InvResp, InvConn
          <5> QED
            BY <3>1, <3>2, <5>2 DEF InvReads
        <4> QED
          BY <2>3, <3>2, <4>1 DEF ClientWaits
      <3> QED
        BY <3>3, <3>4, <3>5 DEF ServerWaits
    <2>4. ASSUME ServerWaits
          PROVE  \/ HeldUp
                 \/ \E c \in Calls :
                        conn[c] = mHPipe /\ cpc[c] \in Holding /\ ~ClientWaits(c)
      <3>1. mHPipe \in Instances /\ state[mHPipe] = "connected"
        BY <2>4 DEF ServerWaits, InvServer, Serving
      <3>2. PICK c \in Calls : conn[c] = mHPipe
        BY <3>1 DEF InvClient
      <3>3. CASE cpc[c] = "threw"
        BY <3>1, <3>2, <3>3, PipeAssumption DEF HeldUp, Leaked, Connected
      <3>4. CASE cpc[c] \in Holding
        <4>1. InHand(conn[c])
          BY <2>4, <3>2 DEF ServerWaits, InHand, Serving
        <4>2. ~ClientWaits(c)
          BY <2>3, <2>4, <4>1
        <4> QED
          BY <3>2, <3>4, <4>2
      <3> QED
        BY <3>1, <3>2, <3>3, <3>4 DEF InvConn
    <2> QED
      BY <2>2, <2>3, <2>4 DEF NobodyIsStuck
  <1> QED
    BY <1>1, PeersInvariance, PTL

-----------------------------------------------------------------------------
(* How many instances there can be.                                        *)

\* A client has connected to the instance, and it is still open at one end.
Taken(h) == state[h] \in {"connected", "closing"} \/ \E c \in Calls : conn[c] = h

\* Until the flag is reset nobody but clients opens an instance.
InvRun ==
    /\ opc = "delete" => ~mIsRun /\ spc # "entry"
    /\ spc = "entry" => ~mIsRun
    /\ spc \in {"none", "entry"} => \A h \in Instances : ~Taken(h)

\* Each instance that is taken is taken by a call of its own.
TakenBy(by) ==
    /\ \A h \in Instances :
           Taken(h) => by[h] \in Calls /\ cpc[by[h]] \notin {"idle", "open", "wait"}
    /\ \A g, h \in Instances : Taken(g) /\ Taken(h) /\ by[g] = by[h] => g = h
    /\ \A c \in Calls : conn[c] # NoInst => by[conn[c]] = c

InvTaken ==
    mIsRun \/ spc = "create" => \E by \in [Instances -> Calls \cup {NoCall}] : TakenBy(by)

\* Start comes before the first client, and DeleteFile after the flag was reset.
LEMMA RunStep ==
    ASSUME TypeOK, InvServer, InvConn, InvOwner, InvRun, [Next]_vars
    PROVE  InvRun'
  <1> USE PipeAssumption
  <1>1. CASE UNCHANGED vars
    BY <1>1 DEF vars, ownerVars, serverVars, pipeVars, clientVars, params, TypeOK, InvServer,
        InvConn, InvOwner, InvRun, Taken, Free, Listening, Accepting, Go
  <1>2. CASE OwnerNext \/ Quit
    <2> USE DEF TypeOK, InvServer, InvConn, InvOwner, InvRun, Taken, Free, Listening, Accepting,
        Go, ownerVars, serverVars, pipeVars, clientVars, params
    <2>1. CASE Start  BY <2>1 DEF Start
    <2>2. CASE Quit  BY <2>2 DEF Quit
    <2>3. CASE StopTest  BY <2>3 DEF StopTest, NextStop
    <2>4. CASE StopDelete  BY <2>4 DEF StopDelete
    <2>5. CASE StopJoin  BY <2>5 DEF StopJoin, NextStop
    <2>6. CASE Destroy  BY <2>6 DEF Destroy
    <2>7. CASE Terminate  BY <2>7 DEF Terminate
    <2> QED
      BY <1>2, <2>1, <2>2, <2>3, <2>4, <2>5, <2>6, <2>7 DEF OwnerNext
  <1>3. CASE ServerNext
    <2> USE DEF TypeOK, InvServer, InvConn, InvOwner, InvRun, Taken, Free, Listening, Accepting,
        Go, ownerVars, serverVars, pipeVars, clientVars, params
    <2>1. CASE ListenEntry  BY <2>1 DEF ListenEntry
    <2>2. CASE ListenTest  BY <2>2 DEF ListenTest
    <2>3. CASE Create  BY <2>3, NewInstIsFree DEF Create
    <2>4. CASE ConnectPends  BY <2>4 DEF ConnectPends
    <2>5. CASE ConnectFindsClient  BY <2>5 DEF ConnectFindsClient
    <2>6. CASE ConnectTooLate  BY <2>6 DEF ConnectTooLate, Discard
    <2>7. CASE ConnectReturns  BY <2>7 DEF ConnectReturns
    <2>8. CASE ReadAllocates  BY <2>8 DEF ReadAllocates
    <2>9. CASE ReadTest  BY <2>9 DEF ReadTest
    <2>10. CASE ReadRequest  BY <2>10 DEF ReadRequest, Unblock, AfterWrite
    <2>11. CASE ReadTooLong  BY <2>11 DEF ReadTooLong, Unblock, AfterWrite
    <2>12. CASE ReadBroken  BY <2>12 DEF ReadBroken
    <2>13. CASE Handle  BY <2>13 DEF Handle
    <2>14. CASE Send  BY <2>14 DEF Send
    <2>15. CASE SendFails  BY <2>15 DEF SendFails
    <2>16. CASE FlushDisconnectClose  BY <2>16 DEF FlushDisconnectClose, Discard
    <2> QED
      BY <1>3, <2>1, <2>2, <2>3, <2>4, <2>5, <2>6, <2>7, <2>8, <2>9, <2>10, <2>11, <2>12, <2>13,
          <2>14, <2>15, <2>16 DEF ServerNext
  <1>4. CASE ServerFaults
    <2> USE DEF TypeOK, InvServer, InvConn, InvOwner, InvRun, Taken, Free, Listening, Accepting,
        Go, ownerVars, serverVars, pipeVars, clientVars, params
    <2>1. CASE CreateFails  BY <2>1 DEF CreateFails
    <2>2. CASE ReadAllocFails  BY <2>2 DEF ReadAllocFails
    <2>3. CASE ReplyNotText  BY <2>3 DEF ReplyNotText
    <2> QED
      BY <1>4, <2>1, <2>2, <2>3 DEF ServerFaults
  <1>5. ASSUME NEW c \in Calls, Begin(c) \/ Die(c) \/ Exit(c) \/ ClientNext(c)
        PROVE  InvRun'
    <2> USE DEF Move, Throw, TypeOK, InvServer, InvConn, InvOwner, InvRun, Taken, Free,
        Listening, Accepting, Go, ownerVars, serverVars, pipeVars, clientVars, params
    <2>1. CASE Begin(c)  BY <2>1 DEF Begin
    <2>2. CASE Die(c)  BY <2>2 DEF Die, Hangup
    <2>3. CASE Open(c)  BY <2>3 DEF Open
    <2>4. CASE OpenBusy(c)  BY <2>4 DEF OpenBusy
    <2>5. CASE OpenNotFound(c)  BY <2>5 DEF OpenNotFound
    <2>6. CASE WaitSucceeds(c)  BY <2>6 DEF WaitSucceeds
    <2>7. CASE WaitFails(c)  BY <2>7 DEF WaitFails
    <2>8. CASE SetMode(c)  BY <2>8 DEF SetMode
    <2>9. CASE SetModeFails(c)  BY <2>9 DEF SetModeFails
    <2>10. CASE Write(c)  BY <2>10 DEF Write, AfterWrite
    <2>11. CASE WriteFails(c)  BY <2>11 DEF WriteFails
    <2>12. CASE ReadResponse(c)  BY <2>12 DEF ReadResponse
    <2>13. CASE ReadFails(c)  BY <2>13 DEF ReadFails
    <2>14. CASE Close(c)  BY <2>14 DEF Close, Hangup
    <2>15. CASE RequestNotText(c)  BY <2>15 DEF RequestNotText
    <2>16. CASE Exit(c)  BY <2>16 DEF Exit, Hangup
    <2> QED
      BY <1>5, <2>1, <2>2, <2>3, <2>4, <2>5, <2>6, <2>7, <2>8, <2>9, <2>10, <2>11, <2>12, <2>13,
          <2>14, <2>15, <2>16 DEF ClientNext
  <1> QED
    BY <1>1, <1>2, <1>3, <1>4, <1>5, NextCases

\* A step that takes no instance leaves each to its call.
LEMMA StillTaken ==
    ASSUME InvTaken,
           mIsRun' \/ spc' = "create" => mIsRun \/ spc = "create",
           \A h \in Instances : Taken(h)' => Taken(h),
           \A c \in Calls : cpc'[c] \in {"idle", "open", "wait"} => cpc[c] \in {"idle", "open", "wait"},
           \A c \in Calls : conn'[c] = conn[c] \/ conn'[c] = NoInst
    PROVE  InvTaken'
  <1> SUFFICES ASSUME mIsRun' \/ spc' = "create"
               PROVE  \E by \in [Instances -> Calls \cup {NoCall}] : TakenBy(by)'
    BY DEF InvTaken
  <1>1. PICK by \in [Instances -> Calls \cup {NoCall}] : TakenBy(by)
    BY DEF InvTaken
  <1>2. TakenBy(by)'
    BY <1>1 DEF TakenBy
  <1> QED
    BY <1>2

\* Only Open takes an instance, and a call opens once.
LEMMA TakenStep ==
    ASSUME TypeOK, InvServer, InvConn, InvRun, InvTaken, [Next]_vars
    PROVE  InvTaken'
  <1> USE PipeAssumption
  <1>1. CASE UNCHANGED vars
    BY <1>1, StillTaken DEF vars, ownerVars, serverVars, pipeVars, clientVars, params, TypeOK,
       Taken, Go
  <1>2. CASE OwnerNext \/ Quit
    <2> USE DEF TypeOK, Taken, Go, ownerVars, serverVars, pipeVars, clientVars, params
    <2>1. CASE Start  BY <2>1, StillTaken DEF Start
    <2>2. CASE Quit  BY <2>2, StillTaken DEF Quit
    <2>3. CASE StopTest  BY <2>3, StillTaken DEF StopTest, NextStop
    <2>4. CASE StopDelete
      <3>1. ~mIsRun /\ ~mIsRun' /\ spc' = spc
        BY <2>4 DEF StopDelete, InvRun
      <3>2. CASE spc = "create"
        <4>1. UNCHANGED <<mIsRun, serverVars, pipeVars, clientVars>>
          BY <2>4, <3>2 DEF StopDelete, Listening, InvServer, Accepting
        <4> QED
          BY <4>1, StillTaken
      <3> QED
        BY <3>1, <3>2 DEF InvTaken
    <2>5. CASE StopJoin  BY <2>5, StillTaken DEF StopJoin, NextStop
    <2>6. CASE Destroy  BY <2>6, StillTaken DEF Destroy
    <2>7. CASE Terminate  BY <2>7, StillTaken DEF Terminate
    <2> QED
      BY <1>2, <2>1, <2>2, <2>3, <2>4, <2>5, <2>6, <2>7 DEF OwnerNext
  <1>3. CASE ServerNext
    <2> USE DEF TypeOK, Taken, Go, ownerVars, serverVars, pipeVars, clientVars, params
    <2>1. CASE ListenEntry
      <3>1. [h \in Instances |-> NoCall] \in [Instances -> Calls \cup {NoCall}]
        OBVIOUS
      <3>2. \A h \in Instances : ~Taken(h)'
        BY <2>1 DEF ListenEntry, InvRun
      <3>3. \A c \in Calls : conn'[c] = NoInst
        BY <2>1, <3>2 DEF ListenEntry
      <3>4. TakenBy([h \in Instances |-> NoCall])'
        BY <3>2, <3>3 DEF TakenBy
      <3> QED
        BY <3>1, <3>4 DEF InvTaken
    <2>2. CASE ListenTest  BY <2>2, StillTaken DEF ListenTest
    <2>3. CASE Create  BY <2>3, NewInstIsFree, StillTaken DEF Create
    <2>4. CASE ConnectPends  BY <2>4, StillTaken DEF ConnectPends
    <2>5. CASE ConnectFindsClient  BY <2>5, StillTaken DEF ConnectFindsClient
    <2>6. CASE ConnectTooLate  BY <2>6, StillTaken DEF ConnectTooLate, Discard
    <2>7. CASE ConnectReturns  BY <2>7, StillTaken DEF ConnectReturns
    <2>8. CASE ReadAllocates  BY <2>8, StillTaken DEF ReadAllocates
    <2>9. CASE ReadTest  BY <2>9, StillTaken DEF ReadTest
    <2>10. CASE ReadRequest  BY <2>10, StillTaken DEF ReadRequest, Unblock, AfterWrite
    <2>11. CASE ReadTooLong  BY <2>11, StillTaken DEF ReadTooLong, Unblock, AfterWrite
    <2>12. CASE ReadBroken  BY <2>12, StillTaken DEF ReadBroken
    <2>13. CASE Handle  BY <2>13, StillTaken DEF Handle
    <2>14. CASE Send  BY <2>14, StillTaken DEF Send
    <2>15. CASE SendFails  BY <2>15, StillTaken DEF SendFails
    <2>16. CASE FlushDisconnectClose  BY <2>16, StillTaken DEF FlushDisconnectClose, Discard
    <2> QED
      BY <1>3, <2>1, <2>2, <2>3, <2>4, <2>5, <2>6, <2>7, <2>8, <2>9, <2>10, <2>11, <2>12, <2>13,
          <2>14, <2>15, <2>16 DEF ServerNext
  <1>4. CASE ServerFaults
    <2> USE DEF TypeOK, Taken, Go, ownerVars, serverVars, pipeVars, clientVars, params
    <2>1. CASE CreateFails  BY <2>1, StillTaken DEF CreateFails
    <2>2. CASE ReadAllocFails  BY <2>2, StillTaken DEF ReadAllocFails
    <2>3. CASE ReplyNotText  BY <2>3, StillTaken DEF ReplyNotText
    <2> QED
      BY <1>4, <2>1, <2>2, <2>3 DEF ServerFaults
  <1>5. ASSUME NEW c \in Calls, Begin(c) \/ Die(c) \/ Exit(c) \/ ClientNext(c)
        PROVE  InvTaken'
    <2> USE DEF Move, Throw, TypeOK, Taken, Go, ownerVars, serverVars, pipeVars, clientVars,
        params
    <2>1. CASE Begin(c)  BY <2>1, StillTaken DEF Begin
    <2>2. CASE Die(c)  BY <2>2, StillTaken DEF Die, Hangup
    <2>3. CASE Open(c)
      <3>1. PICK h \in Instances : /\ Listening(h)
                                   /\ conn' = [conn EXCEPT ![c] = h]
                                   /\ state' = [state EXCEPT ![h] = "connected"]
        BY <2>3 DEF Open
      <3> SUFFICES ASSUME mIsRun \/ spc = "create"
                   PROVE  \E by \in [Instances -> Calls \cup {NoCall}] : TakenBy(by)'
        BY <2>3 DEF Open, InvTaken
      <3>2. PICK by \in [Instances -> Calls \cup {NoCall}] : TakenBy(by)
        BY DEF InvTaken
      <3> DEFINE with == [by EXCEPT ![h] = c]
      <3>3. with \in [Instances -> Calls \cup {NoCall}]
        OBVIOUS
      <3>4. TakenBy(with)'
        <4>1. cpc[c] = "open" /\ cpc' = [cpc EXCEPT ![c] = "mode"]
          BY <2>3 DEF Open
        <4>2. ~Taken(h)
          BY <3>1 DEF Listening, InvConn
        <4>3. \A g \in Instances : g # h => (Taken(g)' <=> Taken(g)) /\ with[g] = by[g]
          <5>1. conn[c] \notin Instances
            BY <4>1, PipeAssumption DEF InvConn, Holding
          <5> QED
            BY <3>1, <5>1
        <4>4. \A g \in Instances : g # h /\ Taken(g) => by[g] \in Calls /\ by[g] # c
          BY <3>2, <4>1 DEF TakenBy
        <4>5. with[h] = c
          OBVIOUS
        <4>6. \A g \in Instances : Taken(g)' => with[g] \in Calls /\ cpc'[with[g]] \notin
            {"idle", "open", "wait"}
          BY <3>2, <4>1, <4>3, <4>4, <4>5 DEF TakenBy
        <4>7. \A f, g \in Instances : Taken(f)' /\ Taken(g)' /\ with[f] = with[g] => f = g
          BY <3>2, <4>3, <4>4, <4>5 DEF TakenBy
        <4>8. \A d \in Calls : conn'[d] # NoInst => with[conn'[d]] = d
          BY <3>1, <3>2, <4>2, <4>5 DEF TakenBy
        <4> QED
          BY <4>6, <4>7, <4>8 DEF TakenBy
      <3> QED
        BY <3>3, <3>4
    <2>4. CASE OpenBusy(c)  BY <2>4, StillTaken DEF OpenBusy
    <2>5. CASE OpenNotFound(c)  BY <2>5, StillTaken DEF OpenNotFound
    <2>6. CASE WaitSucceeds(c)  BY <2>6, StillTaken DEF WaitSucceeds
    <2>7. CASE WaitFails(c)  BY <2>7, StillTaken DEF WaitFails
    <2>8. CASE SetMode(c)  BY <2>8, StillTaken DEF SetMode
    <2>9. CASE SetModeFails(c)  BY <2>9, StillTaken DEF SetModeFails
    <2>10. CASE Write(c)  BY <2>10, StillTaken DEF Write, AfterWrite
    <2>11. CASE WriteFails(c)  BY <2>11, StillTaken DEF WriteFails
    <2>12. CASE ReadResponse(c)  BY <2>12, StillTaken DEF ReadResponse
    <2>13. CASE ReadFails(c)  BY <2>13, StillTaken DEF ReadFails
    <2>14. CASE Close(c)  BY <2>14, StillTaken DEF Close, Hangup
    <2>15. CASE RequestNotText(c)  BY <2>15, StillTaken DEF RequestNotText
    <2>16. CASE Exit(c)  BY <2>16, StillTaken DEF Exit, Hangup
    <2> QED
      BY <1>5, <2>1, <2>2, <2>3, <2>4, <2>5, <2>6, <2>7, <2>8, <2>9, <2>10, <2>11, <2>12, <2>13,
          <2>14, <2>15, <2>16 DEF ClientNext
  <1> QED
    BY <1>1, <1>2, <1>3, <1>4, <1>5, NextCases

\* No instance is taken at the start.
LEMMA InitTaken ==
    ASSUME Init
    PROVE  InvRun /\ InvTaken
  <1>1. InvRun
    BY PipeAssumption DEF Init, InvRun, Taken
  <1>2. \A h \in Instances : ~Taken(h)
    BY PipeAssumption DEF Init, Taken
  <1>3. TakenBy([h \in Instances |-> NoCall])
    BY <1>2 DEF Init, TakenBy
  <1> QED
    BY <1>1, <1>3 DEF InvTaken

\* One instance more than there are calls is enough for CreateNamedPipe to find a free
\* identity: the clients that hold one, and the instances that are left open because a
\* response could not be sent, are no more than the calls (NamedPipeServer.cpp:54-85,
\* 157-160).
Suffices == spc = "create" => \E h \in Instances : Free(h)

THEOREM InstancesSuffice ==
    ASSUME IsFiniteSet(Calls), IsFiniteSet(Instances), Cardinality(Calls) < Cardinality(Instances)
    PROVE  Spec => []Suffices
  <1>1. IInv /\ InvRun /\ InvTaken => Suffices
    <2> SUFFICES ASSUME IInv, InvTaken, spc = "create", \A h \in Instances : ~Free(h)
                 PROVE  FALSE
      BY DEF Suffices
    <2>1. \A h \in Instances : Taken(h)
      BY DEF Free, Taken, IInv, TypeOK, InvServer, Accepting
    <2>2. PICK by \in [Instances -> Calls \cup {NoCall}] : TakenBy(by)
      BY DEF InvTaken
    <2>3. by \in [Instances -> Calls]
      BY <2>1, <2>2 DEF TakenBy
    <2>4. PICK g, h \in Instances : g # h /\ by[g] = by[h]
      BY <2>3, FS_PigeonHole
    <2> QED
      BY <2>1, <2>2, <2>4 DEF TakenBy
  <1>2. IInv /\ InvRun /\ InvTaken /\ [Next]_vars => (InvRun /\ InvTaken)'
    BY RunStep, TakenStep DEF IInv
  <1> QED
    BY <1>1, <1>2, InitTaken, Invariance, PTL DEF Spec

-----------------------------------------------------------------------------
(* PipeServer implements Delivery: every action maps to one of Delivery's, *)
(* or to a stutter.                                                        *)

\* The call c has come from one program counter to another; the others have not moved.
LEMMA OutcomeMoves ==
    ASSUME TypeOK, NEW c \in Calls, NEW to \in ClientPCs, cpc' = [cpc EXCEPT ![c] = to]
    PROVE  outcome' = [outcome EXCEPT ![c] = Outcome(to)]
  BY DEF TypeOK, outcome, Outcome

LEMMA InitRefines ==
    ASSUME Init
    PROVE  Promise!Init
  BY PipeAssumption DEF Init, Promise!Init, outcome, Outcome, waits

\* The owner and most of the server's steps are not seen by Delivery.
LEMMA Unseen ==
    ASSUME TypeOK, UNCHANGED <<handled, ahead, request>>,
           \A c \in Calls : Outcome(cpc'[c]) = Outcome(cpc[c])
    PROVE  UNCHANGED Promise!vars
  BY DEF TypeOK, Promise!vars, outcome, waits

LEMMA HandleRefines ==
    ASSUME IInv, Handle
    PROVE  Promise!Handle(cur)
  <1> USE DEF IInv, Handle
  <1>1. cur \in Calls /\ handled[cur] = 0 /\ cpc[cur] \in {"read", "close", "ok", "dead"}
    BY DEF InvCur
  <1>2. outcome[cur] \in {"sent", "ok", "dead"}
    BY <1>1 DEF outcome, Outcome
  <1>3. \A d \in Calls : cur \notin ahead[d]
    BY <1>1 DEF InvOrder, Current, Serving
  <1>4. handled' = [handled EXCEPT ![cur] = 1]
    BY <1>1
  <1>5. UNCHANGED <<outcome, ahead, waits>>
    BY DEF outcome, waits, clientVars, params
  <1> QED
    BY <1>1, <1>2, <1>3, <1>4, <1>5 DEF Promise!Handle

LEMMA ClientRefines ==
    ASSUME IInv, NEW c \in Calls, Begin(c) \/ Die(c) \/ Exit(c) \/ ClientNext(c)
    PROVE  Promise!Next \/ UNCHANGED Promise!vars
  <1> DEFINE quiet == UNCHANGED <<handled, request>>
  <1> USE DEF Move, Throw, clientVars, params
  <1>1. TypeOK
    BY DEF IInv
  <1>2. ASSUME NEW from \in ClientPCs, NEW to \in ClientPCs, Move(c, from, to), quiet
        PROVE  /\ outcome[c] = Outcome(from)
               /\ outcome' = [outcome EXCEPT ![c] = Outcome(to)]
               /\ UNCHANGED <<handled, waits>>
               /\ Outcome(from) = Outcome(to) => UNCHANGED outcome
    BY <1>1, <1>2, OutcomeMoves DEF outcome, waits, TypeOK
  <1>3. ASSUME NEW from \in {"open", "wait", "mode", "write", "writing", "read"}, Throw(c, from)
        PROVE  Promise!Next
    <2>1. Promise!Throw(c)
      BY <1>2, <1>3 DEF Promise!Throw, Promise!Become, Outcome, ClientPCs
    <2> QED
      BY <2>1 DEF Promise!Next
  <1>4. ASSUME NEW from \in ClientPCs, NEW to \in ClientPCs, Move(c, from, to), quiet,
               UNCHANGED ahead, Outcome(from) = Outcome(to)
        PROVE  UNCHANGED Promise!vars
    BY <1>2, <1>4 DEF Promise!vars
  <1>5. CASE Begin(c)
    <2>1. Promise!Submit(c)
      BY <1>2, <1>5 DEF Begin, Promise!Submit, Promise!Become, Outcome, ClientPCs
    <2> QED
      BY <2>1 DEF Promise!Next
  <1>6. CASE Open(c)
    <2>1. \A d \in Calls : outcome[d] \notin {"idle", "calling"}
                               <=> cpc[d] \notin {"idle", "open", "wait"}
      BY <1>1 DEF outcome, Outcome, TypeOK, ClientPCs
    <2>2. Promise!Connect(c)
      BY <1>2, <1>6, <2>1 DEF Open, Promise!Connect, Promise!Become, Outcome, ClientPCs
    <2> QED
      BY <2>2 DEF Promise!Next
  <1>7. CASE OpenBusy(c) \/ WaitSucceeds(c) \/ SetMode(c) \/ ReadResponse(c)
    BY <1>4, <1>7 DEF OpenBusy, WaitSucceeds, SetMode, ReadResponse, Outcome, ClientPCs
  <1>8. CASE OpenNotFound(c) \/ WaitFails(c) \/ SetModeFails(c) \/ WriteFails(c) \/ ReadFails(c)
        \/ RequestNotText(c)
    BY <1>3, <1>8 DEF OpenNotFound, WaitFails, SetModeFails, RequestNotText, WriteFails,
       ReadFails
  <1>9. CASE Write(c)
    <2>1. PICK to \in {"writing", "read", "close"} : Move(c, "write", to)
      BY <1>9 DEF Write, AfterWrite
    <2>2. Promise!Send(c)
      BY <1>2, <1>9, <2>1 DEF Write, Promise!Send, Promise!Become, Outcome, ClientPCs
    <2> QED
      BY <2>2 DEF Promise!Next
  <1>10. CASE Close(c)
    <2>1. waits[c] = request[c].wait
      BY DEF waits
    <2>2. got[c] = c => handled[c] = 1
      BY PipeAssumption DEF IInv, InvGot
    <2>3. request[c].wait => handled[c] = 1
      BY <1>10, <2>2, Zenon DEF Close, IInv, InvGot
    <2>4. waits[c] => handled[c] = 1
      BY <2>1, <2>3, Zenon
    <2>5. Promise!Return(c)
      BY <1>2, <1>10, <2>4 DEF Close, Promise!Return, Promise!Become, Outcome, ClientPCs
    <2> QED
      BY <2>5 DEF Promise!Next
  <1>11. CASE Die(c)
    <2>1. PICK from \in Holding : Move(c, from, "dead")
      BY <1>11 DEF Die, Holding
    <2>2. Promise!Die(c)
      BY <1>2, <1>11, <2>1 DEF Die, Promise!Die, Promise!Become, Outcome, ClientPCs, Holding
    <2> QED
      BY <2>2 DEF Promise!Next
  <1>12. CASE Exit(c)
    BY <1>1, <1>12, Unseen DEF Exit
  <1> QED
    BY <1>5, <1>6, <1>7, <1>8, <1>9, <1>10, <1>11, <1>12 DEF ClientNext

LEMMA OwnerRefines ==
    ASSUME IInv, OwnerNext \/ Quit \/ ServerFaults
    PROVE  UNCHANGED Promise!vars
  <1>1. TypeOK
    BY DEF IInv
  <1>2. UNCHANGED <<clientVars, params, handled>>
    <2> USE DEF OwnerNext, ServerFaults
    <2>1. CASE Start \/ Quit \/ StopTest \/ StopDelete
      BY <2>1 DEF Start, Quit, StopTest, StopDelete
    <2>2. CASE StopJoin \/ Destroy \/ Terminate \/ ServerFaults
      BY <2>2 DEF StopJoin, Destroy, Terminate, CreateFails, ReadAllocFails,
         ReplyNotText
    <2> QED
      BY <2>1, <2>2
  <1> QED
    BY <1>1, <1>2, Unseen DEF clientVars, params

LEMMA ServerRefines ==
    ASSUME IInv, ServerNext
    PROVE  Promise!Next \/ UNCHANGED Promise!vars
  <1> USE DEF clientVars, params
  <1>1. TypeOK
    BY DEF IInv
  <1>2. CASE Handle
    BY <1>2, HandleRefines DEF Promise!Next, IInv, InvCur, Handle
  <1>3. CASE ReadRequest \/ ReadTooLong
    <2>1. ASSUME NEW c \in Calls, Unblock(c) \/ UNCHANGED cpc
          PROVE  \A d \in Calls : Outcome(cpc'[d]) = Outcome(cpc[d])
      BY <1>1, <2>1 DEF TypeOK, Unblock, AfterWrite, Outcome
    <2>2. \A d \in Calls : Outcome(cpc'[d]) = Outcome(cpc[d])
      BY <1>3, <2>1 DEF ReadRequest, ReadTooLong
    <2> QED
      BY <1>1, <1>3, <2>2, Unseen DEF ReadRequest, ReadTooLong
  <1>4. CASE ~Handle /\ ~ReadRequest /\ ~ReadTooLong
    <2>1. UNCHANGED <<clientVars, params, handled>>
      <3>1. CASE ListenEntry \/ ListenTest \/ Create \/ ConnectPends \/ ConnectFindsClient
        BY <3>1 DEF ListenEntry, ListenTest, Create, ConnectPends, ConnectFindsClient
      <3>2. CASE ConnectTooLate \/ ConnectReturns \/ ReadAllocates \/ ReadTest \/ ReadBroken
        BY <3>2 DEF ConnectTooLate, ConnectReturns, ReadAllocates, ReadTest, ReadBroken
      <3>3. CASE Send \/ SendFails \/ FlushDisconnectClose
        BY <3>3 DEF Send, SendFails, FlushDisconnectClose
      <3> QED
        BY <1>4, <3>1, <3>2, <3>3 DEF ServerNext
    <2> QED
      BY <1>1, <2>1, Unseen
  <1> QED
    BY <1>2, <1>3, <1>4

\* NamedPipeServer and NamedPipeClient keep the promise of Delivery: at most one
\* delivery per call, in the order of the connections, and none after the call threw
\* (NamedPipeServer.cpp:42-177, NamedPipeClient.cpp:16-110).
THEOREM PromiseKept == Spec => KeepsPromise
  <1>1. IInv /\ [Next]_vars => [Promise!Next]_(Promise!vars)
    <2> SUFFICES ASSUME IInv, [Next]_vars
                 PROVE  Promise!Next \/ UNCHANGED Promise!vars
      OBVIOUS
    <2>1. CASE UNCHANGED vars
      BY <2>1, Unseen DEF vars, clientVars, params, IInv
    <2>2. CASE Next
      BY <2>2, NextCases, OwnerRefines, ServerRefines, ClientRefines
    <2> QED
      BY <2>1, <2>2
  <1> QED
    BY <1>1, InitRefines, Invariance, PTL DEF Spec, KeepsPromise, Promise!Spec

\* The theorems about Delivery, read with the variables of PipeServer.
Kept == INSTANCE DeliveryProofs WITH
    outcome <- outcome, handled <- handled, ahead <- ahead, waits <- waits

\* Delivery's specification is the same through either instance.
LEMMA SamePromise == KeepsPromise => Kept!Spec
  <1>1. Promise!Init <=> Kept!Init
    BY DEF Promise!Init, Kept!Init
  <1>2. [Promise!Next]_(Promise!vars) <=> [Kept!Next]_(Kept!vars)
    BY DEF Promise!Next, Kept!Next, Promise!vars, Kept!vars, Promise!Become, Kept!Become,
       Promise!Submit, Kept!Submit, Promise!Connect, Kept!Connect, Promise!Send, Kept!Send,
       Promise!Handle, Kept!Handle, Promise!Return, Kept!Return, Promise!Throw, Kept!Throw,
       Promise!Die, Kept!Die
  <1> QED
    BY <1>1, <1>2, PTL DEF KeepsPromise, Promise!Spec, Kept!Spec

\* The connections are ordered, no two at the same time; a request is handled at most
\* once and after it was sent; a call that waits and returns was handled
\* (NamedPipeServer.cpp:42-177, NamedPipeClient.cpp:16-110).
THEOREM CallsAreOrdered ==
    Spec => [](Kept!SentFirst /\ Kept!OkMeansHandled /\ Kept!AheadIsAnOrder)
  BY PromiseKept, SamePromise, Kept!StatesKept, PTL

\* A request is not handled after that of a call that connected later, nor after its own
\* call threw, whatever Windows and the two threads still have in hand
\* (NamedPipeServer.cpp:130-151, NamedPipeClient.cpp:60-103).
THEOREM LateIsNever == Spec => [][Kept!OvertakenIsLost /\ Kept!NotAfterThrow]_vars
  <1>1. UNCHANGED vars => UNCHANGED Kept!vars
    BY DEF vars, clientVars, params, Kept!vars, outcome, waits
  <1>2. [Kept!OvertakenIsLost /\ Kept!NotAfterThrow]_(Kept!vars)
            => [Kept!OvertakenIsLost /\ Kept!NotAfterThrow]_vars
    BY DEF Kept!OvertakenIsLost, Kept!NotAfterThrow, Kept!vars
  <1> QED
    BY <1>2, PromiseKept, SamePromise, Kept!StepsKept, PTL
=============================================================================
