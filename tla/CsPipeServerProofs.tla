------------------------- MODULE CsPipeServerProofs -------------------------
(***************************************************************************)
(* The safety properties of the C# server, for any number of threads,      *)
(* clients and files, and any lengths.  What StreamString does with a      *)
(* length is a lemma about integers; the rest is an inductive invariant.   *)
(***************************************************************************)
EXTENDS CsPipeServer, FiniteSetTheorems, TLAPS

\* The two bytes of a length are bytes, and ReadString takes from them the length that
\* WriteString put there, which is at most 65535 (StreamString.cs:22-23, 45-50).
LEMMA LengthRoundTrip ==
    ASSUME NEW n \in Nat
    PROVE  /\ High(n) \in Nat /\ High(n) <= 255 /\ Low(n) \in Nat /\ Low(n) <= 255
           /\ Joined(High(n), Low(n)) = Sent(n)
           /\ Sent(n) \in Nat /\ Sent(n) <= 65535
<1>1. Sent(n) \in Nat /\ Sent(n) <= 65535
    BY DEF Sent, MaxValue
<1>2. Sent(n) \div 256 \in Int /\ Sent(n) \div 256 >= 0 /\ Sent(n) \div 256 < 256
    BY <1>1
<1>3. Sent(n) % 256 \in Int /\ Sent(n) % 256 >= 0 /\ Sent(n) % 256 < 256
    BY <1>1
<1>4. (Sent(n) \div 256) % 256 = Sent(n) \div 256
    BY <1>2
<1>5. ((Sent(n) \div 256) * 256) + (Sent(n) % 256) = Sent(n)
    BY <1>1
<1>6. High(n) \in Nat /\ High(n) <= 255
    BY <1>2, <1>4 DEF High
<1>7. Low(n) \in Nat /\ Low(n) <= 255
    BY <1>3 DEF Low
<1>8. Joined(High(n), Low(n)) = Sent(n)
    BY <1>4, <1>5 DEF High, Low, Joined
<1> QED
    BY <1>1, <1>6, <1>7, <1>8

\* What ReadString can make of two bytes.
LEMMA JoinedBytes ==
    ASSUME NEW h \in Nat, h <= 255, NEW l \in Nat, l <= 255
    PROVE  /\ Joined(h, 0) \in Nat /\ Joined(h, 0) <= 65280
           /\ Joined(h, 0) + l = Joined(h, l)
BY DEF Joined

USE CsAssumption

\* A server thread is at a client's service from its coming on, which may be before the
\* thread waits for it, and that client is at no other thread.
Peers ==
    /\ \A t \in Threads : thread[t] \in {"none", "wait"} => peer[t] = None
    /\ \A t \in Threads : peer[t] = None => thread[t] \in {"none", "listening", "wait"}
    /\ \A t \in Threads, u \in Threads : peer[t] # None /\ peer[t] = peer[u] => t = u
    /\ \A t \in Threads : peer[t] # None => pc[peer[t]] # "start"

\* What len is between the two bytes and after them.
Lengths ==
    \A t \in Threads :
        /\ thread[t] = "low" => len[t] \in {Joined(-1, 0), Joined(High(NameLength), 0)}
        /\ thread[t] = "low" /\ alive[peer[t]] => len[t] = Joined(High(NameLength), 0)
        /\ thread[t] = "data" /\ alive[peer[t]] => len[t] = NameLength

\* The name that a thread works on is the one its client sent.
Names == \A t \in Threads : thread[t] \in {"open", "reply"} => name[t] = wants[peer[t]]

\* servers[] holds the threads that were started, until they are joined.
Held ==
    /\ main = "start" \/ started = Threads
    /\ \A t \in started \ servers : thread[t] = "finished"
    /\ \A t \in servers : t \in started
    /\ main = "exited" => servers = {}

Inv ==
    /\ TypeOK
    /\ Peers
    /\ Lengths
    /\ Names
    /\ Held
    /\ OwnContents
    /\ CountsThreads

\* What ReadString can make of the two bytes of a name's length.
LEMMA NameBytes ==
    /\ Joined(High(NameLength), 0) \in Nat /\ Joined(High(NameLength), 0) <= 65280
    /\ Low(NameLength) \in Nat /\ Low(NameLength) <= 255
    /\ Joined(High(NameLength), 0) + Low(NameLength) = NameLength
<1>1. NameLength \in Nat /\ NameLength <= 65535
    BY SMT DEF MaxValue
<1>2. Sent(NameLength) = NameLength
    BY <1>1 DEF Sent, MaxValue
<1>3. /\ High(NameLength) \in Nat /\ High(NameLength) <= 255
      /\ Low(NameLength) \in Nat /\ Low(NameLength) <= 255
      /\ Joined(High(NameLength), Low(NameLength)) = Sent(NameLength)
    BY <1>1, LengthRoundTrip
<1>4. /\ Joined(High(NameLength), 0) \in Nat /\ Joined(High(NameLength), 0) <= 65280
      /\ Joined(High(NameLength), 0) + Low(NameLength)
            = Joined(High(NameLength), Low(NameLength))
    BY <1>3, JoinedBytes
<1> QED
    BY <1>2, <1>3, <1>4

\* So len keeps its type, whichever bytes are read.
LEMMA LenTypes ==
    /\ Joined(High(NameLength), 0) \in -256..MaxValue
    /\ Joined(High(NameLength), 0) + Low(NameLength) = NameLength
    /\ NameLength \in -256..MaxValue
    /\ Joined(-1, 0) \in -256..MaxValue
    /\ 0 \in -256..MaxValue
    /\ \A x \in -256..MaxValue : x > 0 => x - 1 \in -256..MaxValue
<1>1. MaxValue = 65535
    BY DEF MaxValue
<1>0. MaxValue \in Nat
    BY <1>1, SMT
<1>2. Joined(High(NameLength), 0) \in Int /\ Joined(High(NameLength), 0) >= -256 /\
      Joined(High(NameLength), 0) <= MaxValue
    BY <1>1, NameBytes, SMT
<1>3. NameLength \in Int /\ NameLength >= -256 /\ NameLength <= MaxValue
    BY SMT
<1>4. Joined(-1, 0) \in Int /\ Joined(-1, 0) >= -256 /\ Joined(-1, 0) <= MaxValue
    BY <1>1, SMT DEF Joined
<1>5. Joined(High(NameLength), 0) \in -256..MaxValue /\ NameLength \in -256..MaxValue
    BY <1>0, <1>2, <1>3, SMT
<1>6. Joined(-1, 0) \in -256..MaxValue /\ 0 \in -256..MaxValue
    BY <1>0, <1>4, SMT
<1>7. \A x \in -256..MaxValue : x > 0 => x - 1 \in -256..MaxValue
    BY <1>0, SMT
<1>8. Joined(High(NameLength), 0) + Low(NameLength) = NameLength
    BY NameBytes
<1> QED
    BY <1>5, <1>6, <1>7, <1>8

\* StartThread preserves the invariant.
LEMMA StartThreadStep ==
    ASSUME Inv, NEW t \in Threads, StartThread(t)
    PROVE  Inv'
<1> USE DEF Inv, StartThread, Goes, Set, mainVars, threadVars, clientVars
<1>1. Peers' /\ Lengths' /\ Names' /\ Held' /\ OwnContents'
    BY DEF Peers, Lengths, Names, Held, OwnContents
<1>2. TypeOK'
    BY DEF TypeOK
<1>3. CountsThreads'
  <2>1. IsFiniteSet(servers)
    BY FS_Subset DEF TypeOK
  <2>2. t \notin servers
    BY DEF Held
  <2>3. Cardinality(servers \cup {t}) = Cardinality(servers) + 1
    BY <2>1, <2>2, FS_AddElement
  <2> QED
    BY <2>3 DEF CountsThreads
<1> QED
    BY <1>1, <1>2, <1>3

\* Join preserves the invariant.
LEMMA JoinStep ==
    ASSUME Inv, NEW t \in Threads, Join(t)
    PROVE  Inv'
<1> USE DEF Inv, Join, mainVars, threadVars, clientVars
<1>1. Peers' /\ Lengths' /\ Names' /\ OwnContents'
    BY DEF Peers, Lengths, Names, OwnContents
<1>2. TypeOK'
    BY DEF TypeOK
<1>3. Held'
  <2>1. IsFiniteSet(servers)
    BY FS_Subset DEF TypeOK
  <2>2. IsFiniteSet(servers') /\ Cardinality(servers') = Cardinality(servers) - 1
    BY <2>1, FS_RemoveElement
  <2>3. Cardinality(servers') \in Nat /\ (Cardinality(servers') = 0 => servers' = {})
    BY <2>2, FS_CardinalityType, FS_EmptySet
  <2>4. count' = Cardinality(servers')
    BY <2>2 DEF CountsThreads
  <2>5. main' = "exited" => count' = 0
    <3>1. count' \in Nat /\ count \in Int
      BY <2>3, <2>4 DEF TypeOK
    <3>2. main' = "exited" => ~(count' > 0)
      BY Zenon
    <3> QED
      BY <3>1, <3>2
  <2>6. main' = "exited" => servers' = {}
    BY <2>3, <2>4, <2>5
  <2> QED
    BY <2>6 DEF Held
<1>4. CountsThreads'
  <2>1. IsFiniteSet(servers)
    BY FS_Subset DEF TypeOK
  <2>2. IsFiniteSet(servers') /\ Cardinality(servers') = Cardinality(servers) - 1
    BY <2>1, FS_RemoveElement
  <2>3. Cardinality(servers') \in Nat /\ (Cardinality(servers') = 0 => servers' = {})
    BY <2>2, FS_CardinalityType, FS_EmptySet
  <2>4. count' = Cardinality(servers')
    BY <2>2 DEF CountsThreads
  <2>5. main' = "exited" => count' = 0
    <3>1. count' \in Nat /\ count \in Int
      BY <2>3, <2>4 DEF TypeOK
    <3>2. main' = "exited" => ~(count' > 0)
      BY Zenon
    <3> QED
      BY <3>1, <3>2
  <2>6. main' = "exited" => servers' = {}
    BY <2>3, <2>4, <2>5
  <2> QED
    BY <2>4, <2>6 DEF CountsThreads, Held
<1> QED
    BY <1>1, <1>2, <1>3, <1>4

\* Connect preserves the invariant.
LEMMA ConnectStep ==
    ASSUME Inv, NEW t \in Threads, NEW c \in Clients, Connect(t, c)
    PROVE  Inv'
<1> USE DEF Inv, Connect, Set, mainVars, threadVars, clientVars
<1>1. Names' /\ Held' /\ OwnContents' /\ CountsThreads'
    BY DEF TypeOK, Peers, Names, Held, OwnContents, CountsThreads
<1>2. TypeOK'
    BY DEF TypeOK
<1>3. Peers'
    BY DEF TypeOK, Peers
<1>4. Lengths'
    BY DEF TypeOK, Lengths, Peers
<1> QED
    BY <1>1, <1>2, <1>3, <1>4

\* WaitForConnection preserves the invariant.
LEMMA WaitForConnectionStep ==
    ASSUME Inv, NEW t \in Threads, WaitForConnection(t)
    PROVE  Inv'
<1> USE DEF Inv, WaitForConnection, Goes, Set, Crash, Gone, mainVars, threadVars, clientVars
<1>1. OwnContents' /\ CountsThreads'
    BY DEF OwnContents, CountsThreads
<1>2. TypeOK'
    BY DEF TypeOK
<1>3. Peers'
    BY DEF TypeOK, Peers
<1>4. Lengths' /\ Names' /\ Held'
    BY DEF TypeOK, Lengths, Names, Held
<1> QED
    BY <1>1, <1>2, <1>3, <1>4

\* Leave preserves the invariant.
LEMMA LeaveStep ==
    ASSUME Inv, NEW c \in Clients, Leave(c)
    PROVE  Inv'
<1> USE DEF Inv, Leave, Set, mainVars, threadVars, clientVars
<1>1. Peers' /\ Lengths' /\ Names' /\ Held' /\ OwnContents' /\ CountsThreads'
    BY DEF Peers, Lengths, Names, Held, OwnContents, CountsThreads
<1>2. TypeOK'
    BY DEF TypeOK
<1> QED
    BY <1>1, <1>2

\* Greet preserves the invariant.
LEMMA GreetStep ==
    ASSUME Inv, NEW t \in Threads, Greet(t)
    PROVE  Inv'
<1> USE DEF Inv, Greet, Goes, Set, Meet, mainVars, threadVars, clientVars
<1>1. Peers' /\ Lengths' /\ Names' /\ Held' /\ OwnContents' /\ CountsThreads'
    BY DEF Peers, Lengths, Names, Held, OwnContents, CountsThreads
<1>2. TypeOK'
    BY DEF TypeOK
<1> QED
    BY <1>1, <1>2

\* ReadHigh preserves the invariant.
LEMMA ReadHighStep ==
    ASSUME Inv, NEW t \in Threads, ReadHigh(t)
    PROVE  Inv'
<1> USE DEF Inv, ReadHigh, Goes, Set, Meet, mainVars, threadVars, clientVars
<1>1. Peers' /\ Names' /\ Held' /\ OwnContents' /\ CountsThreads'
    BY LenTypes DEF Peers, Names, Held, OwnContents, CountsThreads
<1>2. TypeOK'
    BY LenTypes DEF TypeOK
<1>3. Lengths'
    BY LenTypes DEF TypeOK, Lengths
<1> QED
    BY <1>1, <1>2, <1>3

\* ReadLow preserves the invariant.
LEMMA ReadLowStep ==
    ASSUME Inv, NEW t \in Threads, ReadLow(t)
    PROVE  Inv'
<1> USE DEF Inv, ReadLow, Goes, Set, Meet, mainVars, threadVars, clientVars
<1>1. Peers' /\ Names' /\ Held' /\ OwnContents' /\ CountsThreads'
    BY LenTypes DEF Peers, Names, Held, OwnContents, CountsThreads
<1>2. TypeOK'
    BY LenTypes DEF TypeOK, Lengths
<1>3. Lengths'
    BY LenTypes DEF TypeOK, Lengths
<1> QED
    BY <1>1, <1>2, <1>3

\* ReadData preserves the invariant.
LEMMA ReadDataStep ==
    ASSUME Inv, NEW t \in Threads, ReadData(t)
    PROVE  Inv'
<1> USE DEF Inv, ReadData, Goes, Set, Meet, mainVars, threadVars, clientVars
<1>1. Peers' /\ Lengths' /\ Held' /\ OwnContents' /\ CountsThreads'
    BY DEF Peers, Lengths, Held, OwnContents, CountsThreads
<1>2. TypeOK'
    BY DEF TypeOK
<1>3. Names'
    BY DEF TypeOK, Names
<1> QED
    BY <1>1, <1>2, <1>3

\* ReadPastEnd preserves the invariant.
LEMMA ReadPastEndStep ==
    ASSUME Inv, NEW t \in Threads, ReadPastEnd(t)
    PROVE  Inv'
<1> USE DEF Inv, ReadPastEnd, Goes, Set, Gone, mainVars, threadVars, clientVars
<1>1. OwnContents' /\ CountsThreads'
    BY LenTypes DEF OwnContents, CountsThreads
<1>2. len' \in [Threads -> -256..MaxValue]
  <2>1. len[t] \in -256..MaxValue /\ Joined(-1, 0) \in -256..MaxValue
      BY LenTypes DEF TypeOK
  <2>2. \E n \in -256..MaxValue : len' = [len EXCEPT ![t] = n]
    <3>1. CASE len' = [len EXCEPT ![t] = Joined(-1, 0)]
        BY <2>1, <3>1
    <3>2. CASE len[t] > 0 /\ len' = [len EXCEPT ![t] = len[t] - 1]
        BY <2>1, <3>2, LenTypes
    <3> QED
        BY <3>1, <3>2
  <2> QED
      BY <2>2 DEF TypeOK
<1>3. TypeOK'
  <2>1. thread' = [thread EXCEPT ![t] = "low"] \/ thread' = [thread EXCEPT ![t] = "data"]
      OBVIOUS
  <2> QED
      BY <1>2, <2>1 DEF TypeOK
<1>4. Peers'
  <2>1. peer[t] # None /\ ~alive[peer[t]]
      OBVIOUS
  <2>2. CASE thread' = [thread EXCEPT ![t] = "low"] /\ thread[t] = "high"
      BY <2>1, <2>2 DEF TypeOK, Peers
  <2>3. CASE thread' = [thread EXCEPT ![t] = "data"] /\ thread[t] = "low"
      BY <2>1, <2>3 DEF TypeOK, Peers
  <2> QED
      BY <2>2, <2>3
<1>5. Lengths'
    BY LenTypes DEF TypeOK, Lengths
<1>6. Names'
    BY LenTypes DEF TypeOK, Names
<1>7. Held'
    BY LenTypes DEF TypeOK, Held
<1> QED
    BY <1>1, <1>3, <1>4, <1>5, <1>6, <1>7

\* Overflow preserves the invariant.
LEMMA OverflowStep ==
    ASSUME Inv, NEW t \in Threads, Overflow(t)
    PROVE  Inv'
<1> USE DEF Inv, Overflow, Gone, Crash, mainVars, threadVars, clientVars
<1>1. Peers' /\ Lengths' /\ Names' /\ Held' /\ OwnContents' /\ CountsThreads'
    BY DEF Peers, Lengths, Names, Held, OwnContents, CountsThreads
<1>2. TypeOK'
    BY DEF TypeOK
<1> QED
    BY <1>1, <1>2

\* ZeroName preserves the invariant.
LEMMA ZeroNameStep ==
    ASSUME Inv, NEW t \in Threads, ZeroName(t)
    PROVE  Inv'
<1> USE DEF Inv, ZeroName, Goes, Set, Gone, Crash, mainVars, threadVars, clientVars
<1>1. OwnContents' /\ CountsThreads'
    BY DEF OwnContents, CountsThreads
<1>2. TypeOK'
    BY DEF TypeOK
<1>3. Peers'
    BY DEF TypeOK, Peers
<1>4. Lengths'
    BY DEF TypeOK, Lengths
<1>5. Names'
    BY DEF TypeOK, Names
<1>6. Held'
    BY DEF TypeOK, Held
<1> QED
    BY <1>1, <1>2, <1>3, <1>4, <1>5, <1>6

\* ReadAllText preserves the invariant.
LEMMA ReadAllTextStep ==
    ASSUME Inv, NEW t \in Threads, ReadAllText(t)
    PROVE  Inv'
<1> USE DEF Inv, ReadAllText, Goes, Set, Crash, Gone, mainVars, threadVars, clientVars
<1>1. OwnContents' /\ CountsThreads'
    BY DEF OwnContents, CountsThreads
<1>2. TypeOK'
    BY DEF TypeOK
<1>3. Peers'
    BY DEF TypeOK, Peers
<1>4. Lengths'
    BY DEF TypeOK, Lengths
<1>5. Names'
    BY DEF TypeOK, Names
<1>6. Held'
    BY DEF TypeOK, Held
<1> QED
    BY <1>1, <1>2, <1>3, <1>4, <1>5, <1>6

\* Reply preserves the invariant.
LEMMA ReplyStep ==
    ASSUME Inv, NEW t \in Threads, Reply(t)
    PROVE  Inv'
<1> USE DEF Inv, Reply, Goes, Set, Meet, mainVars, threadVars, clientVars
<1>1. Peers' /\ Lengths' /\ Names' /\ Held' /\ CountsThreads'
    BY DEF Peers, Lengths, Names, Held, CountsThreads
<1>2. TypeOK'
  <2>1. peer[t] \in Clients /\ name[t] \in Files
    BY DEF TypeOK, Names
  <2>2. PICK n \in Nat : n = Size[name[t]]
    BY <2>1
  <2>3. Joined(High(n), Low(n)) \in 0..MaxValue
    <3>1. Sent(n) \in Nat /\ Sent(n) <= MaxValue /\ MaxValue \in Nat
      BY SMT DEF Sent, MaxValue
    <3>2. Joined(High(n), Low(n)) = Sent(n)
      BY LengthRoundTrip
    <3> QED
      BY <3>1, <3>2, SMT
  <2>4. got' \in [Clients -> [file : Files \cup {None}, bytes : 0..MaxValue]]
    BY <2>1, <2>2, <2>3 DEF TypeOK
  <2> QED
    BY <2>1, <2>4 DEF TypeOK
<1>3. OwnContents'
  <2>1. peer[t] \in Clients /\ name[t] = wants[peer[t]] /\ name[t] \in Files
    BY DEF TypeOK, Names
  <2>2. PICK n \in Nat : n = Size[name[t]]
    BY <2>1
  <2>3. Joined(High(n), Low(n)) = Sent(n)
    BY LengthRoundTrip
  <2>4. Sent(n) = IF n > 65535 THEN 65535 ELSE n
    BY DEF Sent, MaxValue
  <2>5. got'[peer[t]].file = name[t] /\ got'[peer[t]].bytes = Sent(n)
    BY <2>1, <2>2, <2>3 DEF TypeOK
  <2> QED
    BY <2>1, <2>2, <2>4, <2>5 DEF TypeOK, OwnContents
<1> QED
    BY <1>1, <1>2, <1>3

\* WriteFails preserves the invariant.
LEMMA WriteFailsStep ==
    ASSUME Inv, NEW t \in Threads, WriteFails(t)
    PROVE  Inv'
<1> USE DEF Inv, WriteFails, Goes, Set, Gone, mainVars, threadVars, clientVars
<1>1. OwnContents' /\ CountsThreads'
    BY DEF OwnContents, CountsThreads
<1>2. TypeOK'
    BY DEF TypeOK
<1>3. Peers'
    BY DEF TypeOK, Peers
<1>4. Lengths'
    BY DEF TypeOK, Lengths
<1>5. Names'
    BY DEF TypeOK, Names
<1>6. Held'
    BY DEF TypeOK, Held
<1> QED
    BY <1>1, <1>2, <1>3, <1>4, <1>5, <1>6

\* ClosePipe preserves the invariant.
LEMMA ClosePipeStep ==
    ASSUME Inv, NEW t \in Threads, ClosePipe(t)
    PROVE  Inv'
<1> USE DEF Inv, ClosePipe, Goes, Set, mainVars, threadVars, clientVars
<1>1. Names' /\ Held' /\ OwnContents' /\ CountsThreads'
    BY DEF Names, Held, OwnContents, CountsThreads
<1>2. TypeOK'
    BY DEF TypeOK
<1>3. Peers'
    BY DEF TypeOK, Peers
<1>4. Lengths'
    BY DEF TypeOK, Lengths, Peers
<1> QED
    BY <1>1, <1>2, <1>3, <1>4

-----------------------------------------------------------------------------
\* The process that has just started satisfies the invariant.
LEMMA InitInv == Init => Inv
<1> SUFFICES ASSUME Init PROVE Inv
    OBVIOUS
<1> USE DEF Init
<1>1. TypeOK
    BY LenTypes DEF TypeOK, Nothing
<1>2. Peers /\ Lengths /\ Names
    BY DEF Peers, Lengths, Names
<1>3. Held /\ OwnContents
    BY DEF Held, OwnContents
<1>4. CountsThreads
    BY FS_EmptySet DEF CountsThreads
<1> QED
    BY <1>1, <1>2, <1>3, <1>4 DEF Inv

\* Every step of the main thread, the server threads and the clients preserves it.
LEMMA NextInv == Inv /\ [Next]_vars => Inv'
<1> SUFFICES ASSUME Inv, [Next]_vars PROVE Inv'
    OBVIOUS
<1>1. CASE UNCHANGED vars
  <2> USE <1>1 DEF Inv, vars, mainVars, threadVars, clientVars
  <2>1. TypeOK'
    BY DEF TypeOK
  <2>2. Peers' /\ Lengths' /\ Names'
    BY DEF Peers, Lengths, Names
  <2>3. Held' /\ OwnContents' /\ CountsThreads'
    BY DEF Held, OwnContents, CountsThreads
  <2> QED
    BY <2>1, <2>2, <2>3
<1>2. CASE \E t \in Threads : StartThread(t) \/ Join(t) \/ ThreadNext(t)
    BY <1>2, StartThreadStep, JoinStep, ConnectStep, WaitForConnectionStep, GreetStep, ReadHighStep,
       ReadLowStep, ReadDataStep, ReadPastEndStep, OverflowStep, ZeroNameStep,
       ReadAllTextStep, ReplyStep, WriteFailsStep, ClosePipeStep DEF ThreadNext
<1>3. CASE \E c \in Clients : Leave(c)
    BY <1>3, LeaveStep
<1> QED
    BY <1>1, <1>2, <1>3 DEF Next

\* The invariant holds throughout.
LEMMA Invariance == Spec => []Inv
<1> QED
    BY InitInv, NextInv, PTL DEF Spec

\* The variables keep their types; a length is from -256 to 65535.
THEOREM TypeCorrect == Spec => []TypeOK
<1>1. Inv => TypeOK
    BY DEF Inv
<1> QED
    BY <1>1, Invariance, PTL

\* A client is sent the contents of the file it named (StreamString.cs:45-52, 83-84).
THEOREM Contents == Spec => []OwnContents
<1>1. Inv => OwnContents
    BY DEF Inv
<1> QED
    BY <1>1, Invariance, PTL

\* The loop that joins the threads counts those it holds (IPCServer.cs:25-39).
THEOREM Joins == Spec => []CountsThreads
<1>1. Inv => CountsThreads
    BY DEF Inv
<1> QED
    BY <1>1, Invariance, PTL
-----------------------------------------------------------------------------
\* The two ends of one transfer: thread t writes what its client reads next, or reads what
\* its client writes next, or is about to.
SameTransfer(t) ==
    \/ thread[t] \in {"listening", "greet"} /\ pc[peer[t]] = "greeting"
    \/ thread[t] \in {"high", "low", "data"} /\ pc[peer[t]] = thread[t]
    \/ thread[t] \in {"open", "reply", "close"} /\ pc[peer[t]] = "answer"

\* A thread whose client is still there and that client are at the same transfer.
InStep == \A t \in Threads : peer[t] # None /\ alive[peer[t]] => SameTransfer(t)

\* A step that changes no client and no thread but t, and moves t within the transfer.
LEMMA OneThreadInStep ==
    ASSUME Inv, InStep, NEW t \in Threads, UNCHANGED <<peer, alive, pc>>,
           \A u \in Threads \ {t} : thread'[u] = thread[u],
           Gone(t) \/ (thread[t] \in {"open", "reply"} /\ thread'[t] \in {"reply", "close"})
    PROVE  InStep'
BY DEF InStep, SameTransfer, Gone

\* A step in which thread t and its client do their parts of one transfer.
LEMMA TwoInStep ==
    ASSUME Inv, InStep, NEW t \in Threads, UNCHANGED <<peer, alive>>,
           \A u \in Threads \ {t} : thread'[u] = thread[u],
           peer[t] # None, \A c \in Clients \ {peer[t]} : pc'[c] = pc[c],
           SameTransfer(t)'
    PROVE  InStep'
BY DEF InStep, SameTransfer, Inv, TypeOK, Peers

\* The steps of thread t keep every thread and its client in step.
LEMMA ThreadInStep ==
    ASSUME Inv, InStep, NEW t \in Threads, ThreadNext(t)
    PROVE  InStep'
<1>0. TypeOK /\ Peers
    BY DEF Inv
<1> USE <1>0 DEF Goes, Set
<1>1. CASE Greet(t) \/ ReadHigh(t) \/ ReadLow(t) \/ ReadData(t)
  <2>1. /\ UNCHANGED <<peer, alive>>
        /\ \A u \in Threads \ {t} : thread'[u] = thread[u]
        /\ peer[t] # None /\ \A c \in Clients \ {peer[t]} : pc'[c] = pc[c]
    BY <1>1 DEF Greet, ReadHigh, ReadLow, ReadData, Meet, TypeOK
  <2>2. SameTransfer(t)'
    BY <1>1 DEF Greet, ReadHigh, ReadLow, ReadData, Meet, TypeOK, SameTransfer
  <2> QED
    BY <2>1, <2>2, TwoInStep
<1>2. CASE ReadPastEnd(t) \/ WriteFails(t)
  <2>1. UNCHANGED <<peer, alive, pc>> /\ Gone(t)
    BY <1>2 DEF ReadPastEnd, WriteFails, clientVars
  <2>2. \A u \in Threads \ {t} : thread'[u] = thread[u]
    BY <1>2 DEF ReadPastEnd, WriteFails, TypeOK
  <2> QED
    BY <2>1, <2>2, OneThreadInStep
<1>3. CASE Overflow(t) \/ ZeroName(t) \/ ReadAllText(t)
  <2>1. CASE UNCHANGED <<threadVars, clientVars>>
    BY <2>1 DEF threadVars, clientVars, InStep, SameTransfer
  <2>2. CASE Goes(t, "data", "close") /\ UNCHANGED <<peer, clientVars>> /\ Gone(t)
    BY <2>2, OneThreadInStep DEF clientVars, TypeOK
  <2>3. CASE /\ Goes(t, "open", "reply") \/ Goes(t, "open", "close")
             /\ UNCHANGED <<peer, clientVars>>
    <3>1. /\ thread[t] = "open" /\ thread'[t] \in {"reply", "close"}
          /\ \A u \in Threads \ {t} : thread'[u] = thread[u]
      BY <2>3 DEF TypeOK
    <3> QED
      BY <2>3, <3>1, OneThreadInStep DEF clientVars
  <2> QED
    BY <1>3, <2>1, <2>2, <2>3 DEF Overflow, ZeroName, ReadAllText, Crash
<1>4. CASE Reply(t)
    BY <1>4 DEF Reply, Meet, TypeOK, InStep, SameTransfer, Peers
<1>5. CASE ClosePipe(t)
    BY <1>5 DEF ClosePipe, TypeOK, InStep, SameTransfer, Peers
<1>6. ASSUME NEW c \in Clients, Connect(t, c) PROVE InStep'
    BY <1>6 DEF Connect, TypeOK, InStep, SameTransfer, Peers
<1>7. CASE WaitForConnection(t)
    BY <1>7 DEF WaitForConnection, Crash, threadVars, clientVars, TypeOK, InStep, SameTransfer
<1> QED
    BY <1>1, <1>2, <1>3, <1>4, <1>5, <1>6, <1>7 DEF ThreadNext

\* A thread and its client are always at the same transfer, as long as the client is there:
\* the two never wait for each other, and what a thread waits for is a client that can go on
\* or that has not come, whatever becomes of the others (IPCServer.cs:43-89).
THEOREM AlwaysInStep == Spec => []InStep
<1>1. Init => InStep
    BY DEF Init, InStep
<1>2. ASSUME Inv, InStep, [Next]_vars PROVE InStep'
  <2>0. TypeOK /\ Peers
    BY <1>2 DEF Inv
  <2>1. CASE UNCHANGED vars
    BY <1>2, <2>1 DEF vars, threadVars, clientVars, InStep, SameTransfer
  <2>2. ASSUME NEW t \in Threads, StartThread(t) PROVE InStep'
    BY <1>2, <2>0, <2>2 DEF StartThread, Goes, Set, clientVars, TypeOK, Peers, InStep,
       SameTransfer
  <2>3. ASSUME NEW t \in Threads, Join(t) PROVE InStep'
    BY <1>2, <2>3 DEF Join, threadVars, clientVars, InStep, SameTransfer
  <2>4. ASSUME NEW c \in Clients, Leave(c) PROVE InStep'
    BY <1>2, <2>0, <2>4 DEF Leave, Set, threadVars, TypeOK, InStep, SameTransfer
  <2> QED
    BY <1>2, <2>1, <2>2, <2>3, <2>4, ThreadInStep DEF Next
<1> QED
    BY <1>1, <1>2, Invariance, PTL DEF Spec
============================================================================
