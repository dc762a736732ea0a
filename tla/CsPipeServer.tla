---------------------------- MODULE CsPipeServer ----------------------------
(***************************************************************************)
(* IPCServer.cs and StreamString.cs: a main thread that starts and joins   *)
(* the server threads, each of which serves one client and ends.  A client *)
(* speaks StreamString as well: it reads the greeting, writes a file name, *)
(* reads the contents.  A string goes as two bytes of length and its       *)
(* bytes.  The pipe has no buffer: a write ends when it is read, so that a *)
(* write and its read are one step.  An exception that ServerThread does   *)
(* not catch ends the process, with all its threads.                       *)
(***************************************************************************)
EXTENDS FiniteSets, Integers

CONSTANTS
    Threads,
    Clients,
    None,
    Files,          \* the names clients send
    Size,           \* the number of bytes of each file's contents, as UTF-16
    Missing, Denied,       \* those for which ReadAllText throws IOException, or another
    NameLength      \* the number of bytes of a name

MaxValue == 65535       \* UInt16.MaxValue

ASSUME CsAssumption ==
    /\ IsFiniteSet(Threads)
    /\ None \notin Threads \cup Clients \cup Files
    /\ Size \in [Files -> Nat]
    /\ Missing \subseteq Files /\ Denied \subseteq Files
    /\ NameLength \in Nat \ {0} /\ NameLength <= MaxValue

VARIABLES
    main,           \* where the constructor of IPCServer is
    started,        \* the threads it has started
    servers,        \* those that servers[] still holds
    count,          \* its variable i, once it joins
    process,        \* "running", or "crashed"
    thread,         \* where each ServerThread is
    peer,           \* the client connected to its pipe
    len, name,      \* len of its ReadString, and the file name it returned
    pc, wants, got, \* each client: where it is, what it asks for, what it was sent
    alive           \* whether its end of the pipe is open

mainVars == <<main, started, servers, count>>
threadVars == <<thread, peer, len, name>>
clientVars == <<pc, wants, got, alive>>
vars == <<mainVars, process, threadVars, clientVars>>

-----------------------------------------------------------------------------
(* StreamString: the length that WriteString puts in front of n bytes, in  *)
(* two bytes, and the one ReadString takes from what ReadByte returns,     *)
(* which is -1 at the end of the stream.                                   *)

\* Mutant of Sent: the length is not bounded.
MutSent(n) == n

Sent(n) == IF n > MaxValue THEN MaxValue ELSE n
High(n) == (Sent(n) \div 256) % 256
Low(n) == Sent(n) % 256
Joined(high, low) == high * 256 + low

-----------------------------------------------------------------------------
Nothing == [file |-> None, bytes |-> 0]

TypeOK ==
    /\ main \in {"start", "join", "exited"}
    /\ started \subseteq Threads /\ servers \subseteq started
    /\ count \in Int
    /\ process \in {"running", "crashed"}
    /\ thread \in [Threads -> {"none", "listening", "wait", "greet", "high", "low", "data",
                               "open", "reply", "close", "finished"}]
    /\ peer \in [Threads -> Clients \cup {None}]
    /\ len \in [Threads -> -256..MaxValue]
    /\ name \in [Threads -> Files \cup {None}]
    /\ pc \in [Clients -> {"start", "greeting", "high", "low", "data", "answer", "left"}]
    /\ wants \in [Clients -> Files]
    /\ got \in [Clients -> [file : Files \cup {None}, bytes : 0..MaxValue]]
    /\ alive \in [Clients -> BOOLEAN]

Init ==
    /\ main = "start" /\ started = {} /\ servers = {} /\ count = 0
    /\ process = "running"
    /\ thread = [t \in Threads |-> "none"]
    /\ peer = [t \in Threads |-> None]
    /\ len = [t \in Threads |-> 0] /\ name = [t \in Threads |-> None]
    /\ pc = [c \in Clients |-> "start"]
    /\ wants \in [Clients -> Files]
    /\ got = [c \in Clients |-> Nothing]
    /\ alive = [c \in Clients |-> FALSE]

Set(f, i, v) == [f EXCEPT ![i] = v]
Goes(t, from, to) == process = "running" /\ thread[t] = from /\ thread' = Set(thread, t, to)

-----------------------------------------------------------------------------
(* The main thread.                                                        *)

\* The new thread constructs its NamedPipeServerStream, and a client may come at once.
StartThread(t) ==
    /\ main = "start" /\ t \notin started
    /\ Goes(t, "none", "listening")
    /\ started' = started \cup {t} /\ servers' = servers \cup {t}
    /\ count' = count + 1
    /\ main' = IF started' = Threads THEN "join" ELSE "start"
    /\ UNCHANGED <<process, peer, len, name, clientVars>>

\* Mutant of Join: a thread that was joined stays in servers[].
MutJoin(t) ==
    /\ main = "join" /\ process = "running"
    /\ t \in servers /\ thread[t] = "finished"
    /\ count' = count - 1
    /\ main' = IF count' > 0 THEN "join" ELSE "exited"
    /\ UNCHANGED <<started, servers, process, threadVars, clientVars>>

\* Join(250) returns true for a thread that has finished; one that has not is tried again.
Join(t) ==
    /\ main = "join" /\ process = "running"
    /\ t \in servers /\ thread[t] = "finished"
    /\ servers' = servers \ {t}
    /\ count' = count - 1
    /\ main' = IF count' > 0 THEN "join" ELSE "exited"
    /\ UNCHANGED <<started, process, threadVars, clientVars>>

-----------------------------------------------------------------------------
(* A server thread and its client.                                         *)

\* A client opens the pipe; a thread that is already waiting goes on.
Connect(t, c) ==
    /\ process = "running" /\ thread[t] \in {"listening", "wait"} /\ peer[t] = None
    /\ thread' = IF thread[t] = "wait" THEN Set(thread, t, "greet") ELSE thread
    /\ pc[c] = "start" /\ pc' = Set(pc, c, "greeting")
    /\ peer' = Set(peer, t, c) /\ alive' = Set(alive, c, TRUE)
    /\ UNCHANGED <<mainVars, process, len, name, wants, got>>

Gone(t) == peer[t] # None /\ ~alive[peer[t]]

Crash(t) ==
    /\ process' = "crashed"
    /\ UNCHANGED <<mainVars, threadVars, clientVars>>

\* WaitForConnection finds nobody yet, or a client; or one that has left again, and throws
\* an IOException that is not in the try block.
WaitForConnection(t) ==
    \/ /\ ~Gone(t)
       /\ Goes(t, "listening", IF peer[t] = None THEN "wait" ELSE "greet")
       /\ UNCHANGED <<mainVars, process, peer, len, name, clientVars>>
    \/ /\ Gone(t) /\ process = "running" /\ thread[t] = "listening"
       /\ Crash(t)

\* A step of both: the client is there and does its part.
Meet(t, at, next) ==
    /\ peer[t] # None /\ alive[peer[t]]
    /\ pc[peer[t]] = at /\ pc' = Set(pc, peer[t], next)

Greet(t) ==
    /\ Goes(t, "greet", "high") /\ Meet(t, "greeting", "high")
    /\ UNCHANGED <<mainVars, process, peer, len, name, wants, got, alive>>

ReadHigh(t) ==
    /\ Goes(t, "high", "low") /\ Meet(t, "high", "low")
    /\ len' = Set(len, t, Joined(High(NameLength), 0))
    /\ UNCHANGED <<mainVars, process, peer, name, wants, got, alive>>

ReadLow(t) ==
    /\ Goes(t, "low", "data") /\ Meet(t, "low", "data")
    /\ len' = Set(len, t, len[t] + Low(NameLength))
    /\ UNCHANGED <<mainVars, process, peer, name, wants, got, alive>>

ReadData(t) ==
    /\ Goes(t, "data", "open") /\ Meet(t, "data", "answer")
    /\ name' = Set(name, t, wants[peer[t]])
    /\ UNCHANGED <<mainVars, process, peer, len, wants, got, alive>>

\* Mutant of ReadPastEnd: a negative length is no error.
MutReadPastEnd(t) ==
    /\ Gone(t)
    /\ \/ Goes(t, "high", "low") /\ len' = Set(len, t, Joined(-1, 0))
       \/ Goes(t, "low", "data") /\ len' = Set(len, t, len[t] - 1)
    /\ UNCHANGED <<mainVars, process, peer, name, clientVars>>

\* ReadByte returns -1 for both bytes, or for the second alone.
ReadPastEnd(t) ==
    /\ Gone(t)
    /\ \/ Goes(t, "high", "low") /\ len' = Set(len, t, Joined(-1, 0))
       \/ len[t] > 0 /\ Goes(t, "low", "data") /\ len' = Set(len, t, len[t] - 1)
    /\ UNCHANGED <<mainVars, process, peer, name, clientVars>>

\* The length is negative: new byte[len] throws OverflowException.
Overflow(t) ==
    /\ process = "running" /\ thread[t] = "low"
    /\ Gone(t) /\ len[t] - 1 < 0
    /\ Crash(t)

\* Read returns 0, the name is all zeros, and ReadAllText throws ArgumentException,
\* unless the calls before it throw IOException because the client has gone.
ZeroName(t) ==
    /\ Gone(t) /\ thread[t] = "data"
    /\ \/ process = "running" /\ Crash(t)
       \/ Goes(t, "data", "close") /\ UNCHANGED <<mainVars, process, peer, len, name, clientVars>>

\* ReadAllText, in the name of the client.
ReadAllText(t) ==
    /\ thread[t] = "open"
    /\ \/ /\ name[t] \notin Missing \cup Denied
          /\ Goes(t, "open", "reply")
          /\ UNCHANGED <<mainVars, process, peer, len, name, clientVars>>
       \/ /\ name[t] \in Missing \/ Gone(t)         \* IOException
          /\ Goes(t, "open", "close")
          /\ UNCHANGED <<mainVars, process, peer, len, name, clientVars>>
       \/ /\ name[t] \in Denied                     \* UnauthorizedAccessException
          /\ process = "running"
          /\ Crash(t)

Reply(t) ==
    /\ Goes(t, "reply", "close") /\ Meet(t, "answer", "left")
    /\ LET n == Size[name[t]]
       IN  got' = Set(got, peer[t], [file |-> name[t], bytes |-> Joined(High(n), Low(n))])
    /\ alive' = Set(alive, peer[t], FALSE)
    /\ UNCHANGED <<mainVars, process, peer, len, name, wants>>

\* Mutant of WriteFails: the write is tried again.
MutWriteFails(t) ==
    /\ Gone(t)
    /\ Goes(t, "greet", "greet") \/ Goes(t, "reply", "reply")
    /\ UNCHANGED <<mainVars, process, peer, len, name, clientVars>>

\* WriteString throws IOException.
WriteFails(t) ==
    /\ Gone(t)
    /\ Goes(t, "greet", "close") \/ Goes(t, "reply", "close")
    /\ UNCHANGED <<mainVars, process, peer, len, name, clientVars>>

\* pipeServer.Close(): a client that is still there reads the end of the stream.
ClosePipe(t) ==
    /\ Goes(t, "close", "finished")
    /\ IF peer[t] # None /\ alive[peer[t]]
       THEN alive' = Set(alive, peer[t], FALSE) /\ pc' = Set(pc, peer[t], "left")
       ELSE UNCHANGED <<alive, pc>>
    /\ UNCHANGED <<mainVars, process, peer, len, name, wants, got>>

\* A client leaves, between any two steps.
Leave(c) ==
    /\ alive[c]
    /\ alive' = Set(alive, c, FALSE) /\ pc' = Set(pc, c, "left")
    /\ UNCHANGED <<mainVars, process, threadVars, wants, got>>

-----------------------------------------------------------------------------
ThreadNext(t) ==
    \/ Greet(t) \/ ReadHigh(t) \/ ReadLow(t) \/ ReadData(t)
    \/ ReadPastEnd(t) \/ Overflow(t) \/ ZeroName(t)
    \/ ReadAllText(t) \/ Reply(t) \/ WriteFails(t) \/ ClosePipe(t)
    \/ WaitForConnection(t) \/ \E c \in Clients : Connect(t, c)

Next ==
    \/ \E t \in Threads : StartThread(t) \/ Join(t) \/ ThreadNext(t)
    \/ \E c \in Clients : Leave(c)

Spec == Init /\ [][Next]_vars

\* The threads run, and a client that does not leave goes on with its part.
Fairness ==
    \A t \in Threads : WF_vars(StartThread(t)) /\ WF_vars(Join(t)) /\ WF_vars(ThreadNext(t))

FairSpec == Spec /\ Fairness

-----------------------------------------------------------------------------
\* A client is sent the contents of the file it named, whole or cut at 65535 bytes, and
\* with a length that says so, while other threads serve others
\* (StreamString.cs:22-23, 45-52, 83-84).
OwnContents ==
    \A c \in Clients : got[c] # Nothing =>
        /\ got[c].file = wants[c]
        /\ got[c].bytes = IF Size[wants[c]] > 65535 THEN 65535 ELSE Size[wants[c]]

\* The count of threads to wait for is that of the threads still held, so that the loop
\* joins each once and ends with the last (IPCServer.cs:25-39).
CountsThreads ==
    /\ count = Cardinality(servers)
    /\ main = "exited" => \A t \in Threads : thread[t] = "finished"

\* When as many clients come as there are threads, the constructor returns or the process
\* has ended, whichever of them leave half way (IPCServer.cs:25-39, 81-89).
MainExits == <>(main = "exited" \/ process = "crashed")

\* "Catch the IOException that is raised if the pipe is broken or disconnected": a client
\* that leaves does not end the process, but before WaitForConnection, which is not in the
\* try block (IPCServer.cs:53, 79-84).
BrokenIsCaught == process = "running" \/ \E t \in Threads : thread[t] = "listening" /\ Gone(t)
=============================================================================
