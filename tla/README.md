# A verification project for InterproecssPOC

The repository is a set of Windows programs with which a voice activation client
(eNova) and a foot scanner application talk over named pipes: the C++ wrapper that
both sides link (`AppWrapper`), and the experiments that came before it (`cpp`, `cs`).
This directory holds TLA+ models of that communication, the TLC runs that check them
on small instances, and TLAPS proofs for every size.

- [The system](#the-system): what there is and what is hard about it
- [The modules](#the-modules): what is modelled, and how it corresponds to the code
- [The runs](#the-runs): what TLC checks, with which bounds and fairness, and what the
  runs say about the code
- [The proofs](#the-proofs): what holds for every value of the constants
- [Not modelled](#not-modelled)

## The system

| component | state it keeps | operations | hard about it |
| --- | --- | --- | --- |
| `NamedPipeServer` (eNovaConnect, and a copy in ScannerSample) | `mIsRun`, `mPipeThread`, `mHPipe` | `Start`, `Stop`, thread `Listen` -> `Read` -> `sendResponse` | a flag shared by two threads; a wake-up by `DeleteFile` that can miss; instances closed on some error paths only; one client at a time |
| `NamedPipeClient` (the same two places) | none; the handle is a local variable | `sendRequest` | the pipe comes and goes between instances; throws without closing; blocking writes and reads |
| `TwoWayCommunicator` | a server, a client, a callback | constructor, `sendData`, `handleRequest`, destructor | starts its thread before its user is constructed; stops twice |
| `ScannerCommunication` | two callbacks, a communicator | `Command`, `State`, `IncomingMessageCallback` | callbacks set after the thread runs; parsing at fixed offsets |
| `ScannerConnector` (ScannerSample) | a server, a client | `SendScannerToEnova`, `handleRequest` | builds the message the offsets above depend on |
| `ScannerCommunicationTest` (VAClientSample) | `mCurrentState` | console commands, `getStateCallback` on the server thread | a string written by one thread and read by another |
| `VAClientLib` | `pVAClient` | `start`, `stop` | a singleton without a lock |
| `vasim` (the server that is built) | `m_hPipe`, one `PIPEINST` per pass | alertable wait, post, fetch, completion routines | an event that stays set; one `OVERLAPPED` for two operations; use after free |
| `original` (the sample it came from) | one `PIPEINST` per client | accept, read, answer, completion routines | many clients on one thread; a failure taken for a connection |
| `ServerThreads` (not built) | one handle for two threads | post ten messages, fetch ten messages | serialised I/O on a synchronous handle; the handle closed under the other thread |
| `Aetrex.IPCCPP.Client` | - | open, write, read, close | - |
| C# `IPCClient`, `Job` | a job, a process, a pipe | start the server, read and answer until cancelled | a byte stream read in fixed pieces; unchecked results |
| C# `IPCServer`, `StreamString` | four threads | welcome, file name, file contents | length prefixes, end of stream, truncation |

Interaction: `ScannerSample` sends JSON requests to `\\.\pipe\eNovaClient`, served by the
`NamedPipeServer` of the voice activation client, and serves
`\\.\pipe\AetrexScannerOS2VoiceActivation`, to which the latter sends states and
commands, from its console thread and, in answer to `GetState`, from inside
`handleRequest` on its server thread. Every request is one call of `sendRequest`, which
opens the pipe, writes one message and closes. Both directions use
`waitForResponse = false` and handlers that return "". The C# client and `vasim` talk
over `\\.\pipe\testpipe`, the C# client having started the server process in a job object.

What makes each component correct:

- server and client: a request is handled at most once, in order, never after its call
  threw; answers go to their callers; nobody is left waiting; instances are closed;
  `Stop` stops (`PipeServer`);
- two communicators and what is built on them: the last state the scanner shows is the
  last one set; no callback is called before it is set or after it is destroyed; an
  instruction does what was meant (`ScannerLink`);
- overlapped servers: one operation per `PIPEINST`, no use of a released one, each
  client served, no connection lost (`OverlappedServer`, `Vasim`);
- the threaded server: whom a thread talks to, and whom it can hold up (`ThreadServer`);
- the C# side: a string read is the string written, also at the end of the stream, and
  every thread is joined (`CsPipeServer`).

The list of hazards, each at its line, is in `PROJECT.json`.

## The modules

| module | what it is |
| --- | --- |
| `Delivery` | the abstract promise of a pipe to its users: what may happen to the requests of a set of calls, without instances, threads or handles |
| `PipeServer` | `NamedPipeServer`, its thread, its owner, and the calls of `sendRequest` made to it; it implements `Delivery` |
| `ScannerLink` | client and scanner on two pipes, each an instance of `Delivery` |
| `OverlappedServer` | `original.cpp` and the C++ test client |
| `ThreadServer` | `Aetrex.IPCCPP.ServerThreads.cpp` and the clients of the repository |
| `CsPipeServer` | `IPCServer.cs` with `StreamString.cs` |
| `Vasim` | `vasim.cpp`, and the C# program and job object that start it |
| `MC...` | the constants of TLC's instances |
| `...Proofs` | the proofs about the module before the suffix |
| `ScannerLinkOrderProofs` | the proofs about `ScannerLink` that turn on the order of its messages |

### PipeServer

The three kinds of actor and their program counters:

| variable | code |
| --- | --- |
| `opc`, `round`, `joinable`, `stopped` | the thread that constructs and destroys the `TwoWayCommunicator`. Its destructor calls `Stop` (`round = 1`), and destroying the `NamedPipeServer` calls it again (`round = 2`). `joinable` is `mPipeThread.joinable()`; `stopped` records that a `Stop` returned true |
| `mIsRun` | the flag. It has no initialiser and no assignment in the constructor, and the project's language standard leaves such an `std::atomic` indeterminate: `Init` lets it be either value |
| `spc`, `mHPipe`, `cur` | `Listen` (`"entry"` to `"waiting"`) and `Read` (`"alloc"` to `"flush"`), called inline; `cur` is the local `request` |
| `cpc`, `conn`, `got` | each call: where it is, its local `mHPipe`, and the answer it got |
| `state`, `req`, `resp` | Windows' side of each pipe instance, seen from the server end: no server end, listening, connected, or closing (the client has closed); the request and the response waiting in it |
| `request`, `faults` | parameters of a behaviour: length and `waitForResponse` of each call, and what may fail |
| `handled`, `ahead` | history variables, read by properties only |

An action runs from one system call or access of `mIsRun` to the next; a name ending in
`Fails` is the error path of the one before it. A request and a response are identified by
the call they belong to: the properties ask whose they are, not what they say. Lengths
are kept, because two different limits bite: a write of more than BUFSIZE *bytes* blocks
until it is read, and a read of more than BUFSIZE wide *characters* fails. `BufSize` is
that number, with two bytes to the character.

Windows is modelled from what these calls do:
`DeleteFile` on a pipe opens and closes it, so it turns a listening instance into a
closing one and does nothing when none is listening; a new instance accepts a client from `CreateNamedPipe` on, before
`ConnectNamedPipe`; `ConnectNamedPipe` fails with `ERROR_NO_DATA` on a closing instance;
a request written before the client closed can still be read; `DisconnectNamedPipe` and
closing the server end discard what was not read; a blocked write of a message that was
read in part may return or stay blocked; destroying a joinable `std::thread` ends the
process; a process that ends closes its handles, those that leaked included (`Die`,
`Exit`). `Utils::stringToWstring` throws at a text that is not UTF-8: in `sendRequest` this
comes after the connection is made and before anything is written (`RequestNotText`), and
leaves a client end open that is alive; in `sendResponse` it has `Read` return as any other
failure there has (`ReplyNotText`). An identity in `Instances` stands for a handle value, and is not reused while
either end holds it.

### ScannerLink

It composes. `PipeServer` implements `Delivery`, so each of the two pipes is an instance
of `Delivery` here: calls may be lost, fail, throw after they were sent, and be handled
late, but at most once and in the order in which they connected. Four threads use them:

| variable | code |
| --- | --- |
| `con`, `tell`, `next` | the client's console thread: the constructors (`"new"` to `"first"`), `SendStateToScanner` (`"assign"`, `"call"`), and the destructors (`"noState"` to `"gone"`) member by member |
| `srv`, `cur` | the client's server thread: `Listen` not begun (`"unborn"`), between requests (`"idle"`), in `IncomingMessageCallback` for the request `cur`, with an instance that `DeleteFile` has missed (`"missed"`), or done (`"ended"`) |
| `getCb`, `micCb` | whether `mGetStateCallback` and `mChangeMicrophoneCallback` are set |
| `mCurrentState` | the string; `Reading` is what another thread may see of it meanwhile |
| `said`, `shown`, `text` | the two fields of each message to the scanner, those shown last, and the instruction and index of each message to the client |
| `did`, `overlapped` | history variables |

Messages are composed as far as the parser's offsets go: `Compose` computes where
`SendScannerToEnova` puts the instruction and the index, from the length of the time
stamp on, and `Parse` looks for them where `IncomingMessageCallback` does, at 49 and 98.
A string that is assigned while it is read, or is read after its end, is `Torn` or either
value. A callback that is destroyed between its test and its call throws, and nothing
catches it (`CallOfNothing`).

`Stop` is modelled as far as the end of the client depends on it. It resets the flag,
deletes the file and joins (`Stop`, `Joined`); its `DeleteFile` may come while the thread has
tested the flag and has no instance, and then the thread waits for the next caller
(`Missed`, `Release`). Called before `Listen` has set the flag it does neither
(`StopTooEarly`): the callback of the communicator ends under a thread that may still
call it (`IncomingTooLate`), the second `Stop`, that of `~NamedPipeServer`, joins or comes
too early again, and then the end of the thread object ends the process. What keeps
`Stop` in detail is `PipeServer`'s subject (`StopReturns`).

### OverlappedServer

`loop` is where `Init` is; each instance has its state in Windows (`pipe`, `user`,
`inbound`, `outbound`), and its `PIPEINST` (`mem`, `chRequest`, `chReply`, `op`): `op` is the
operation under way with it or the completion that is queued. A completion routine is one
action and runs at `loop = "wait"` only, as completion routines run in the alertable wait.
`event` follows the manual-reset event: signalled at the start, reset by
`ConnectNamedPipe`, signalled by a connection that was pending, and set by hand on
`ERROR_PIPE_CONNECTED` but not on `ERROR_NO_DATA`. A client may come between
`CreateNamedPipe` and `ConnectNamedPipe`, and an instance that was closed is used again.

### ThreadServer

A handle *value* is an element of `Handles`; `pipe` and `user` say what it stands for now,
and `handle[c]` is the value the two threads of client `c` were given. `lock` is the
synchronous handle's one operation at a time: a pending `ReadFile` keeps `WriteFile`,
`DisconnectNamedPipe` and `ConnectNamedPipe` waiting. The main thread has an instance from
`CreateNamedPipe` on (`main = "created"`) and calls `ConnectNamedPipe` on it afterwards
(`ConnectBegins`); a client may come in between, and so may the `ReadFile` of a listening
thread to which the same handle value was given before. A `CreateNamedPipe` that fails
ends the process. The runs set `Rounds` to 2.

### CsPipeServer

`main`, `started`, `servers` and `count` are the constructor of `IPCServer`; `thread` is where
each `ServerThread` is. A client can connect as soon as the pipe is constructed
(`"listening"`); if it leaves before `WaitForConnection` is called, the exception is outside
the `try` block and ends the process. The pipe has no buffer, so that a write and the read at its
other end are one step (`Meet`). `Sent`, `High`, `Low` and `Joined` are the arithmetic of
`StreamString`'s two bytes of length; `ReadByte` returns -1 past the end. Exceptions that
`ServerThread` does not catch end the process (`Crash`).

### Vasim

`Pass` is one return of the wait with the event signalled up to `FetchMessageFromClient`,
which is the next action; the event is never reset. `MaxReads` is the number of reads
that Windows lets be pending at a time. The C# program adds itself to the job or fails
to (`AddProcess`), starts the server, and reads the byte stream in pieces. `late` records
that two commands waited together, `cut` that a piece was not one command.

Operators named `Mut...` are variants of the actions with a plausible mistake in them;
no specification uses them. They show, one per property, that the property can fail.

## The runs

| run | instance | what it shows |
| --- | --- | --- |
| `pipe_deployed` | 2 calls, nobody waits, handler returns "", `CreateNamedPipe` may fail, callers may die, requests may not be UTF-8 | instances and all liveness in the configuration the applications use |
| `pipe_replies` | 2 calls, each waiting or not, handler answering or not, callers dying together with one of the other two faults above, or failing allocations | safety with responses, and the refinement of `Delivery` |
| `pipe_accept_race` | 1 call, no fault | a *violation*: a request that was sent is thrown away |
| `pipe_loop_busy` | 2 calls that wait, handler returns "" | a *violation*: the loop is not free for the next client |
| `link_deployed` | 2 calls of `Command`, 1 instruction, 2 states | safety and how the destructor ends, over two pipes that fail |
| `link_fields` | 1 call of `Command`, 1 instruction | a *violation*: the field "state" holds a command |
| `overlapped` | 2 clients, one with a message too long, 3 instances, failures | safety, and that a read ends |
| `threads` | 2 clients, one that reads and one that writes first, 3 handle values, 2 turns | safety, what a client and its threads can do to each other, liveness of the rest |
| `threads_crossed` | the same | a *violation*: a listening thread gets another client's message |
| `cs_server` | 2 threads, 3 clients, files too long, missing and denied | contents, counting, the end of the constructor |
| `cs_broken` | the same without the denied file | a *violation*: a client that leaves ends the process |
| `vasim` | the code's numbers, 5 pending reads | when commands are cut, memory is misused and the client is hung up on |

### PipeServer

Properties. `OneInstance`: no instance stays open behind the thread's back, but for
those whose response could not be sent. `StopTrueMeansDown`: a `Stop` that returned true
left no thread and no client. `AnswersOwnRequest`: answers are not mixed up, and a call
that waits gets one. `OneLiveLeak`: the client ends that `sendRequest` leaks when it throws
cannot block the server, but for one at a time, that of a request which is not UTF-8.
`KeepsPromise`: the refinement of `Delivery`. `CallsReturn`,
`AcceptedIsHandled`, `StopReturns`, `LoopIsFree`: the liveness properties.

Bounds. Two calls make every case happen: one is being served while the other finds the
pipe listening, busy or absent, connects before or after it, or takes over an instance.
An instance leaks at most once per call, so one more instance than calls means that
`CreateNamedPipe` never lacks an identity. A buffer of four characters has a message that
is written at once (2), one that blocks until it is read (4) and one that cannot be read
(5). `pipe_replies` uses symmetry over the calls; the liveness run uses none. Nothing is
capped: each call happens once. Deadlock is not checked, because every behaviour ends
when the calls have returned and the owner is gone.

Fairness. `ServerNext`, `OwnerNext` and `ClientNext(c)` are weakly fair: Windows
schedules each thread, and a blocking call returns once its condition holds. A call need
not begin, the owner need not quit and faults need not happen: `Begin`, `Quit`, `Die`,
`Exit` and `ServerFaults` have no fairness. `WaitNamedPipe` may give up at any
moment at which nothing is listening, because two seconds can pass anywhere.

### ScannerLink

`ShownIsCurrent`: when all is quiet the scanner shows the client's state, unless an answer
and a change of state overlapped. `AnswersAreStates`: an answer is a state, but for the
same overlap and the end of the client. `InstructionUnderstood`: once the client is
constructed an instruction does what was meant. `CallbackOutlivesCall`: no callback is called
unset, but during destruction. `StopIsNotBlocked`: the destructor ends, or the process,
although the thread it joins may be calling the other process or may not have begun;
unless `DeleteFile` has missed the thread.

Bounds: two calls of `Command` and one answer are what it takes for an answer to be
overtaken or to overtake, in both directions, on a pipe that keeps the order of
connections; two states tell an old from a new one. The index is one value in the runs;
the theorem `Instructed` is about all of -1 to 9. Fairness: the two threads of the client
run, and a call that has begun ends, which is what `CallsReturn` of `PipeServer` says of
the other end. Nothing has to begin, and no message has to arrive.

### OverlappedServer

`OneOperationEach`: a `PIPEINST` is allocated exactly while one operation uses it.
`NobodyIsForgotten`: a connected client has a `PIPEINST` or is the next the loop turns to.
`RepliesMatch`, `LetInMeansServed`: replies are not mixed up or discarded. `AcceptsAgain`:
a server that waits can accept again unless a client left before `ConnectNamedPipe`.
`ReadsEnd`: a client that waits for its reply is not left waiting.

Bounds: two clients are one that is served and one that comes, stays, dies or sends too
much meanwhile, and three instances let one be used again while two are held; the safety
properties are proved for all numbers. Fairness: weak for the loop; strong for each
completion routine and for `CreateNamedPipe`, because a queued routine gets its turn in
some wait although the event may be signalled again and again, and a `CreateNamedPipe`
that fails now and then does not fail for ever. No user has to press ENTER.

### ThreadServer

`PostsToOwnClient`: a posting thread writes to, and disconnects, its own client's
connection and no other. `StuckUntilGone`: once a client that reads first, its posting and its
listening thread wait for each other, nothing but the client's leaving ends it.
`LoopIsFree`: again and again the main thread waits for nobody else than the next client,
or is held up by a listening thread that has outlived its connection (`HeldUp`), or the
process has ended. TLC finds the property violated without `HeldUp`, that is, as the comment
at the loop has it. `ConnectionsEnd`: the
connection of a client that has gone is closed, even if the listening thread of another
sits on it.

Bounds: with three handle values for two clients a value is free to be used again while
another is held, which is what crossing takes; two turns are a first and a last one. The
numbers of commands and messages are bounded by the turns. Fairness: weak for each thread
of the server; the clients need not do anything.

### CsPipeServer

`OwnContents`: a client is sent the file it named, whole or cut at 65535 bytes, with a
length that says so. `CountsThreads`: the countdown is the number of threads held, and ends
with the last. `MainExits`: the constructor returns or the process has ended.

Bounds: with more clients than threads every thread finds one; 65536 bytes are one too
many, and names of 300 bytes have two bytes of length that are not zero. Fairness: weak
for each thread's actions, and with them for the client's part of a write and read; a
client may leave instead at any moment.

### Vasim

`PiecesAreCommands`: a piece is a command unless two waited together.
`MisuseMeansNoClient`: a freed `PIPEINST` is used only without a client. `HangsUpLate`: not
before the last command. `HangsUpInTheEnd`: but then certainly. `NoOrphan`: the server
ends with a client that is in the job.

Bounds: three commands, pieces of 32 characters and commands of 17 are the code's; five
pending reads are more than the commands, so that the limit is reached only after the
last one. Fairness: weak for both processes and for the closing of the job. Answers
that no read takes accumulate, but the client gives at most one per piece it reads.

### What the runs say about the code

- `StopReturns`, `StopIsNotBlocked` and `AcceptedIsHandled` hold with the exceptions they
  name, and each exception is real: `Stop` hangs if its `DeleteFile` comes between the
  thread's test of the flag and `CreateNamedPipe`, unless another client happens to connect;
  a request accepted just before `Stop` is dropped.
- A request that is not UTF-8 has `sendRequest` throw with a live connection that nobody
  closes. `ScannerCommunication` catches the exception and its process goes on, and as
  long as it does the server's thread waits in `ReadFile` for that client: no other is
  served, and `Stop` does not return (`HeldUp` in `LoopIsFree` and `StopReturns`). There can
  be no second such end meanwhile (`OneLiveLeak`).
- A `Stop` that comes before the thread's first step returns false and is forgotten, as
  it is `Listen` that sets the flag; the process then ends in `std::terminate`
  (action `Terminate`).
- With an indeterminate flag that is true, `Start` creates no thread.
- A call that waits for a response and a handler that returns none block each other
  (`pipe_loop_busy`); the applications never do this.
- A caller that has not been told of a failure does not know that its request was
  handled (`pipe_accept_race`). One that has been told knows that it will not be handled
  from then on (`KeepsPromise`), not that it was not handled before: a call that waits for
  a response may throw after its request was.
- The microphone index is understood because the time stamp has 19 characters: one more,
  for which its buffer has room, and no instruction is recognised. An index of two
  digits is read as its first.
- The arguments of `Command` are swapped in the sample (`link_fields`), and an answer that
  overlaps a change can leave the scanner with an old state for good.
- An instruction that arrives while the client is being destroyed can end it by
  `bad_function_call`.
- `original.cpp` is sound with its `PIPEINST`s. It stops accepting for ever if a client
  connects and leaves between `CreateNamedPipe` and `ConnectNamedPipe`; a failing
  `CreateNamedPipe` is tried again at once, because the event is still signalled.
- In the threaded server a client that reads first is stuck from the start if its
  listening thread wins the race (`StuckUntilGone`), and a listening thread can take
  messages of another client (`threads_crossed`), or keep the main thread from accepting
  as long as the next client stays (`HeldUp` in `LoopIsFree`).
- A client of the C# server that leaves early ends the server (`cs_broken`), as does one
  that leaves before `WaitForConnection`, and a file that may not be read.
- `vasim` goes round without waiting once its client is connected, with one more pending
  read each time. A client that stays is hung up on in the end. A command that is
  posted before the last was read is cut across two pieces.

Deadlock is not checked in any run, because every one of these programs may stop: clients
end, owners quit, processes die.

## The proofs

In each proof module the inductive invariant comes first, then one lemma per action, then
`InitInv`, `NextInv` and the theorems.

### PipeServer

`PipeServerProofs` proves, from `PipeAssumption` alone, for any calls, instances, buffer
size, lengths, and choice of waits, replies and faults:

| theorem | statement |
| --- | --- |
| `Invariance` | `Spec => []IInv` |
| `TypeCorrect` | `Spec => []TypeOK` |
| `InstancesAreClosed` | `Spec => []OneInstance` |
| `StopIsTruthful` | `Spec => []StopTrueMeansDown` |
| `AnswersMatch` | `Spec => []AnswersOwnRequest` |
| `LeaksAreKnown` | `Spec => []OneLiveLeak` |
| `NoCircle` | `Spec => []NobodyIsStuck`: a call blocked in `WriteFile` or `ReadFile` is the client of a thread that is not blocked, and a thread blocked in `ReadFile` or `FlushFileBuffers` has a client that is not, or is held up by a client end that leaked alive; unless an allocation failed, a response could not be converted, or a call waits for a response that a handler need not give |
| `InstancesSuffice` | with more instances than calls, both finite, `CreateNamedPipe` always finds a free identity |
| `PromiseKept` | `Spec => KeepsPromise`, the refinement of `Delivery` |
| `CallsAreOrdered`, `LateIsNever` | what `Delivery` promises, in the variables of `PipeServer` |

None of the properties is inductive. `IInv` adds what they rest on: only `mHPipe` can be
listening, and only while the thread accepts (`InvServer`); no two calls hold the same
client end (`InvConn`), and one that threw holds a dead one or has written nothing
(`OneLiveLeak`); a connection that is alive and not in the thread's hands is that of a request
that was handled (`InvLeft`); a waiting request was written by the one client of its instance, was not handled, and waits nowhere else
(`InvReq`); the request in hand is that of the client at the other end of `mHPipe`, so
that a response written to `mHPipe` goes to the right caller (`InvCur`, `InvResp`,
`InvGot`); nobody has connected after the client the thread is serving, which is
where the order of delivery comes from (`InvOrder`); a thread that is not joinable
has ended or never was (`InvOwner`). There is one lemma for each conjunct, with one step for each
action; `NextInv` puts them together. The refinement maps program counters of a call to
outcomes (`Outcome`); `HandleRefines`, `ServerRefines`, `ClientRefines` and
`OwnerRefines` show that each action is a step of `Delivery` or changes nothing it sees.

`NoCircle` is what there is of `CallsReturn` and `LoopIsFree` without fairness, and so holds
for every size. It needs to know that a connected instance has a client (`InvClient`), that
a response waits for one that reads or has not closed (`InvReads`), and, of each call that
waits, where its request or response is (`InvPending`): in the instance, in the hands of
the thread, or about to be discarded. The two exceptions are real: an instance abandoned
after a failed `HeapAlloc` keeps its client waiting, and `pipe_loop_busy` is the other.

`InstancesSuffice` says that the runs, which have one instance more than calls, are not
spared a case by `Create` being disabled. Until the flag is reset every instance that is
connected, closing, or held by a client was taken by a call of its own (`InvTaken`), so
that with more instances than calls one is free by the pigeonhole principle. `DeleteFile`
takes an instance without a call, but resets the flag before (`InvRun`).

### Delivery

`DeliveryProofs` proves of `Delivery` what its header says in words. `StatesKept`: a request
is handled at most once and after it was sent; a call that waits returns only after that;
`ahead` is a strict order, total on the calls that have connected. `StepsKept`: no
request is handled after one that is behind it, and none after its call threw.
`PipeServerProofs` instantiates the module: `CallsAreOrdered` and `LateIsNever` are these
theorems and `PromiseKept`.

### The other modules

From the assumption of each module on its constants alone:

| module | theorems | the inductive invariant adds |
| --- | --- | --- |
| `ScannerLink` | `TypeCorrect`, `ShowsCurrent` (`ShownIsCurrent`), `ShowsLastTell`, `PipesAreDeliveries`, `Answers` (`AnswersAreStates`), `CallbacksLive` (`CallbackOutlivesCall`), `Instructed` (`InstructionUnderstood`) | which callbacks are set and what `mCurrentState` holds at each point of the console thread, and which request the server thread is in. `Instructed` rests on `OffsetsFit` (where the fields are) and `OneDigit`, `TypeCorrect` on `FirstDigitIsDigit` (any `int` has a first digit), lemmas about integers. For the order of the messages see below |
| `OverlappedServer` | `TypeCorrect`, `PipeInstOwned` (`OneOperationEach`), `ConnectionsKept` (`NobodyIsForgotten`), `OwnReplies` (`RepliesMatch`), `NoneTurnedDown` (`LetInMeansServed`), `NeverDeaf` (`AcceptsAgain`), `ReadersAnswered`, `InstancesSuffice` | client and instance know each other (`Linked`); nothing is left in an instance from the client before (`Clean`), and what is in it is its client's (`Own`); what the event says of `m_hPipe` (`Setup`); whom the server may hang up on (`Excused`) |
| `ThreadServer` | `TypeCorrect`, `OwnClient` (`PostsToOwnClient`), `CrossedMeansClosed`, `NobodyFrees` (`StuckUntilGone`), `GoneHoldsUpNobody`, `BothThreads`, `OnlyOutlivedHoldUp`, `ValuesSuffice` | one client per connection (`Connections`), values in the main thread's hands are in no posting thread's (`Accepting`), `DisconnectNamedPipe` to `CloseHandle` (`Closing`), who holds a handle (`Locks`), how many turns were made (`Turns`) |
| `CsPipeServer` | `TypeCorrect`, `Contents` (`OwnContents`), `Joins` (`CountsThreads`), `LengthRoundTrip`, `AlwaysInStep` | who serves whom (`Peers`), what has been read of a length (`Lengths`) and of a name (`Names`), who has not been joined (`Held`) |
| `Vasim` | `TypeCorrect`, `Pieces` (`PiecesAreCommands`), `Misuse` (`MisuseMeansNoClient`), `HangUp` (`HangsUpLate`) | what waits for the client (`Waiting`), when a client is there (`LetIn`), that there are no more reads than passes (`Passes`), when memory was freed (`Frees`) |

`ShowsCurrent` has an inductive invariant of its own, `Order` in `ScannerLinkOrderProofs`.
The console thread makes one call at a time, so when it tells a state, all it told before
has ended and is ahead of it (`TellIsLast`): `Delivery` handles none of that any more once
the last one was handled. What is left are answers of the server thread, on the same pipe:
without an overlap an answer that is not ahead of the last tell has read the same state
(`AnswerIsShown`, `TellIsShown`). `ShowsLastTell` is stronger than `ShowsCurrent` where there
was a call of `Command`: the answers need not have arrived. `PipesAreDeliveries` is the
other half of the composition: whatever the two programs do, each pipe is used as
`Delivery` allows, and its theorems hold of both.

None of the listed properties is inductive alone. `LetInMeansServed`, for instance, needs to
know that a connected instance has exactly one operation, that a read can fail only for a
long message, and that the instance taken over by `NewClient` is the one the event spoke
of; `PostsToOwnClient` needs that a value the main thread creates is not one a posting
thread still works with, although it may be one that a listening thread still has.

Liveness itself is TLC's, but its safety half is proved where there is one: that at no time
somebody waits for what nobody is about to do. In `OverlappedServer` (`ReadersAnswered`) a
message that was written is followed from the pipe to the reply: the client's instance has
a read pending or is the one the loop will turn to, or a completion routine is queued
with the client's own request. The invariant adds that nothing but a read is begun before the
message is there (`Unasked`) and that a completed read has one (`Requested`). In
`ThreadServer` (`GoneHoldsUpNobody`) the pending `ReadFile` that a posting thread waits for
fails once the client has gone, even if it is that of a thread of another client; and of the main
thread's waits only that of `ConnectNamedPipe` is left, and the one of `HeldUp`: there is a
handle value (`ValuesSuffice`), exactly one client whose second thread is due
(`BothThreads`), and nobody keeps `ConnectNamedPipe` from being called but a listening
thread whose own connection was closed (`OnlyOutlivedHoldUp`). In
`CsPipeServer` (`AlwaysInStep`) each thread and its client are at the two ends of the same
transfer, by an invariant on the pair. `InstancesSuffice` and `ValuesSuffice` also say that
nothing is true of the models only because they ran out of instances: each client occupies
one (a count of those that came against those occupied in `OverlappedServer`, where an
instance left behind no longer knows its client; an injection in `ThreadServer`).

### Only model-checked

- All liveness: TLAPS cannot prove it here, as it needs `ENABLED`. That is `CallsReturn`,
  `AcceptedIsHandled`, `StopReturns`, `StopIsNotBlocked`, `ReadsEnd`, `LoopIsFree`,
  `ConnectionsEnd`, `MainExits`, `HangsUpInTheEnd` and `NoOrphan`.
- That the exceptions of `StopReturns`, `AcceptedIsHandled` and `LoopIsFree` are needed, which
  is for TLC to find, as are the violations.

## Not modelled

- spdlog and its bundled fmt under `external_references`: vendored, some 19500 of the
  repository's 22200 lines of implementation, included by one file that is not part of the
  build. The models cover the repository's own code.
- `VAClientLib` and `AppWrapper`: a singleton whose two methods print a line, started and
  stopped once by one thread.
- The key loops of the console programs, console output, logging, and the contents of
  messages beyond what is parsed or compared.
- Time: the two seconds of `WaitNamedPipe`, the sleeps and the 250 ms of `Join` are "some
  time".
- A response longer than `BUFSIZE`, of which `sendRequest` returns the last chunk only
  (`NamedPipeClient.cpp:84-97`): no handler gives a response.
- What the UTF conversions of `Common.h` produce; that they throw is modelled where it can
  happen. `wstringToString` is given what the other side has made by `stringToWstring`, and
  does not throw. Exceptions of `handleRequest` other than an empty callback's.
- In `ScannerLink`, an indeterminate `mIsRun` that is true when `Start` reads it: there is
  then no thread, and nothing to say about it that `PipeServer` does not.
- A null `mHPipe` or `mRequestHandler` in `Read`, which no caller can produce; two users of
  one `NamedPipeServer` object.
- A failure of `WriteFile`, `ReadFile`, `SetNamedPipeHandleState`, `CreateEvent` or a wait on
  healthy objects.
- What a use of a freed `PIPEINST` does beyond the pipe being closed or the process
  ending, and the double `CloseHandle` after it, which would matter only with other
  handles in the process.
