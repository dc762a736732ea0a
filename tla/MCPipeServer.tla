---------------------------- MODULE MCPipeServer ----------------------------
(* Small instances of PipeServer: a few calls, enough instances that one is   *)
(* always free, a buffer of four characters, and the three kinds of request   *)
(* it tells apart: written at once, written when read, too long to be read.   *)
EXTENDS PipeServer, TLC

MCBufSize == 4
MCLengths == {2, 4, 5}
NoReply == {FALSE}
AnyReply == BOOLEAN
NoWait == {FALSE}
AlwaysWait == {TRUE}
AnyWait == BOOLEAN
NoFault == {{}}
DeployedFaults == {{"create", "crash", "text"}}
AnyFaults == {{"create", "crash"}, {"crash", "text"}, {"alloc"}}
Shortest == {2}

CallSymmetry == Permutations(Calls)
=============================================================================
