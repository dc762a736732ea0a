--------------------------- MODULE MCCsPipeServer ---------------------------
(* A small instance of CsPipeServer: two threads and three clients, which     *)
(* name a file that is too long for a string, one that is missing, or one     *)
(* that may not be read.  A name has 300 bytes, so that its length takes two. *)
EXTENDS CsPipeServer

CONSTANTS Big, Absent, Secret

MCSize == [f \in {Big, Absent, Secret} |-> IF f = Big THEN 65536 ELSE 10]
=============================================================================
