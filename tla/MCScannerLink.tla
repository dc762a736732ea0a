---------------------------- MODULE MCScannerLink ----------------------------
(* A small instance of ScannerLink: two calls of Command, one instruction,    *)
(* with one index of those its prompt asks for.                               *)
EXTENDS ScannerLink

MCIndexes == {7}
=============================================================================
