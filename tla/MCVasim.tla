------------------------------- MODULE MCVasim -------------------------------
(* Vasim with the numbers of the code, and five reads that may be pending.    *)
EXTENDS Vasim
=============================================================================
