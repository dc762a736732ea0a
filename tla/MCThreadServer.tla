--------------------------- MODULE MCThreadServer ---------------------------
(* A small instance of ThreadServer: two clients, one handle value more than  *)
(* that, and two turns of the loops.                                          *)
EXTENDS ThreadServer
=============================================================================
