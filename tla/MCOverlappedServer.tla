------------------------- MODULE MCOverlappedServer -------------------------
(* A small instance of OverlappedServer: two clients, one with a long        *)
(* message, and one pipe instance more than that.                            *)
EXTENDS OverlappedServer
=============================================================================
