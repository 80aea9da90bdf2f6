--------------------------- MODULE MCStreamSession ---------------------------
(***************************************************************************)
(* A small instance of StreamSession: two local candidates, so that their  *)
(* order matters; one remote candidate and a table for one, so that it can *)
(* be full and the candidate repeated; and two messages of the server, a   *)
(* trigger and a repeat of it or a close.                                  *)
(***************************************************************************)
EXTENDS StreamSession

CONSTANT r1
=============================================================================
