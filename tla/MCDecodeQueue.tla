---------------------------- MODULE MCDecodeQueue ----------------------------
(***************************************************************************)
(* Small instances of DecodeQueue for TLC: 30 frames per second give a     *)
(* queue of two access units, so that overflows happen among a handful of  *)
(* arrivals.  The request limits keep the order 5 < 12 of the source.      *)
(***************************************************************************)
EXTENDS DecodeQueue
=============================================================================
