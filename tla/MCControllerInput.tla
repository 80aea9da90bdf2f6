-------------------------- MODULE MCControllerInput --------------------------
(***************************************************************************)
(* A small instance of ControllerInput: a stick at rest, and at two        *)
(* positions of the left half that differ by no more than the threshold.   *)
(***************************************************************************)
EXTENDS ControllerInput

MCSticks == {-6, -5, 0}
=============================================================================
