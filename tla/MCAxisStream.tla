---------------------------- MODULE MCAxisStream ----------------------------
(***************************************************************************)
(* A sender and a receiver, on a clock with a period of two units of time. *)
(* take() makes the other consumers, push_back() the other producers.      *)
(***************************************************************************)
EXTENDS AxisStream

CONSTANTS a, b, s1, r1
=============================================================================
