---------------------------- MODULE MCRateLimit ----------------------------
(***************************************************************************)
(* RateLimit for TLC: one client, since clients share nothing but the      *)
(* clock, and two limits, the second of which outlasts two windows of the  *)
(* first.                                                                  *)
(***************************************************************************)
EXTENDS RateLimit

CONSTANT c1

MCLimits == <<[amount |-> 2, period |-> 2], [amount |-> 3, period |-> 5]>>

MCRest == <<7, 5, 0>>
=============================================================================
