------------------------------ MODULE MCAdverts ------------------------------
(* A small instance of the advertisers.                                     *)
EXTENDS Adverts

CONSTANTS d1, d2

Live(d, loc, sys) == [of |-> d, loc |-> loc, sys |-> sys]

(* No drone, one with everything, and two: one without a position and one   *)
(* without an operator's.                                                   *)
FewTables ==
  { <<>>, <<Live(d1, TRUE, TRUE)>>, <<Live(d2, FALSE, TRUE), Live(d1, TRUE, FALSE)>> }
==============================================================================
