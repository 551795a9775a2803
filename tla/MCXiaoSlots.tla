----------------------------- MODULE MCXiaoSlots -----------------------------
(* Small instances of the XIAO slot table.                                  *)
EXTENDS XiaoSlots

CONSTANTS d1, d2, d3, m1, m2, m3

Operator(d) == [of |-> d, src |-> "operator"]
Invalid(d)  == [of |-> d, src |-> "invalid"]

Named1(d, m, sys) ==
  [hasId |-> TRUE, id |-> d, mac |-> m, hasLoc |-> FALSE, loc |-> NoLocation,
   sys |-> sys]
Bare(d, m, air) ==
  [hasId |-> FALSE, id |-> Blank, mac |-> m, hasLoc |-> TRUE,
   loc |-> [of |-> d, air |-> air], sys |-> NoSystem]
BareSystem(m, sys) ==
  [hasId |-> FALSE, id |-> Blank, mac |-> m, hasLoc |-> FALSE, loc |-> NoLocation,
   sys |-> sys]

(* Three drones for two slots: the first flies, lands, and tells its        *)
(* operator's position now and then; the second's is never valid; the third *)
(* only sends its Basic ID, from an address the first uses later.           *)
MixedFrames ==
  { Named1(d1, m1, NoSystem), Bare(d1, m1, TRUE), Bare(d1, m1, FALSE),
    BareSystem(m1, Operator(d1)),
    Named1(d2, m2, Invalid(d2)), Bare(d2, m2, TRUE),
    Named1(d3, m3, NoSystem), Named1(d1, m3, NoSystem) }
==============================================================================
