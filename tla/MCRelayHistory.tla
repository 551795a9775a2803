--------------------------- MODULE MCRelayHistory ----------------------------
(* Small instances of the slot table with its history.                      *)
EXTENDS RelayHistory

CONSTANTS d1, d2, d3, m1, m2, m3, m4

At(d, air, ts) == [of |-> d, air |-> air, ts |-> ts]

NamedFrame(d, m, loc) == [hasId |-> TRUE, id |-> d, mac |-> m, loc |-> loc]
BareFrame(m, loc)     == [hasId |-> FALSE, id |-> Blank, mac |-> m, loc |-> loc]

(* Three drones compete for the slots.  The first reports with and without  *)
(* its Basic ID, flies, lands, loses its GPS time and changes its address;  *)
(* the timestamps of all three may stick.                                   *)
HistoryFrames ==
  { NamedFrame(d1, m1, NoLocation), NamedFrame(d1, m4, NoLocation),
    NamedFrame(d1, m1, At(d1, TRUE, 0)),
    BareFrame(m1, At(d1, TRUE, 0)), BareFrame(m1, At(d1, FALSE, UnknownTs)),
    BareFrame(m4, At(d1, TRUE, 0)),
    NamedFrame(d2, m2, At(d2, TRUE, 0)), BareFrame(m2, At(d2, TRUE, 0)),
    NamedFrame(d3, m3, NoLocation), NamedFrame(d3, m3, At(d3, TRUE, 0)) }

(* Three drones whose timestamps stick, one more than the list has entries. *)
FreezingFrames ==
  { NamedFrame(d1, m1, At(d1, TRUE, 0)), NamedFrame(d2, m2, At(d2, TRUE, 0)),
    NamedFrame(d3, m3, At(d3, TRUE, 0)) }
==============================================================================
