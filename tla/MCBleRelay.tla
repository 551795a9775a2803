----------------------------- MODULE MCBleRelay ------------------------------
(* Small instances of the relay task.                                       *)
EXTENDS BleRelay

CONSTANTS d1, d2, m1, m2

At(d) == [of |-> d, air |-> TRUE, ts |-> UnknownTs]
NamedFrame(d, m, loc) == [hasId |-> TRUE, id |-> d, mac |-> m, loc |-> loc]

(* Every frame carries a position. *)
LocatedFrames == { NamedFrame(d1, m1, At(d1)), NamedFrame(d2, m2, At(d2)) }

(* The second drone only sends its Basic ID. *)
MixedFrames == { NamedFrame(d1, m1, At(d1)), NamedFrame(d2, m2, NoLocation) }
==============================================================================
