----------------------------- MODULE MCPackRadio -----------------------------
(* Small instances of the Pack advertiser.                                  *)
EXTENDS PackRadio

CONSTANTS d1, d2

Packs(S) == [live |-> TRUE, packs |-> S]

(* Every live slot has a valid location. *)
LocatedPlans == {IdlePlan} \cup {Packs(S) : S \in SUBSET UasIds \ {{}}}
==============================================================================
