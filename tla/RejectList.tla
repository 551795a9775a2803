------------------------------ MODULE RejectList -----------------------------
(***************************************************************************)
(* The reject list of WSW-Firmware/main/relay_policy.c on its own: pairs   *)
(* (uas_id, ts) are added as slots are evicted as frozen, at any tick and  *)
(* more of them than the list has entries, and time passes.  History       *)
(* variable age says how long ago each pair was really added, which the    *)
(* list only knows from wrapping ticks.                                    *)
(***************************************************************************)
EXTENDS RelayPolicy, FiniteSets

CONSTANTS
  MaxWait,   \* most ticks that pass between two uses of the list
  Horizon    \* bound on the ticks a behaviour lasts

ASSUME ListAssumption == MaxWait \in Nat \ {0} /\ Horizon \in Nat

Pairs == UasIds \X OdidTs

VARIABLES
  list,   \* rp_reject_list_t
  now,    \* current tick
  age,    \* history: ticks since each pair was added, up to one beyond its life
  spent   \* ticks since the start, up to Horizon

listVars == <<list, now, age, spent>>

Expired == RejectTtl + 1
UpTo(n) == IF n <= RejectTtl THEN n ELSE Expired

InitList ==
  /\ list = NoRejects
  /\ now \in Tick
  /\ age = [p \in Pairs |-> Expired]
  /\ spent = 0

(* A slot with this id and timestamp is evicted as frozen. *)
Add(p) ==
  /\ list' = RejectAdd(list, p[1], p[2], now)
  /\ age' = [age EXCEPT ![p] = 0]
  /\ UNCHANGED <<now, spent>>

Wait(k) ==
  /\ spent + k <= Horizon
  /\ spent' = spent + k
  /\ now' = Later(now, k)
  /\ age' = [p \in Pairs |-> UpTo(age[p] + k)]
  /\ UNCHANGED list

NextList ==
  \/ \E p \in Pairs : Add(p)
  \/ \E k \in 1 .. MaxWait : Wait(k)

SpecList == InitList /\ [][NextList]_listVars

------------------------------------------------------------------------------
Refused(p) == RejectContains(list, p[1], p[2], now)

(* Nothing is refused that was not added within the life of an entry:       *)
(* "True while an unexpired entry matches exactly" (relay_policy.h).        *)
RefusedWasAdded == \A p \in Pairs : Refused(p) => age[p] <= RejectTtl

(* The pairs added last are refused, as many as the list has entries,       *)
(* although adding reuses expired entries, refreshes and replaces: only     *)
(* the oldest ever gives way.                                               *)
LatestRefused ==
  \A p \in Pairs :
    /\ age[p] <= RejectTtl
    /\ Cardinality({q \in Pairs : age[q] <= age[p]}) <= RejectSlots
    => Refused(p)

(* A pair holds one entry only, so refreshing it costs no other pair's.     *)
OneEntryPerPair ==
  \A i, j \in RejectIndex :
    EntryMatches(list[i], list[j].id, list[j].ts) /\ list[j].at # Unset => i = j
==============================================================================
