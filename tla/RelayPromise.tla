----------------------------- MODULE RelayPromise ----------------------------
(***************************************************************************)
(* What the relay promises the phones that listen to handle 1, without     *)
(* slots, ticks, flags or tasks: it starts to show a drone only while that *)
(* drone is being heard, and it does not go on showing one that has fallen *)
(* silent for long.                                                        *)
(***************************************************************************)
EXTENDS Integers

CONSTANTS
  Drones,   \* UAS ids
  Fresh,    \* a Pack is put on the air at most this long after a frame
  Bound,    \* and is off the air this long after it
  Gaps      \* how long the receiver may take between two frames

VARIABLES
  air,      \* what the controller radiates: a drone, "idle" or "off"
  silence   \* ticks since each drone was heard

promiseVars == <<air, silence>>

UpTo(n) == IF n <= Bound THEN n ELSE Bound + 1

AllHeard == [d \in Drones |-> 0]

Init == air = "off" /\ silence = AllHeard

(* Time passes and some drones are heard; the one shown may not get stale.  *)
Listen(heard, k) ==
  /\ silence' = [d \in Drones |-> IF d \in heard THEN 0 ELSE UpTo(silence[d] + k)]
  /\ air \in Drones => silence'[air] <= Bound
  /\ UNCHANGED air

Show(d) == silence[d] <= Fresh /\ air' = d /\ UNCHANGED silence

Hide == air' \in {"idle", "off"} /\ UNCHANGED silence

Restart == air' = "off" /\ silence' = AllHeard

Next ==
  \/ \E heard \in SUBSET Drones, k \in Gaps : Listen(heard, k)
  \/ \E d \in Drones : Show(d)
  \/ Hide
  \/ Restart

Spec == Init /\ [][Next]_promiseVars
==============================================================================
