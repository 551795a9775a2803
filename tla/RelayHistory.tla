----------------------------- MODULE RelayHistory ----------------------------
(***************************************************************************)
(* RelaySlots with history variables.  The code only has wrapping ticks    *)
(* and the flags of the slot timing; these variables record what really    *)
(* happened, in elapsed ticks that do not wrap, so that the properties     *)
(* can say what the table should do in terms of what was really heard.     *)
(* They are never read by an action of RelaySlots.                         *)
(***************************************************************************)
EXTENDS RelaySlots, FiniteSets

Pairs == UasIds \X OdidTs

VARIABLES
  quiet,   \* ticks since a frame was last merged into each used slot, up to a cap
  banned,  \* ticks since each (id, ts) was evicted as frozen, up to a cap
  turned   \* the tick counter has wrapped since the start

historyVars == <<quiet, banned, turned>>
vars == <<slotVars, historyVars>>

QuietCap == SilentTicks + MaxGap + 1
BanCap == RejectTtl + 1

UpTo(n, cap) == IF n <= cap THEN n ELSE cap

Init ==
  /\ InitSlots
  /\ quiet = [i \in Slots |-> 0]
  /\ banned = [p \in Pairs |-> BanCap]
  /\ turned = FALSE

(* k ticks pass, in which the slots in heard merge a frame.                *)
Elapse(k, heard) ==
  /\ quiet' = [i \in Slots |-> IF i \in heard \/ i \notin Used THEN 0
                               ELSE UpTo(quiet[i] + k, QuietCap)]
  /\ banned' = [p \in Pairs |-> UpTo(banned[p] + k, BanCap)]
  /\ turned' = IF now + k < TickMod THEN turned ELSE TRUE

ReceiveH(f, k) ==
  /\ Receive(f, k)
  /\ Elapse(k, IF Accepted(f, now') THEN {Owner(f, now')} ELSE {})

TimeoutH(k) == Timeout(k) /\ Elapse(k, {})

EvictSlotH ==
  LET s == slots[cursor]
  IN  /\ EvictSlot
      /\ quiet' = [quiet EXCEPT ![cursor] = IF Verdict(s) = "keep" THEN @ ELSE 0]
      /\ banned' = IF Verdict(s) = "frozen"
                   THEN [banned EXCEPT ![<<s.id, s.timing.ts>>] = 0] ELSE banned
      /\ UNCHANGED turned

Next ==
  \/ \E f \in Frames, k \in Gaps : ReceiveH(f, k)
  \/ \E k \in Gaps : TimeoutH(k)
  \/ EvictSlotH

Spec == Init /\ [][Next]_vars

------------------------------------------------------------------------------
(* Whenever the task is back at the queue, no slot has really been without  *)
(* a frame for more than SilentTicks, however often the counter wrapped.    *)
QuietBounded ==
  cursor = 0 => \A i \in Used : quiet[i] <= SilentTicks

(* A new drone takes the slot of another only when the table is full, and   *)
(* then the slot really unheard for longest.                                *)
StalestDisplaced ==
  [][\A i \in Slots :
       slots[i].id # Blank /\ slots'[i].id \notin {Blank, slots[i].id}
         => Used = Slots /\ \A j \in Slots : quiet[j] <= quiet[i]]_vars

(* "after a frozen eviction, drop that exact (uas_id, ts) for this long so  *)
(* it can't re-arm" (ble_relay.c): a pair evicted as frozen stays out of    *)
(* the table for RejectTtl, as long as no more pairs are frozen than the    *)
(* list has entries.                                                        *)
FrozenNeverRearms ==
  Cardinality({p \in Pairs : banned[p] <= RejectTtl}) <= RejectSlots
    => \A p \in Pairs : banned[p] <= RejectTtl => ~Carries(slots, p[1], p[2])

(* The same within one turn of the counter, before an entry that expired    *)
(* long ago can be taken for a live one.                                    *)
FrozenStaysOut == ~turned => FrozenNeverRearms
==============================================================================
