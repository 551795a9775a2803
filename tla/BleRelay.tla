------------------------------- MODULE BleRelay ------------------------------
(***************************************************************************)
(* relay_task of WSW-Firmware/main/ble_relay.c as a whole: the slot table  *)
(* (RelaySlots) decides what a pass of the loop broadcasts, the Pack       *)
(* advertiser (PackRadio) carries it to the controller, and the NimBLE     *)
(* host task interferes with the second half at any moment.                *)
(*                                                                         *)
(* A pass is: take a frame or time out, run the eviction loop, then the    *)
(* watchdog, then the payloads in slot order.  The last step of the        *)
(* eviction loop is the step in which PackRadio begins its pass.           *)
(***************************************************************************)
EXTENDS RelaySlots

VARIABLES
  synced, inst, onAir, configured, health, plan, todo, relayPc, hostPc,
  failFor, stray,   \* as in PackRadio
  radioNow,         \* the tick count the radio half of the pass works with
  unheard           \* history: ticks since a frame of each drone was merged

radioVars == <<synced, inst, onAir, configured, health, plan, todo, relayPc,
               hostPc, failFor, stray, radioNow>>
bleVars == <<slotVars, radioVars, unheard>>

AnyPlan == {[live |-> FALSE, packs |-> {}]} \cup
           [live : {TRUE}, packs : SUBSET UasIds]

Radio == INSTANCE PackRadio WITH Plans <- AnyPlan, now <- radioNow

(* Mutant: nothing is written when the table is empty. *)
TablePlanNoPlaceholder(tab) ==
  LET live == {i \in Slots : tab[i].id # Blank /\ tab[i].hasBasic}
  IN  [live  |-> TRUE,
       packs |-> {tab[i].id : i \in {j \in live : HasLocation(tab[j].loc)}}]

(* What a table makes the broadcast loop transmit on handle 1. *)
TablePlan(tab) ==
  LET live == {i \in Slots : tab[i].id # Blank /\ tab[i].hasBasic}
  IN  [live  |-> live # {},
       packs |-> {tab[i].id : i \in {j \in live : HasLocation(tab[j].loc)}}]

(* The payload the loop writes next: slots are visited in index order. *)
NextPayload ==
  IF plan.live
  THEN slots[First({i \in Slots : slots[i].id \in todo})].id
  ELSE "idle"

(* Beyond this a drone that fell silent must be off the air. *)
GoneTicks == SilentTicks + MaxGap + Radio!Patience
UpToGone(n) == IF n <= GoneTicks THEN n ELSE GoneTicks + 1

InitBle ==
  /\ InitSlots
  /\ radioNow = now
  /\ Radio!Init
  /\ unheard = [d \in UasIds |-> 0]

(* Frames and time-outs: the slot half of a pass begins. *)
Unheard(k, heard) ==
  unheard' = [d \in UasIds |-> IF d \in heard THEN 0 ELSE UpToGone(unheard[d] + k)]

TakeFrame(f, k) ==
  /\ relayPc = "top"
  /\ Receive(f, k)
  /\ Unheard(k, IF Accepted(f, now') THEN {slots'[Owner(f, now')].id} ELSE {})
  /\ UNCHANGED radioVars

NoFrame(k) ==
  /\ relayPc = "top"
  /\ Timeout(k)
  /\ Unheard(k, {})
  /\ UNCHANGED radioVars

EvictLoop ==
  /\ relayPc = "top" /\ cursor # NumSlots
  /\ EvictSlot
  /\ UNCHANGED <<radioVars, unheard>>

(* The loop is done; the radio half of the pass begins. *)
EvictLast ==
  /\ cursor = NumSlots
  /\ EvictSlot
  /\ \E k \in Gaps : Later(radioNow, k) = now /\ Radio!BeginPass(TablePlan(slots'), k)
  /\ UNCHANGED unheard

(* The radio half leaves the table alone. *)
RadioHalf ==
  /\ \/ Radio!Watchdog
     \/ Radio!Remove \/ Radio!RemoveFails
     \/ Radio!Configure \/ Radio!ConfigureFails \/ Radio!Confirm
     \/ todo # {} /\ (Radio!Write(NextPayload) \/ Radio!WriteFails(NextPayload))
     \/ Radio!EndPass
  /\ UNCHANGED <<slotVars, unheard>>

HostTask ==
  /\ Radio!HostLost \/ Radio!Host
  /\ UNCHANGED <<slotVars, unheard>>

(* esp_restart forgets the table and the reject list as well. *)
Reboot ==
  /\ Radio!Restart
  /\ slots' = [i \in Slots |-> Free] /\ rejects' = NoRejects
  /\ now' = 0 /\ cursor' = 0
  /\ unheard' = [d \in UasIds |-> 0]

NextBle ==
  \/ \E f \in Frames, k \in Gaps : TakeFrame(f, k)
  \/ \E k \in Gaps : NoFrame(k)
  \/ EvictLoop \/ EvictLast
  \/ RadioHalf \/ HostTask \/ Reboot

SpecBle == InitBle /\ [][NextBle]_bleVars

------------------------------------------------------------------------------
(* What handle 1 radiates, through evictions, host resets, failed commands  *)
(* and restarts, is what RelayPromise allows: a Pack is only written for a  *)
(* drone heard within the silent window, and a drone that falls silent is   *)
(* off the air after that window plus the patience of the watchdog, so the  *)
(* incident of relay_policy.h (one cached Pack for 30 minutes) stays within *)
(* a bound.                                                                 *)
Promise == INSTANCE RelayPromise
             WITH Drones <- UasIds, Fresh <- SilentTicks, Bound <- GoneTicks,
                  air <- onAir, silence <- unheard

KeepsPromise == Promise!Spec

(* Handle 1 is overwritten after slot eviction: the controller does not     *)
(* keep re-emitting a drone that is no longer in the table (comment above   *)
(* advertise_pack_idle_placeholder).                                        *)
EvictedOverwritten == Radio!StrayBounded
==============================================================================
