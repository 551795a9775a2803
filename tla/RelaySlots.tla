------------------------------ MODULE RelaySlots ------------------------------
(***************************************************************************)
(* The slot table of WSW-Firmware/main/ble_relay.c and the part of         *)
(* relay_task that owns it.  One pass of the task's loop takes at most one *)
(* frame from the queue, attributes it to a slot and merges it, then calls *)
(* maybe_evict_slot on every slot.  No other task touches the table, so a  *)
(* pass is split only where a later module interleaves something with it:  *)
(* cursor is 0 while the task waits on the queue, and i while the          *)
(* eviction loop is about to look at slot i.                               *)
(*                                                                         *)
(* Drones transmit whatever the environment likes: Frames is the set of    *)
(* decoded frames that can arrive.  A location is reduced to what the code *)
(* branches on (airborne or not, the ODID timestamp) and the drone whose   *)
(* position it is; a location that fails LOC_VALID is no location.         *)
(***************************************************************************)
EXTENDS RelayPolicy

CONSTANTS
  Macs,       \* source addresses
  NumSlots,   \* MAX_CONCURRENT_DRONES
  MaxGap,     \* most ticks one pass of the loop takes
  Frames      \* frames the receivers may put on the queue

Slots == 1 .. NumSlots
Ids   == UasIds \cup {Blank}

(* An ODID timestamp beyond TsMax means unknown; one such value is enough. *)
UnknownTs == TsMax + 1

Location == [of : Ids, air : BOOLEAN, ts : 0 .. UnknownTs]
NoLocation == [of |-> Blank, air |-> FALSE, ts |-> Unset]
HasLocation(l) == l.ts # Unset

Frame == [hasId : BOOLEAN, id : Ids, mac : Macs,
          loc : Location \cup {NoLocation}]

ASSUME SlotsAssumption ==
  /\ NumSlots \in Nat \ {0}
  /\ MaxGap \in Nat \ {0} /\ MaxGap < TickMod
  /\ Blank \notin Macs
  /\ Frames \subseteq Frame
  /\ \A f \in Frames : ~f.hasId => f.id = Blank

VARIABLES
  slots,     \* s_slots
  rejects,   \* s_reject
  now,       \* the tick count this pass of the loop works with
  cursor     \* slot the eviction loop is at, 0 at the queue

slotVars == <<slots, rejects, now, cursor>>

(* A slot: id is its key (Blank = free), basic and loc are the fields of   *)
(* the accumulator acc, flown is airborne_ever.                            *)
Slot == [id : Ids, mac : Macs \cup {Blank}, hasBasic : BOOLEAN, basic : Ids,
         loc : Location \cup {NoLocation}, timing : Timing, flown : BOOLEAN]

Free == [id |-> Blank, mac |-> Blank, hasBasic |-> FALSE, basic |-> Blank,
         loc |-> NoLocation, timing |-> NoTiming, flown |-> FALSE]

Used == {i \in Slots : slots[i].id # Blank}

(* count_live_slots: what the broadcast loop would transmit. *)
Live == {i \in Used : slots[i].hasBasic}

------------------------------------------------------------------------------
(* Attribution: resolve_slot.                                              *)

Named(f) == f.hasId /\ f.id # Blank

Age(i, t) == Since(slots[i].timing.lastAny, t)

(* Mutant: compares tick counts, not ages. *)
StalestSlotByTick(t) ==
  CHOOSE i \in Slots : \A j \in Slots :
    slots[i].timing.lastAny <= slots[j].timing.lastAny

(* The scan keeps the last slot that is at least as old as any before it. *)
StalestSlot(t) ==
  CHOOSE i \in Slots : \A j \in Slots :
    Age(j, t) < Age(i, t) \/ (Age(j, t) = Age(i, t) /\ j <= i)

(* Mutant: takes a free slot before it has looked for the id in all. *)
OwnerFirstFit(f, t) ==
  LET fits == {i \in Slots : slots[i].id \in {f.id, Blank}}
      near == {i \in Used : slots[i].mac = f.mac}
  IN  IF Named(f)
      THEN IF fits # {} THEN First(fits) ELSE StalestSlot(t)
      ELSE IF near # {} THEN First(near) ELSE 0

(* The slot a frame belongs to, 0 when it belongs to none. *)
Owner(f, t) ==
  LET keyed == {i \in Used : slots[i].id = f.id}
      near  == {i \in Used : slots[i].mac = f.mac}
  IN  IF Named(f)
      THEN IF keyed # {} THEN First(keyed)
           ELSE IF Used # Slots THEN First(Slots \ Used)
           ELSE StalestSlot(t)
      ELSE IF near # {} THEN First(near) ELSE 0

(* Mutant: a displaced slot keeps the accumulator of its last drone. *)
ResolvedKeepsState(f, i) ==
  IF Named(f) THEN [slots[i] EXCEPT !.id = f.id, !.mac = f.mac] ELSE slots[i]

(* Mutant: a displaced slot keeps its key. *)
ResolvedKeepsKey(f, i) ==
  IF Named(f)
  THEN [(IF slots[i].id = Blank THEN [Free EXCEPT !.id = f.id] ELSE slots[i])
          EXCEPT !.mac = f.mac]
  ELSE slots[i]

(* That slot as resolve_slot leaves it: a named frame claims it if it was   *)
(* another's and refreshes the address.                                    *)
Resolved(f, i) ==
  IF Named(f)
  THEN [(IF slots[i].id = f.id THEN slots[i] ELSE Free)
          EXCEPT !.id = f.id, !.mac = f.mac]
  ELSE slots[i]

------------------------------------------------------------------------------
(* merge_into_slot and the airborne bookkeeping after it.                  *)

Airborne(s) == HasLocation(s.loc) /\ s.loc.air

MergeFields(s, f, t) ==
  [s EXCEPT !.hasBasic = @ \/ f.hasId,
            !.basic    = IF f.hasId THEN f.id ELSE @,
            !.loc      = IF HasLocation(f.loc) THEN f.loc ELSE @,
            !.timing   = IF HasLocation(f.loc)
                         THEN NoteLocationTs(NoteFrame(@, t), f.loc.ts, t)
                         ELSE NoteFrame(@, t)]

Merge(s, f, t) ==
  LET m == MergeFields(s, f, t)
  IN  [m EXCEPT !.timing = NoteAirborneState(@, Airborne(m), s.flown, t),
                !.flown  = @ \/ Airborne(m)]

(* Mutant: a named frame is not looked up in the reject list. *)
RefusedByNameNever(f, t) == FALSE

(* Dropped before a slot is claimed: the exact (id, ts) was frozen. *)
RefusedByName(f, t) ==
  Named(f) /\ HasLocation(f.loc) /\ RejectContains(rejects, f.id, f.loc.ts, t)

(* Mutant: a bare frame is not looked up in the reject list. *)
RefusedBySlotNever(f, i, t) == FALSE

(* Dropped after a bare frame fell back to the slot with its address. *)
RefusedBySlot(f, i, t) ==
  /\ ~f.hasId /\ HasLocation(f.loc)
  /\ RejectContains(rejects, slots[i].id, f.loc.ts, t)

Accepted(f, t) ==
  /\ ~RefusedByName(f, t)
  /\ Owner(f, t) # 0
  /\ ~RefusedBySlot(f, Owner(f, t), t)

(* The table after frame f at tick t. *)
Absorb(f, t) ==
  IF Accepted(f, t)
  THEN [slots EXCEPT ![Owner(f, t)] = Merge(Resolved(f, Owner(f, t)), f, t)]
  ELSE slots

------------------------------------------------------------------------------
(* relay_task, the passes of its loop.                                     *)

InitSlots ==
  /\ slots = [i \in Slots |-> Free]
  /\ rejects = NoRejects
  /\ now = 0
  /\ cursor = 0

(* The queue delivers f, k ticks after the previous pass. *)
Receive(f, k) ==
  /\ cursor = 0
  /\ now' = Later(now, k)
  /\ slots' = Absorb(f, Later(now, k))
  /\ cursor' = 1
  /\ UNCHANGED rejects

(* xQueueReceive times out. *)
Timeout(k) ==
  /\ cursor = 0
  /\ now' = Later(now, k)
  /\ cursor' = 1
  /\ UNCHANGED <<slots, rejects>>

(* maybe_evict_slot on the slot under the cursor. *)
Verdict(s) == IF s.id = Blank THEN "keep" ELSE CheckEvict(s.timing, now)

EvictSlot ==
  /\ cursor # 0
  /\ slots' = IF Verdict(slots[cursor]) = "keep" THEN slots
              ELSE [slots EXCEPT ![cursor] = Free]
  /\ rejects' = IF Verdict(slots[cursor]) = "frozen"
                THEN RejectAdd(rejects, slots[cursor].id,
                               slots[cursor].timing.ts, now)
                ELSE rejects
  /\ cursor' = IF cursor = NumSlots THEN 0 ELSE cursor + 1
  /\ UNCHANGED now

Gaps == 1 .. MaxGap

NextSlots ==
  \/ \E f \in Frames, k \in Gaps : Receive(f, k)
  \/ \E k \in Gaps : Timeout(k)
  \/ EvictSlot

SpecSlots == InitSlots /\ [][NextSlots]_slotVars

------------------------------------------------------------------------------
SlotsTypeOK ==
  /\ slots \in [Slots -> Slot]
  /\ rejects \in RejectList
  /\ now \in Tick
  /\ cursor \in 0 .. NumSlots

(* Two slots never answer to the same UAS id: resolve_slot claims a slot    *)
(* only after it has looked for the id in all of them, so one drone is      *)
(* never broadcast twice with two accumulators.                             *)
SlotKeysUnique ==
  \A i, j \in Used : slots[i].id = slots[j].id => i = j

(* While every drone transmits from addresses of its own, a slot carries    *)
(* only the position of the drone it is keyed by: bare locations are        *)
(* attributed by source address, and no claim, displacement or eviction     *)
(* leaves an address or a position of the previous holder behind.           *)
OwnPosition ==
  \A i \in Used : HasLocation(slots[i].loc) => slots[i].loc.of = slots[i].id

(* What a slot broadcasts as its Basic ID is the id it is keyed by.         *)
OwnBasicId ==
  \A i \in Live : slots[i].basic = slots[i].id

(* A (uas_id, ts) pair still on the reject list is not re-armed: no pass    *)
(* of the loop puts it into a slot that did not carry it already.           *)
Carries(tab, id, ts) == \E i \in Slots : tab[i].id = id /\ tab[i].timing.ts = ts

NoRearm ==
  [][\A id \in UasIds, ts \in OdidTs :
       Carries(slots', id, ts) /\ ~Carries(slots, id, ts)
         => ~RejectContains(rejects, id, ts, now')]_slotVars
==============================================================================
