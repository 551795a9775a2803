------------------------------- MODULE XiaoSlots -----------------------------
(***************************************************************************)
(* The slot table of XIAO-C5-Firmware/main/ble_relay.c, the older relay:   *)
(* no reject list, no frozen rule, and a tick of 0 stands for "never"      *)
(* where the WSW tree has flags.  The fields of the accumulator that the   *)
(* operator-location rules of merge_into_slot (sys_saved) work on are here *)
(* too; they are the same in both trees.                                   *)
(*                                                                         *)
(* Ticks wrap at TickMod as in the chip.  The table does what the WSW      *)
(* table does, without its reject list, see ImplementsRelaySlots, but for  *)
(* the search for the stalest slot: after a wrap it may take the wrong     *)
(* one, or find none and bring the node down.                              *)
(***************************************************************************)
EXTENDS Integers

CONSTANTS
  TickMod,       \* number of tick values
  UasIds, Blank, \* UAS ids, and the empty one
  Macs,          \* source addresses
  NumSlots,      \* MAX_CONCURRENT_DRONES
  LandTicks,     \* g_config.land_timeout_s
  SilentTicks,   \* g_config.silent_timeout_s
  MaxGap,        \* most ticks one pass of the loop takes
  Frames         \* frames the receivers may put on the queue

Slots == 1 .. NumSlots
Ids   == UasIds \cup {Blank}
Never == 0

(* An operator position: whose, and where it comes from. *)
NoSystem == [of |-> Blank, src |-> "none"]
System   == [of : Ids, src : {"operator", "drone", "invalid"}] \cup {NoSystem}

NoLocation == [of |-> Blank, air |-> FALSE]

Frame == [hasId : BOOLEAN, id : Ids, mac : Macs, hasLoc : BOOLEAN,
          loc : [of : Ids, air : BOOLEAN], sys : System]

ASSUME XiaoAssumption ==
  /\ NumSlots \in Nat \ {0} /\ MaxGap \in Nat \ {0} /\ MaxGap < TickMod
  /\ LandTicks \in Nat /\ SilentTicks \in Nat
  /\ TickMod \in Nat
  /\ Blank \notin UasIds /\ Blank \notin Macs
  /\ Frames \subseteq Frame
  /\ \A f \in Frames : ~f.hasId => f.id = Blank

VARIABLES
  slots,    \* s_slots
  now,      \* the tick count this pass works with
  cursor    \* slot the eviction loop is at, 0 at the queue

xiaoVars == <<slots, now, cursor>>

(* last, air and gnd are last_any_frame, last_valid_airborne and            *)
(* first_grounded_after_flight; loc and sys are fields of acc.              *)
Free == [id |-> Blank, mac |-> Blank, hasBasic |-> FALSE, basic |-> Blank,
         hasLoc |-> FALSE, loc |-> NoLocation, sys |-> NoSystem,
         saved |-> NoSystem, last |-> Never, air |-> Never, gnd |-> Never,
         flown |-> FALSE]

Used == {i \in Slots : slots[i].id # Blank}
Live == {i \in Used : slots[i].hasBasic}

First(S) == CHOOSE i \in S : \A j \in S : i <= j

------------------------------------------------------------------------------
(* resolve_slot.                                                           *)

Named(f) == f.hasId /\ f.id # Blank

(* The scan starts from now and keeps the last slot whose tick is not above *)
(* the least it has seen: it compares ticks, not ages, and overlooks every  *)
(* slot whose tick is above now.                                            *)
Past(t) == {i \in Slots : slots[i].last <= t}

Stalest(t) ==
  CHOOSE i \in Past(t) : \A j \in Past(t) :
    \/ slots[i].last < slots[j].last
    \/ slots[i].last = slots[j].last /\ j <= i

(* A claim in a full table for which the scan finds nothing.                *)
NoClaim(f, t) ==
  /\ Named(f) /\ Used = Slots /\ \A i \in Slots : slots[i].id # f.id
  /\ Past(t) = {}

Owner(f, t) ==
  LET keyed == {i \in Used : slots[i].id = f.id}
      near  == {i \in Used : slots[i].mac = f.mac}
  IN  IF Named(f)
      THEN IF keyed # {} THEN First(keyed)
           ELSE IF Used # Slots THEN First(Slots \ Used) ELSE Stalest(t)
      ELSE IF near # {} THEN First(near) ELSE 0

(* Mutant: a claim clears everything but the saved operator position. *)
ResolvedKeepsSaved(f, i) ==
  IF Named(f)
  THEN [(IF slots[i].id = f.id THEN slots[i]
         ELSE [Free EXCEPT !.saved = slots[i].saved]) EXCEPT !.id = f.id, !.mac = f.mac]
  ELSE slots[i]

Resolved(f, i) ==
  IF Named(f)
  THEN [(IF slots[i].id = f.id THEN slots[i] ELSE Free)
          EXCEPT !.id = f.id, !.mac = f.mac]
  ELSE slots[i]

------------------------------------------------------------------------------
(* merge_into_slot.                                                        *)

MergeFields(s, f, t) ==
  [s EXCEPT !.hasBasic = @ \/ f.hasId,
            !.basic    = IF f.hasId THEN f.id ELSE @,
            !.hasLoc   = @ \/ f.hasLoc,
            !.loc      = IF f.hasLoc THEN f.loc ELSE @,
            !.sys      = IF f.sys # NoSystem THEN f.sys ELSE @,
            !.last     = t]

(* The first valid operator position is saved, and stands in for one that   *)
(* is not valid; as long as there is none an invalid one is not kept.       *)
CheckSystem(s) ==
  IF s.sys = NoSystem THEN s
  ELSE IF ~s.hasBasic THEN [s EXCEPT !.sys = NoSystem]
  ELSE IF s.sys.src # "invalid"
  THEN [s EXCEPT !.saved = IF @ = NoSystem THEN s.sys ELSE @]
  ELSE [s EXCEPT !.sys = s.saved]

Airborne(s) == s.hasLoc /\ s.loc.air

(* Without one, the drone's own position does, once it is in the air.       *)
FallBack(s) ==
  IF s.saved = NoSystem /\ s.hasBasic /\ Airborne(s)
  THEN [s EXCEPT !.saved = [of |-> s.loc.of, src |-> "drone"]] ELSE s

FillSystem(s) ==
  IF s.saved # NoSystem /\ s.sys = NoSystem THEN [s EXCEPT !.sys = s.saved] ELSE s

(* Mutant: the clock of the landing is not stopped by a take-off. *)
NoteFlightNoClear(s, t) ==
  IF Airborne(s) THEN [s EXCEPT !.air = t, !.flown = TRUE]
  ELSE IF s.flown /\ s.gnd = Never THEN [s EXCEPT !.gnd = t] ELSE s

(* The airborne bookkeeping of relay_task. *)
NoteFlight(s, t) ==
  IF Airborne(s) THEN [s EXCEPT !.air = t, !.gnd = Never, !.flown = TRUE]
  ELSE IF s.flown /\ s.gnd = Never THEN [s EXCEPT !.gnd = t] ELSE s

Merge(s, f, t) ==
  NoteFlight(FillSystem(FallBack(CheckSystem(MergeFields(s, f, t)))), t)

------------------------------------------------------------------------------
(* relay_task, up to the broadcast.                                        *)

(* Unsigned subtraction; the tick k ticks later. *)
Since(then, t) == IF then <= t THEN t - then ELSE t - then + TickMod
Later(t, k) == IF t + k < TickMod THEN t + k ELSE t + k - TickMod

Overdue(stamp, limit) == stamp # Never /\ Since(stamp, now) > limit

(* maybe_evict_slot: landed, silent, or no frames. *)
Evictable(s) ==
  \/ Overdue(s.gnd, LandTicks)
  \/ Overdue(s.air, SilentTicks)
  \/ Overdue(s.last, SilentTicks)

Init ==
  /\ slots = [i \in Slots |-> Free]
  /\ now = 0
  /\ cursor = 0

Advance(k) ==
  /\ cursor = 0
  /\ now' = Later(now, k)
  /\ cursor' = 1

Absorb(f, t) ==
  LET i == Owner(f, t)
  IN  IF i = 0 THEN slots
      ELSE [slots EXCEPT ![i] = Merge(Resolved(f, i), f, t)]

Receive(f, k) ==
  /\ ~NoClaim(f, Later(now, k))
  /\ Advance(k)
  /\ slots' = Absorb(f, Later(now, k))

(* The claim is written through a null pointer: the node panics and starts   *)
(* again, with an empty table and from tick 0.                              *)
Panic(f, k) ==
  /\ cursor = 0 /\ NoClaim(f, Later(now, k))
  /\ slots' = [i \in Slots |-> Free]
  /\ now' = 0
  /\ UNCHANGED cursor

Timeout(k) == Advance(k) /\ UNCHANGED slots

EvictSlot ==
  /\ cursor # 0
  /\ slots' = IF cursor \in Used /\ Evictable(slots[cursor])
              THEN [slots EXCEPT ![cursor] = Free] ELSE slots
  /\ cursor' = IF cursor = NumSlots THEN 0 ELSE cursor + 1
  /\ UNCHANGED now

Gaps == 1 .. MaxGap

Next ==
  \/ \E f \in Frames, k \in Gaps : Receive(f, k) \/ Panic(f, k)
  \/ \E k \in Gaps : Timeout(k)
  \/ EvictSlot

Spec == Init /\ [][Next]_xiaoVars

------------------------------------------------------------------------------
(* The table as the WSW tree would hold it. *)
Stamp(t) == IF t = Never THEN -1 ELSE t

Translated(s) ==
  [id |-> s.id, mac |-> s.mac, hasBasic |-> s.hasBasic, basic |-> s.basic,
   loc |-> IF s.hasLoc THEN [of |-> s.loc.of, air |-> s.loc.air, ts |-> 1]
           ELSE [of |-> Blank, air |-> FALSE, ts |-> -1],
   timing |-> [lastAny |-> Stamp(s.last), lastAir |-> Stamp(s.air),
               firstGnd |-> Stamp(s.gnd), ts |-> -1, tsChanged |-> -1, tsSeen |-> -1],
   flown |-> s.flown]

TranslatedFrame(f) ==
  [hasId |-> f.hasId, id |-> f.id, mac |-> f.mac,
   loc |-> IF f.hasLoc THEN [of |-> f.loc.of, air |-> f.loc.air, ts |-> 1]
           ELSE [of |-> Blank, air |-> FALSE, ts |-> -1]]

NoEntries == [i \in {1} |-> [id |-> Blank, ts |-> -1, at |-> -1]]

Wsw == INSTANCE RelaySlots
         WITH slots <- [i \in Slots |-> Translated(slots[i])],
              rejects <- NoEntries,
              Frames <- {TranslatedFrame(f) : f \in Frames},
              FrozenTicks <- 0, TsMax <- 0, RejectSlots <- 1, RejectTtl <- 0,
              StaleWriteTicks <- 0, RestartTicks <- 0, RetryTicks <- 0

Displaced(i) == slots[i].id # Blank /\ slots'[i].id \notin {Blank, slots[i].id}

(* Where the older code is misled: a pass works with tick 0, which means    *)
(* "never" here, or the least tick is taken for the greatest age while a    *)
(* slot has a tick of the turn before.  A panic is a case of the first.     *)
Misled ==
  /\ cursor = 0
  /\ \/ now' = Never
     \/ /\ \E i \in Slots : Displaced(i)
        /\ \E i \in Slots : slots[i].last \notin 1 .. now'

(* "claiming a free or stalest slot" (resolve_slot): over any number of     *)
(* turns of the tick counter the table attributes, merges, displaces and    *)
(* evicts exactly as the WSW table does for drones without a usable ODID    *)
(* timestamp, in every step where it is not misled.  In particular a        *)
(* displacement takes the drone unheard for longest when no tick lies       *)
(* before the wrap, and the steps after a misled one treat what it left as  *)
(* the WSW table would.                                                     *)
ImplementsRelaySlots ==
  Wsw!InitSlots /\ [][Wsw!NextSlots \/ Misled]_xiaoVars

(* "One drone's RC state can't leak into another's operator-location         *)
(* fallback" (comment above drone_slot_t): what a slot broadcasts, or keeps  *)
(* to fall back on, is a position of the drone it is keyed by or of its     *)
(* operator, and is one that passed the check of the coordinates.           *)
OwnOperator ==
  \A i \in Used : \A p \in {slots[i].sys, slots[i].saved} \ {NoSystem} :
    p.of = slots[i].id /\ p.src # "invalid"
==============================================================================
