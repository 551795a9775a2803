-------------------------- MODULE RelaySlots_proofs --------------------------
(***************************************************************************)
(* Theorems about relay_task for any number of slots, drones and           *)
(* addresses, any tick width and any set of frames: the slot table on its  *)
(* own, with its history, and together with the Pack advertiser.           *)
(***************************************************************************)
EXTENDS RelayHistory, BleRelay, RelayPolicy_proofs

LEMMA SlotsInNat == Slots \subseteq Nat /\ Slots # {} /\ 0 \notin Slots
BY SlotsAssumption DEF Slots

LEMMA FreeType == Free \in Slot
<1>1. NoTiming \in Timing
  BY DEF NoTiming, Timing, Stamp
<1> QED BY <1>1 DEF Free, Slot, Ids

LEMMA LaterTick ==
  ASSUME now \in Tick, NEW k \in Gaps
  PROVE  Later(now, k) \in Tick
BY LaterType, SlotsAssumption, TickAssumption DEF Gaps

LEMMA FrameFields ==
  ASSUME NEW f \in Frames
  PROVE  /\ f.hasId \in BOOLEAN /\ f.id \in Ids /\ f.mac \in Macs
         /\ f.loc \in Location \cup {NoLocation}
         /\ ~f.hasId => f.id = Blank
BY SlotsAssumption DEF Frame

(* The scan of resolve_slot for the stalest slot always finds one: the last *)
(* of those that are oldest.                                                *)
LEMMA OldestExists ==
  ASSUME SlotsTypeOK, NEW t \in Tick
  PROVE  \E i \in Slots : \A j \in Slots :
           Age(j, t) < Age(i, t) \/ (Age(j, t) = Age(i, t) /\ j <= i)
<1> DEFINE rest == {TickMod - Age(i, t) : i \in Slots}
<1>1. \A i \in Slots : Age(i, t) \in 0 .. TickMod
  BY SinceType DEF Age, SlotsTypeOK, Slot, Timing
<1>2. rest \in SUBSET Nat /\ rest # {}
  <2>1. \A i \in Slots : TickMod - Age(i, t) \in Nat
    BY <1>1, TickAssumption
  <2> QED BY <2>1, SlotsInNat
<1>3. PICK m \in rest : \A r \in rest : m <= r
  BY <1>2, LeastNatural
<1>4. PICK o \in Slots : m = TickMod - Age(o, t)
  BY <1>3
<1>5. \A j \in Slots : Age(j, t) <= Age(o, t)
  <2>1. \A j \in Slots : TickMod - Age(o, t) <= TickMod - Age(j, t)
    BY <1>3, <1>4
  <2> QED BY <2>1, <1>1, TickAssumption
<1> DEFINE ties == {i \in Slots : Age(i, t) = Age(o, t)}
           back == {NumSlots - i : i \in ties}
<1>6. back \in SUBSET Nat /\ back # {}
  BY SlotsAssumption DEF Slots
<1>7. PICK b \in back : \A r \in back : b <= r
  BY <1>6, LeastNatural
<1>8. PICK i \in ties : b = NumSlots - i
  BY <1>7
<1>9. \A j \in ties : j <= i
  <2>1. \A j \in ties : NumSlots - i <= NumSlots - j
    BY <1>7, <1>8
  <2> QED BY <2>1, SlotsAssumption DEF Slots
<1>10. \A j \in Slots : Age(j, t) < Age(i, t) \/ (Age(j, t) = Age(i, t) /\ j <= i)
  BY <1>1, <1>5, <1>9
<1> QED BY <1>10

LEMMA StalestSlotType ==
  ASSUME SlotsTypeOK, NEW t \in Tick
  PROVE  StalestSlot(t) \in Slots
BY OldestExists DEF StalestSlot

LEMMA OwnerType ==
  ASSUME SlotsTypeOK, NEW f, NEW t \in Tick
  PROVE  Owner(f, t) \in Slots \cup {0}
<1> DEFINE keyed == {i \in Used : slots[i].id = f.id}
           near  == {i \in Used : slots[i].mac = f.mac}
<1>1. Used \subseteq Slots
  BY DEF Used
<1>2. \A S \in SUBSET Slots : S # {} => First(S) \in Slots
  BY SlotsInNat, FirstIsLeast
<1>3. keyed # {} => First(keyed) \in Slots
  BY <1>1, <1>2
<1>4. near # {} => First(near) \in Slots
  BY <1>1, <1>2
<1>5. Used # Slots => First(Slots \ Used) \in Slots
  BY <1>1, <1>2
<1>6. StalestSlot(t) \in Slots
  BY StalestSlotType
<1> QED BY <1>3, <1>4, <1>5, <1>6 DEF Owner

LEMMA ResolvedType ==
  ASSUME SlotsTypeOK, NEW f \in Frames, NEW i \in Slots
  PROVE  Resolved(f, i) \in Slot
<1>1. slots[i] \in Slot
  BY DEF SlotsTypeOK
<1>2. f.id \in Ids /\ f.mac \in Macs \cup {Blank}
  BY FrameFields
<1> QED BY <1>1, <1>2, FreeType DEF Resolved, Slot

LEMMA MergeType ==
  ASSUME NEW s \in Slot, NEW f \in Frames, NEW t \in Tick
  PROVE  Merge(s, f, t) \in Slot
<1>1. s.timing \in Timing /\ s.hasBasic \in BOOLEAN /\ s.flown \in BOOLEAN
  BY DEF Slot
<1>2. NoteFrame(s.timing, t) \in Timing
  BY <1>1, TimingType
<1>3. NoteLocationTs(NoteFrame(s.timing, t), f.loc.ts, t) \in Timing
  BY <1>2, TimingType
<1>4. MergeFields(s, f, t) \in Slot
  BY <1>1, <1>2, <1>3, FrameFields DEF MergeFields, Slot
<1>5. NoteAirborneState(MergeFields(s, f, t).timing,
                        Airborne(MergeFields(s, f, t)), s.flown, t) \in Timing
  BY <1>4, TimingType DEF Slot
<1>6. MergeFields(s, f, t).flown \in BOOLEAN
  BY <1>4 DEF Slot
<1>7. (MergeFields(s, f, t).flown \/ Airborne(MergeFields(s, f, t))) \in BOOLEAN
  OBVIOUS
<1> QED BY <1>4, <1>5, <1>7 DEF Merge, Slot

LEMMA AbsorbType ==
  ASSUME SlotsTypeOK, NEW f \in Frames, NEW t \in Tick
  PROVE  Absorb(f, t) \in [Slots -> Slot]
<1>1. CASE ~Accepted(f, t)
  BY <1>1 DEF Absorb, SlotsTypeOK
<1>2. CASE Accepted(f, t)
  <2>1. Owner(f, t) \in Slots
    BY <1>2, OwnerType DEF Accepted
  <2>2. Merge(Resolved(f, Owner(f, t)), f, t) \in Slot
    BY <2>1, ResolvedType, MergeType
  <2> QED BY <1>2, <2>2 DEF Absorb, SlotsTypeOK
<1> QED BY <1>1, <1>2

LEMMA SlotsTypeStep == SlotsTypeOK /\ [NextSlots]_slotVars => SlotsTypeOK'
<1> SUFFICES ASSUME SlotsTypeOK, [NextSlots]_slotVars
             PROVE  SlotsTypeOK'
  OBVIOUS
<1>1. ASSUME NEW f \in Frames, NEW k \in Gaps, Receive(f, k)
      PROVE  SlotsTypeOK'
  <2>1. Later(now, k) \in Tick
    BY LaterTick DEF SlotsTypeOK
  <2>2. Absorb(f, Later(now, k)) \in [Slots -> Slot]
    BY <2>1, AbsorbType
  <2> QED BY <1>1, <2>1, <2>2, SlotsAssumption DEF Receive, SlotsTypeOK
<1>2. ASSUME NEW k \in Gaps, Timeout(k)
      PROVE  SlotsTypeOK'
  BY <1>2, LaterTick, SlotsAssumption DEF Timeout, SlotsTypeOK
<1>3. CASE EvictSlot
  <2>1. cursor \in Slots
    BY <1>3 DEF EvictSlot, SlotsTypeOK, Slots
  <2>2. slots' \in [Slots -> Slot]
    BY <1>3, <2>1, FreeType DEF EvictSlot, SlotsTypeOK
  <2>3. slots[cursor].id \in UasIds \cup {Blank}
    BY <2>1 DEF SlotsTypeOK, Slot, Ids
  <2>4. RejectAdd(rejects, slots[cursor].id, slots[cursor].timing.ts, now) \in RejectList
    BY <2>3, RejectAddType DEF SlotsTypeOK
  <2>5. rejects' \in RejectList
    BY <1>3, <2>4 DEF EvictSlot, SlotsTypeOK
  <2>6. cursor' \in 0 .. NumSlots
    BY <1>3, SlotsAssumption DEF EvictSlot, SlotsTypeOK
  <2> QED BY <1>3, <2>2, <2>5, <2>6 DEF EvictSlot, SlotsTypeOK
<1>4. CASE UNCHANGED slotVars
  BY <1>4 DEF slotVars, SlotsTypeOK
<1> QED BY <1>1, <1>2, <1>3, <1>4 DEF NextSlots

LEMMA SlotsTypeInit == InitSlots => SlotsTypeOK
<1>1. NoRejects \in RejectList
  BY DEF NoRejects, NoEntry, RejectList, RejectEntry, Stamp
<1>2. 0 \in Tick
  BY TickAssumption DEF Tick
<1> QED BY <1>1, <1>2, FreeType, SlotsAssumption DEF InitSlots, SlotsTypeOK

(* The table, the reject list, the clock and the cursor keep their types    *)
(* through every pass of relay_task.                                        *)
THEOREM SlotsTyped == SpecSlots => []SlotsTypeOK
BY SlotsTypeInit, SlotsTypeStep, PTL DEF SpecSlots

------------------------------------------------------------------------------
(* Unique keys: a claim is only made when no used slot has the id.          *)

(* What merging does to a slot's key: nothing. *)
LEMMA MergeKeepsKey ==
  ASSUME NEW s \in Slot, NEW f \in Frames, NEW t \in Tick
  PROVE  Merge(s, f, t).id = s.id
BY DEF Merge, MergeFields, Slot

LEMMA KeysUniqueReceive ==
  ASSUME SlotsTypeOK, SlotKeysUnique, NEW f \in Frames, NEW k \in Gaps,
         Receive(f, k)
  PROVE  SlotKeysUnique'
<1> DEFINE t == Later(now, k)
           o == Owner(f, t)
<1>1. t \in Tick
  BY LaterTick DEF SlotsTypeOK
<1>2. CASE ~Accepted(f, t)
  BY <1>2 DEF Receive, Absorb, SlotKeysUnique, Used
<1>3. CASE Accepted(f, t)
  <2>1. o \in Slots
    BY <1>1, <1>3, OwnerType DEF Accepted
  <2>2. slots' = [slots EXCEPT ![o] = Merge(Resolved(f, o), f, t)]
    BY <1>3 DEF Receive, Absorb
  <2>3. slots'[o].id = Resolved(f, o).id
    BY <1>1, <2>1, <2>2, ResolvedType, MergeKeepsKey DEF SlotsTypeOK
  <2>4. \A i \in Slots \ {o} : slots'[i] = slots[i]
    BY <2>2 DEF SlotsTypeOK
  <2>5. CASE ~Named(f)
    <3>1. slots'[o].id = slots[o].id
      BY <2>3, <2>5 DEF Resolved
    <3> QED BY <2>1, <2>4, <3>1 DEF SlotKeysUnique, Used
  <2>6. CASE Named(f)
    <3>1. slots'[o].id = f.id
      BY <2>1, <2>3, <2>6, FreeType DEF Resolved, SlotsTypeOK, Slot
    <3>2. \A i \in Used : slots[i].id = f.id => i = o
      <4>1. SUFFICES ASSUME NEW i \in Used, slots[i].id = f.id
                     PROVE  i = o
        OBVIOUS
      <4> DEFINE keyed == {j \in Used : slots[j].id = f.id}
      <4>2. keyed # {} /\ keyed \subseteq Slots /\ keyed \in SUBSET Nat
        BY <4>1, SlotsInNat DEF Used
      <4>3. o = First(keyed)
        BY <2>6, <4>2 DEF Owner
      <4>4. o \in keyed
        BY <4>2, <4>3, FirstIsLeast
      <4> QED BY <4>1, <4>4 DEF SlotKeysUnique
    <3> QED BY <2>1, <2>4, <3>1, <3>2 DEF SlotKeysUnique, Used
  <2> QED BY <2>5, <2>6
<1> QED BY <1>2, <1>3

LEMMA KeysUniqueStep ==
  SlotsTypeOK /\ SlotKeysUnique /\ [NextSlots]_slotVars => SlotKeysUnique'
<1> SUFFICES ASSUME SlotsTypeOK, SlotKeysUnique, [NextSlots]_slotVars
             PROVE  SlotKeysUnique'
  OBVIOUS
<1>1. ASSUME NEW f \in Frames, NEW k \in Gaps, Receive(f, k)
      PROVE  SlotKeysUnique'
  BY <1>1, KeysUniqueReceive
<1>2. ASSUME NEW k \in Gaps, Timeout(k)
      PROVE  SlotKeysUnique'
  BY <1>2 DEF Timeout, SlotKeysUnique, Used
<1>3. CASE EvictSlot
  <2>1. \A i \in Slots : slots'[i] = slots[i] \/ slots'[i].id = Blank
    BY <1>3 DEF EvictSlot, SlotsTypeOK, Free
  <2> QED BY <2>1 DEF SlotKeysUnique, Used
<1>4. CASE UNCHANGED slotVars
  BY <1>4 DEF slotVars, SlotKeysUnique, Used
<1> QED BY <1>1, <1>2, <1>3, <1>4 DEF NextSlots

(* One drone never holds two slots, for any number of slots and drones and  *)
(* any frames, empty ids and colliding addresses included.                  *)
THEOREM KeysUnique == SpecSlots => []SlotKeysUnique
<1>1. InitSlots => SlotKeysUnique
  BY DEF InitSlots, SlotKeysUnique, Used, Free
<1> QED BY <1>1, KeysUniqueStep, SlotsTyped, PTL DEF SpecSlots

------------------------------------------------------------------------------
(* The reject list is honoured, when no frame has an empty Basic ID.        *)

(* The timestamp a slot tracks after a merge is the frame's, or its own.    *)
LEMMA MergeTs ==
  ASSUME NEW s \in Slot, NEW f \in Frames, NEW t \in Tick
  PROVE  /\ ~HasLocation(f.loc) => Merge(s, f, t).timing.ts = s.timing.ts
         /\ HasLocation(f.loc) /\ Merge(s, f, t).timing.ts \in OdidTs
              => Merge(s, f, t).timing.ts = f.loc.ts
<1> DEFINE m == MergeFields(s, f, t)
<1>1. s.timing \in Timing
  BY DEF Slot
<1>2. NoteFrame(s.timing, t) \in Timing /\ NoteFrame(s.timing, t).ts = s.timing.ts
  BY <1>1, TimingType DEF NoteFrame, Timing
<1>3. m.timing = IF HasLocation(f.loc)
                 THEN NoteLocationTs(NoteFrame(s.timing, t), f.loc.ts, t)
                 ELSE NoteFrame(s.timing, t)
  BY DEF MergeFields, Slot
<1>4. m.timing \in Timing
  BY <1>2, <1>3, TimingType
<1>5. Merge(s, f, t).timing = NoteAirborneState(m.timing, Airborne(m), s.flown, t)
  BY DEF Merge, MergeFields, Slot
<1>6. Merge(s, f, t).timing.ts = m.timing.ts
  BY <1>4, <1>5 DEF NoteAirborneState, Timing
<1>7. HasLocation(f.loc) /\ m.timing.ts \in OdidTs => m.timing.ts = f.loc.ts
  BY <1>2, <1>3 DEF NoteLocationTs, Timing, OdidTs, Unset
<1> QED BY <1>2, <1>3, <1>6, <1>7

LEMMA NoRearmReceive ==
  ASSUME SlotsTypeOK, NEW f \in Frames, NEW k \in Gaps, Receive(f, k),
         f.hasId => f.id # Blank,
         NEW id \in UasIds, NEW ts \in OdidTs,
         Carries(slots', id, ts), ~Carries(slots, id, ts)
  PROVE  ~RejectContains(rejects, id, ts, now')
<1> DEFINE t == Later(now, k)
           o == Owner(f, t)
           r == Resolved(f, o)
<1>1. t \in Tick /\ now' = t
  BY LaterTick DEF SlotsTypeOK, Receive
<1>2. Accepted(f, t)
  BY DEF Receive, Absorb
<1>3. o \in Slots
  BY <1>1, <1>2, OwnerType DEF Accepted
<1>4. slots' = [slots EXCEPT ![o] = Merge(r, f, t)]
  BY <1>2 DEF Receive, Absorb
<1>5. r \in Slot
  BY <1>3, ResolvedType
<1>6. slots'[o].id = id /\ slots'[o].timing.ts = ts /\ slots'[o] = Merge(r, f, t)
  BY <1>3, <1>4 DEF Carries, SlotsTypeOK
<1>7. r.id = id
  BY <1>1, <1>5, <1>6, MergeKeepsKey
<1>8. r.timing.ts # ts
  <2>1. CASE r.timing = slots[o].timing /\ r.id = slots[o].id
    BY <1>3, <1>7, <2>1 DEF Carries
  <2>2. CASE r.timing = NoTiming
    BY <2>2 DEF NoTiming, OdidTs, Unset
  <2>3. slots[o] \in Slot
    BY <1>3 DEF SlotsTypeOK
  <2> QED BY <2>1, <2>2, <2>3, FreeType DEF Resolved, Free, Slot
<1>9. HasLocation(f.loc) /\ f.loc.ts = ts
  BY <1>1, <1>5, <1>6, <1>8, MergeTs
<1>10. CASE Named(f)
  <2>1. f.id = id
    BY <1>3, <1>7, <1>10, FreeType DEF Resolved, SlotsTypeOK, Slot
  <2> QED BY <1>1, <1>2, <1>9, <1>10, <2>1 DEF Accepted, RefusedByName
<1>11. CASE ~Named(f)
  <2>1. ~f.hasId /\ slots[o].id = id
    BY <1>7, <1>11 DEF Named, Resolved
  <2> QED BY <1>1, <1>2, <1>9, <2>1 DEF Accepted, RefusedBySlot
<1> QED BY <1>10, <1>11

(* A frozen (uas_id, ts) on the reject list never enters a slot again, for  *)
(* any table and any frames whose Basic ID, when there is one, has an id.   *)
(* An empty id passes both checks, so the assumption is needed.             *)
THEOREM RejectedNotRearmed ==
  ASSUME \A f \in Frames : f.hasId => f.id # Blank
  PROVE  SpecSlots => NoRearm
<1> DEFINE A == \A id \in UasIds, ts \in OdidTs :
                  Carries(slots', id, ts) /\ ~Carries(slots, id, ts)
                    => ~RejectContains(rejects, id, ts, now')
<1>1. SlotsTypeOK /\ [NextSlots]_slotVars => [A]_slotVars
  <2> SUFFICES ASSUME SlotsTypeOK, NextSlots,
                      NEW id \in UasIds, NEW ts \in OdidTs,
                      Carries(slots', id, ts), ~Carries(slots, id, ts)
               PROVE  ~RejectContains(rejects, id, ts, now')
    OBVIOUS
  <2>1. ASSUME NEW f \in Frames, NEW k \in Gaps, Receive(f, k)
        PROVE  ~RejectContains(rejects, id, ts, now')
    BY <2>1, NoRearmReceive
  <2>2. ASSUME NEW k \in Gaps, Timeout(k)
        PROVE  FALSE
    BY <2>2 DEF Timeout
  <2>3. CASE EvictSlot
    <3>1. \A i \in Slots : slots'[i] = slots[i] \/ slots'[i].id = Blank
      BY <2>3 DEF EvictSlot, SlotsTypeOK, Free
    <3> QED BY <3>1, RejectAssumption DEF Carries
  <2> QED BY <2>1, <2>2, <2>3 DEF NextSlots
<1>2. SpecSlots => [][A]_slotVars
  BY <1>1, SlotsTyped, PTL DEF SpecSlots
<1> QED BY <1>2 DEF NoRearm

------------------------------------------------------------------------------
(* A slot holds what is its drone's, when addresses are not shared.         *)

(* What a slot says about its drone: home is whose an address is.           *)
OwnData(s, home) ==
  /\ s.mac \in Macs /\ home[s.mac] = s.id
  /\ s.hasBasic => s.basic = s.id
  /\ HasLocation(s.loc) => s.loc.of = s.id

SlotsOwn(home) == \A i \in Used : OwnData(slots[i], home)

(* Frames say whose they are: by name, by position and by address alike.    *)
Truthful(f, home) ==
  /\ f.hasId => f.id # Blank /\ f.id = home[f.mac]
  /\ HasLocation(f.loc) => f.loc.of = home[f.mac]

LEMMA SlotsOwnReceive ==
  ASSUME SlotsTypeOK, NEW home, SlotsOwn(home),
         NEW f \in Frames, Truthful(f, home), NEW k \in Gaps, Receive(f, k)
  PROVE  SlotsOwn(home)'
<1> DEFINE t == Later(now, k)
           o == Owner(f, t)
           r == Resolved(f, o)
<1>1. t \in Tick
  BY LaterTick DEF SlotsTypeOK
<1>2. CASE ~Accepted(f, t)
  BY <1>2 DEF Receive, Absorb, SlotsOwn, Used
<1>3. CASE Accepted(f, t)
  <2>1. o \in Slots
    BY <1>1, <1>3, OwnerType DEF Accepted
  <2>2. slots' = [slots EXCEPT ![o] = Merge(r, f, t)]
    BY <1>3 DEF Receive, Absorb
  <2>3. r \in Slot /\ slots[o] \in Slot
    BY <2>1, ResolvedType DEF SlotsTypeOK
  <2>4. /\ Merge(r, f, t).id = r.id /\ Merge(r, f, t).mac = r.mac
        /\ Merge(r, f, t).hasBasic = (r.hasBasic \/ f.hasId)
        /\ Merge(r, f, t).basic = IF f.hasId THEN f.id ELSE r.basic
        /\ Merge(r, f, t).loc = IF HasLocation(f.loc) THEN f.loc ELSE r.loc
    BY <2>3 DEF Merge, MergeFields, Slot
  <2>5. r.mac = f.mac /\ f.mac \in Macs
    <3>1. CASE Named(f)
      BY <2>3, <3>1, FreeType, FrameFields DEF Resolved, Slot
    <3>2. CASE ~Named(f)
      <4> DEFINE near == {i \in Used : slots[i].mac = f.mac}
      <4>1. near \in SUBSET Nat /\ near # {} /\ o = First(near)
        BY <1>3, <3>2, SlotsInNat DEF Accepted, Owner, Used
      <4>2. o \in near
        BY <4>1, FirstIsLeast
      <4> QED BY <3>2, <4>2, FrameFields DEF Resolved
    <3> QED BY <3>1, <3>2
  <2>6. OwnData(Merge(r, f, t), home)
    <3>1. CASE Named(f)
      <4>1. r.id = f.id /\ f.hasId /\ f.id = home[f.mac]
        BY <2>3, <3>1, FreeType DEF Resolved, Slot, Named, Truthful
      <4>2. r = [(IF slots[o].id = f.id THEN slots[o] ELSE Free)
                   EXCEPT !.id = f.id, !.mac = f.mac]
        BY <3>1 DEF Resolved
      <4>3. HasLocation(r.loc) => r.loc.of = r.id
        <5>1. CASE slots[o].id = f.id
          <6>1. o \in Used
            BY <2>1, <3>1, <5>1 DEF Used, Named
          <6>2. r.loc = slots[o].loc
            BY <2>3, <4>2, <5>1 DEF Slot
          <6> QED BY <4>1, <5>1, <6>1, <6>2 DEF SlotsOwn, OwnData
        <5>2. CASE slots[o].id # f.id
          <6>1. r.loc = NoLocation
            BY <4>2, <5>2 DEF Free
          <6> QED BY <6>1 DEF HasLocation, NoLocation
        <5> QED BY <5>1, <5>2
      <4> QED BY <2>4, <2>5, <4>1, <4>3 DEF OwnData, Truthful
    <3>2. CASE ~Named(f)
      <4>1. ~f.hasId
        BY <3>2 DEF Named, Truthful
      <4> DEFINE near == {i \in Used : slots[i].mac = f.mac}
      <4>2. near \in SUBSET Nat /\ near # {} /\ o = First(near)
        BY <1>3, <3>2, SlotsInNat DEF Accepted, Owner, Used
      <4>3. o \in Used
        BY <4>2, FirstIsLeast
      <4>4. r = slots[o] /\ OwnData(slots[o], home)
        BY <3>2, <4>3 DEF Resolved, SlotsOwn
      <4> QED BY <2>4, <2>5, <4>1, <4>4 DEF OwnData, Truthful
    <3> QED BY <3>1, <3>2
  <2>7. \A i \in Slots : slots'[i] = IF i = o THEN Merge(r, f, t) ELSE slots[i]
    BY <2>1, <2>2 DEF SlotsTypeOK
  <2> QED BY <2>6, <2>7 DEF SlotsOwn, Used
<1> QED BY <1>2, <1>3

LEMMA SlotsOwnStep ==
  ASSUME SlotsTypeOK, NEW home, SlotsOwn(home),
         \A f \in Frames : Truthful(f, home), [NextSlots]_slotVars
  PROVE  SlotsOwn(home)'
<1>1. ASSUME NEW f \in Frames, NEW k \in Gaps, Receive(f, k)
      PROVE  SlotsOwn(home)'
  BY <1>1, SlotsOwnReceive
<1>2. ASSUME NEW k \in Gaps, Timeout(k)
      PROVE  SlotsOwn(home)'
  BY <1>2 DEF Timeout, SlotsOwn, Used
<1>3. CASE EvictSlot
  <2>1. \A i \in Slots : slots'[i] = slots[i] \/ slots'[i].id = Blank
    BY <1>3 DEF EvictSlot, SlotsTypeOK, Free
  <2> QED BY <2>1 DEF SlotsOwn, Used
<1>4. CASE UNCHANGED slotVars
  BY <1>4 DEF slotVars, SlotsOwn, Used
<1> QED BY <1>1, <1>2, <1>3, <1>4 DEF NextSlots

LEMMA SlotsOwnAlways ==
  ASSUME NEW home, \A f \in Frames : Truthful(f, home)
  PROVE  SpecSlots => []SlotsOwn(home)
<1>1. InitSlots => SlotsOwn(home)
  BY DEF InitSlots, SlotsOwn, Used, Free
<1>2. SlotsTypeOK /\ SlotsOwn(home) /\ [NextSlots]_slotVars => SlotsOwn(home)'
  BY SlotsOwnStep
<1> QED BY <1>1, <1>2, SlotsTyped, PTL DEF SpecSlots

(* No slot ever carries another drone's position, however frames with and   *)
(* without a name, displacements and evictions follow each other, provided  *)
(* that no two drones send from one address and frames say whose they are.  *)
THEOREM PositionsOwn ==
  ASSUME NEW home, \A f \in Frames : Truthful(f, home)
  PROVE  SpecSlots => []OwnPosition
<1>1. SlotsOwn(home) => OwnPosition
  BY DEF SlotsOwn, OwnData, OwnPosition
<1> QED BY <1>1, SlotsOwnAlways, PTL

(* Nor is one ever broadcast under another drone's Basic ID.                *)
THEOREM BasicIdsOwn ==
  ASSUME NEW home, \A f \in Frames : Truthful(f, home)
  PROVE  SpecSlots => []OwnBasicId
<1>1. SlotsOwn(home) => OwnBasicId
  BY DEF SlotsOwn, OwnData, OwnBasicId, Live
<1> QED BY <1>1, SlotsOwnAlways, PTL

------------------------------------------------------------------------------
(***************************************************************************)
(* Silence is measured right however often the tick counter wraps, for any *)
(* limits that fit the counter with one pass to spare.  The code compares  *)
(* wrapping stamps; quiet counts elapsed ticks.  QuietInv says that they   *)
(* agree, which holds because no age ever reaches a full turn: the         *)
(* eviction loop looks at every slot once a pass.                          *)
(***************************************************************************)
(* A slot's real silence is the age of its stamp, and is within the limit   *)
(* unless the eviction loop has yet to look at it in this pass.             *)
Measured(i) ==
  /\ slots[i].timing.lastAny \in Tick
  /\ quiet[i] = Since(slots[i].timing.lastAny, now)
  /\ quiet[i] <= SilentTicks + MaxGap
  /\ cursor = 0 \/ i < cursor => quiet[i] <= SilentTicks

QuietInv ==
  /\ SlotsTypeOK
  /\ quiet \in [Slots -> Nat]
  /\ \A i \in Slots : i \notin Used => quiet[i] = 0
  /\ \A i \in Used : Measured(i)

LEMMA QuietInit == Init => QuietInv
<1> SUFFICES ASSUME Init PROVE QuietInv
  OBVIOUS
<1>1. SlotsTypeOK
  BY SlotsTypeInit DEF Init
<1>2. Used = {}
  BY DEF Init, InitSlots, Used, Free
<1> QED BY <1>1, <1>2 DEF Init, QuietInv

(* What merging a frame notes: that it came now. *)
LEMMA MergeNotesFrame ==
  ASSUME NEW s \in Slot, NEW f \in Frames, NEW t \in Tick
  PROVE  Merge(s, f, t).timing.lastAny = t
<1> DEFINE m == MergeFields(s, f, t)
<1>1. s.timing \in Timing
  BY DEF Slot
<1>2. NoteFrame(s.timing, t) \in Timing /\ NoteFrame(s.timing, t).lastAny = t
  BY <1>1, TimingType DEF NoteFrame, Timing
<1>3. m.timing = IF HasLocation(f.loc)
                 THEN NoteLocationTs(NoteFrame(s.timing, t), f.loc.ts, t)
                 ELSE NoteFrame(s.timing, t)
  BY DEF MergeFields, Slot
<1>4. m.timing \in Timing
  BY <1>2, <1>3, TimingType
<1>5. \A x \in Timing : \A ts : NoteLocationTs(x, ts, t).lastAny = x.lastAny
  BY DEF NoteLocationTs, Timing
<1>6. m.timing.lastAny = t
  BY <1>2, <1>3, <1>5
<1>7. Merge(s, f, t).timing = NoteAirborneState(m.timing, Airborne(m), s.flown, t)
  BY DEF Merge, MergeFields, Slot
<1> QED BY <1>4, <1>6, <1>7 DEF NoteAirborneState, Timing

(* While k ticks pass at the queue, a slot without a frame grows older by k. *)
LEMMA Waiting ==
  ASSUME QuietInv, cursor = 0, SilentTicks + MaxGap < TickMod,
         NEW k \in Gaps, NEW i \in Used
  PROVE  /\ Since(slots[i].timing.lastAny, Later(now, k)) = quiet[i] + k
         /\ quiet[i] + k <= SilentTicks + MaxGap
         /\ UpTo(quiet[i] + k, QuietCap) = quiet[i] + k
<1>1. i \in Slots /\ Measured(i) /\ quiet[i] \in Nat
  BY DEF QuietInv, Used
<1>2. quiet[i] <= SilentTicks /\ k \in Nat /\ k <= MaxGap
  BY <1>1, SlotsAssumption DEF Measured, Gaps
<1>3. quiet[i] + k <= SilentTicks + MaxGap /\ quiet[i] + k < TickMod
  BY <1>1, <1>2, TickAssumption, SlotsAssumption
<1>4. Since(slots[i].timing.lastAny, Later(now, k)) = quiet[i] + k
  BY <1>1, <1>2, <1>3, SinceLater DEF Measured, QuietInv, SlotsTypeOK
<1> QED BY <1>1, <1>2, <1>3, <1>4, TickAssumption, SlotsAssumption DEF UpTo, QuietCap

LEMMA QuietReceive ==
  ASSUME QuietInv, SlotsTypeOK', SilentTicks + MaxGap < TickMod,
         NEW f \in Frames, NEW k \in Gaps, ReceiveH(f, k)
  PROVE  QuietInv'
<1> DEFINE t == Later(now, k)
           o == Owner(f, t)
           heard == IF Accepted(f, t) THEN {o} ELSE {}
<1>1. cursor = 0 /\ cursor' = 1 /\ now' = t /\ t \in Tick
  BY LaterTick DEF ReceiveH, Receive, QuietInv, SlotsTypeOK
<1>2. quiet' = [i \in Slots |-> IF i \in heard \/ i \notin Used THEN 0
                                ELSE UpTo(quiet[i] + k, QuietCap)]
  BY <1>1 DEF ReceiveH, Elapse
<1>3. \A i \in Slots \ heard : slots'[i] = slots[i]
  BY DEF ReceiveH, Receive, Absorb, QuietInv, SlotsTypeOK
<1>4. \A i \in Used : UpTo(quiet[i] + k, QuietCap) = quiet[i] + k
  BY <1>1, Waiting
<1>5. quiet' \in [Slots -> Nat]
  <2>1. \A i \in Used : quiet[i] + k \in Nat
    BY SlotsAssumption DEF QuietInv, Used, Gaps
  <2> QED BY <1>2, <1>4, <2>1
<1>6. \A i \in Slots : i \notin Used' => quiet'[i] = 0
  BY <1>2, <1>3 DEF Used
<1>7. ASSUME NEW i \in Used'
      PROVE  Measured(i)'
  <2>1. i \in Slots
    BY DEF Used
  <2>2. CASE i \in heard
    <3>1. slots'[i] = Merge(Resolved(f, o), f, t) /\ i = o
      BY <2>1, <2>2 DEF ReceiveH, Receive, Absorb, QuietInv, SlotsTypeOK
    <3>2. Resolved(f, o) \in Slot
      BY <2>1, <3>1, ResolvedType DEF QuietInv
    <3>3. slots'[i].timing.lastAny = t
      BY <1>1, <3>1, <3>2, MergeNotesFrame
    <3>4. quiet'[i] = 0
      BY <1>2, <2>1, <2>2
    <3> QED BY <1>1, <3>3, <3>4, SinceSelf, TickAssumption, SlotsAssumption DEF Measured
  <2>3. CASE i \notin heard
    <3>1. slots'[i] = slots[i] /\ i \in Used
      BY <1>3, <2>1, <2>3 DEF Used
    <3>2. quiet'[i] = quiet[i] + k
      BY <1>2, <1>4, <2>1, <2>3, <3>1
    <3>3. slots'[i].timing.lastAny \in Tick
      BY <3>1 DEF QuietInv, Measured
    <3>4. /\ Since(slots'[i].timing.lastAny, now') = quiet'[i]
          /\ quiet'[i] <= SilentTicks + MaxGap
      BY <1>1, <3>1, <3>2, Waiting
    <3>5. ~(cursor' = 0 \/ i < cursor')
      BY <1>1, <2>1 DEF Slots
    <3> QED BY <3>3, <3>4, <3>5 DEF Measured
  <2> QED BY <2>2, <2>3
<1> QED BY <1>5, <1>6, <1>7 DEF QuietInv

LEMMA QuietTimeout ==
  ASSUME QuietInv, SlotsTypeOK', SilentTicks + MaxGap < TickMod,
         NEW k \in Gaps, TimeoutH(k)
  PROVE  QuietInv'
<1>1. cursor = 0 /\ cursor' = 1 /\ now' = Later(now, k) /\ slots' = slots /\ Used' = Used
  BY DEF TimeoutH, Timeout, Used
<1>2. quiet' = [i \in Slots |-> IF i \notin Used THEN 0
                                ELSE UpTo(quiet[i] + k, QuietCap)]
  BY DEF TimeoutH, Elapse
<1>3. \A i \in Used : quiet'[i] = quiet[i] + k
  BY <1>1, <1>2, Waiting DEF Used
<1>4. quiet' \in [Slots -> Nat]
  <2>1. \A i \in Used : UpTo(quiet[i] + k, QuietCap) \in Nat
    <3>1. \A i \in Used : quiet[i] + k \in Nat
      BY SlotsAssumption DEF QuietInv, Used, Gaps
    <3> QED BY <1>1, <3>1, Waiting
  <2> QED BY <1>2, <2>1
<1>5. ASSUME NEW i \in Used
      PROVE  Measured(i)'
  <2>1. slots[i].timing.lastAny \in Tick /\ i \in Slots
    BY DEF QuietInv, Measured, Used
  <2>2. ~(cursor' = 0 \/ i < cursor')
    BY <1>1, <2>1 DEF Slots
  <2> QED BY <1>1, <1>3, <2>1, <2>2, Waiting DEF Measured
<1> QED BY <1>1, <1>2, <1>4, <1>5 DEF QuietInv

LEMMA QuietEvict ==
  ASSUME QuietInv, SlotsTypeOK', EvictSlotH
  PROVE  QuietInv'
<1>1. cursor \in Slots /\ now' = now
      /\ cursor' = IF cursor = NumSlots THEN 0 ELSE cursor + 1
  BY DEF EvictSlotH, EvictSlot, QuietInv, SlotsTypeOK, Slots
<1> DEFINE keep == Verdict(slots[cursor]) = "keep"
<1>2. \A i \in Slots : slots'[i] = IF i = cursor /\ ~keep THEN Free ELSE slots[i]
  BY <1>1 DEF EvictSlotH, EvictSlot, QuietInv, SlotsTypeOK
<1>3. \A i \in Slots : quiet'[i] = IF i = cursor /\ ~keep THEN 0 ELSE quiet[i]
  BY <1>1 DEF EvictSlotH, QuietInv
<1>4. quiet' \in [Slots -> Nat]
  BY <1>1 DEF EvictSlotH, QuietInv
<1>5. \A i \in Slots : i \notin Used' => quiet'[i] = 0
  BY <1>2, <1>3 DEF QuietInv, Used
<1>6. ASSUME NEW i \in Used'
      PROVE  Measured(i)'
  <2>1. i \in Slots /\ slots'[i].id # Blank
    BY DEF Used
  <2>2. slots'[i] = slots[i] /\ quiet'[i] = quiet[i] /\ i \in Used /\ (i = cursor => keep)
    BY <1>2, <1>3, <2>1 DEF Free, Used
  <2>3. Measured(i)
    BY <2>2 DEF QuietInv
  <2>4. i = cursor => quiet[i] <= SilentTicks
    <3>1. SUFFICES ASSUME i = cursor PROVE quiet[i] <= SilentTicks
      OBVIOUS
    <3>2. CheckEvict(slots[i].timing, now) = "keep"
      BY <2>1, <2>2, <3>1 DEF Verdict
    <3>3. ~Overdue(slots[i].timing.lastAny, now, SilentTicks)
      BY <3>2 DEF CheckEvict
    <3>4. ~(quiet[i] > SilentTicks)
      BY <2>3, <3>3 DEF Overdue, Measured, Tick, Unset
    <3>5. quiet[i] \in Nat
      BY <2>1 DEF QuietInv
    <3> QED BY <3>4, <3>5, TickAssumption
  <2>5. cursor' = 0 \/ i < cursor' => i < cursor \/ i = cursor
    BY <1>1, <2>1, SlotsAssumption DEF Slots
  <2>6. cursor # 0
    BY <1>1, SlotsInNat
  <2> QED BY <1>1, <2>2, <2>3, <2>4, <2>5, <2>6 DEF Measured
<1> QED BY <1>4, <1>5, <1>6 DEF QuietInv

LEMMA QuietStep ==
  ASSUME SilentTicks + MaxGap < TickMod
  PROVE  QuietInv /\ [Next]_vars => QuietInv'
<1> SUFFICES ASSUME QuietInv, [Next]_vars PROVE QuietInv'
  OBVIOUS
<1>1. [NextSlots]_slotVars
  BY DEF Next, NextSlots, ReceiveH, TimeoutH, EvictSlotH, vars
<1>2. SlotsTypeOK'
  BY <1>1, SlotsTypeStep DEF QuietInv
<1>3. ASSUME NEW f \in Frames, NEW k \in Gaps, ReceiveH(f, k)
      PROVE  QuietInv'
  BY <1>2, <1>3, QuietReceive
<1>4. ASSUME NEW k \in Gaps, TimeoutH(k)
      PROVE  QuietInv'
  BY <1>2, <1>4, QuietTimeout
<1>5. CASE EvictSlotH
  BY <1>2, <1>5, QuietEvict
<1>6. CASE UNCHANGED vars
  BY <1>2, <1>6 DEF vars, slotVars, historyVars, QuietInv, Measured, Used
<1> QED BY <1>3, <1>4, <1>5, <1>6 DEF Next

LEMMA QuietAlways ==
  ASSUME SilentTicks + MaxGap < TickMod
  PROVE  Spec => []QuietInv
BY QuietInit, QuietStep, PTL DEF Spec

(* At the queue no slot has really been silent beyond SilentTicks, over any *)
(* number of turns of the counter, if one turn is longer than the silent    *)
(* time and a pass together (on the node: 49 days against seconds).         *)
THEOREM SilenceMeasured ==
  ASSUME SilentTicks + MaxGap < TickMod
  PROVE  Spec => []QuietBounded
<1>1. QuietInv => QuietBounded
  BY DEF QuietInv, Measured, QuietBounded
<1> QED BY <1>1, QuietAlways, PTL

------------------------------------------------------------------------------
(* The slot the scan of resolve_slot picks is as old as any.                *)
LEMMA StalestIsOldest ==
  ASSUME SlotsTypeOK, NEW t \in Tick
  PROVE  \A j \in Slots : Age(j, t) <= Age(StalestSlot(t), t)
<1>1. \E i \in Slots : \A j \in Slots :
        Age(j, t) < Age(i, t) \/ (Age(j, t) = Age(i, t) /\ j <= i)
  BY OldestExists
<1>2. \A j \in Slots :
        \/ Age(j, t) < Age(StalestSlot(t), t)
        \/ Age(j, t) = Age(StalestSlot(t), t) /\ j <= StalestSlot(t)
  BY <1>1 DEF StalestSlot
<1>3. \A i \in Slots : Age(i, t) \in Nat
  BY SinceType, TickAssumption DEF Age, SlotsTypeOK, Slot, Timing
<1>4. StalestSlot(t) \in Slots
  BY StalestSlotType
<1> QED BY <1>2, <1>3, <1>4

LEMMA DisplaceReceive ==
  ASSUME QuietInv, SilentTicks + MaxGap < TickMod,
         NEW f \in Frames, NEW k \in Gaps, ReceiveH(f, k),
         NEW i \in Slots, slots[i].id # Blank, slots'[i].id \notin {Blank, slots[i].id}
  PROVE  Used = Slots /\ \A j \in Slots : quiet[j] <= quiet[i]
<1> DEFINE t == Later(now, k)
           o == Owner(f, t)
<1>1. cursor = 0 /\ t \in Tick /\ SlotsTypeOK
  BY LaterTick DEF ReceiveH, Receive, QuietInv, SlotsTypeOK
<1>2. Accepted(f, t) /\ i = o
  BY DEF ReceiveH, Receive, Absorb, QuietInv, SlotsTypeOK
<1>3. slots'[o].id = Resolved(f, o).id
  <2>1. slots'[o] = Merge(Resolved(f, o), f, t)
    BY <1>1, <1>2 DEF ReceiveH, Receive, Absorb, SlotsTypeOK
  <2> QED BY <1>1, <1>2, <2>1, ResolvedType, MergeKeepsKey
<1>4. Named(f)
  BY <1>2, <1>3 DEF Resolved
<1> DEFINE keyed == {j \in Used : slots[j].id = f.id}
<1>5. keyed = {}
  <2>1. SUFFICES ASSUME keyed # {} PROVE FALSE
    OBVIOUS
  <2>2. o = First(keyed) /\ keyed \in SUBSET Nat
    BY <1>4, <2>1, SlotsInNat DEF Owner, Used
  <2>3. slots[o].id = f.id
    BY <2>1, <2>2, FirstIsLeast
  <2>4. Resolved(f, o).id = slots[o].id
    BY <1>1, <1>2, <1>4, <2>3 DEF Resolved, SlotsTypeOK, Slot
  <2> QED BY <1>2, <1>3, <2>4
<1>6. Used = Slots
  <2>1. SUFFICES ASSUME Used # Slots PROVE FALSE
    OBVIOUS
  <2>2. o = First(Slots \ Used) /\ Slots \ Used # {} /\ Slots \ Used \in SUBSET Nat
    BY <1>4, <1>5, <2>1, SlotsInNat DEF Owner, Used
  <2>3. o \notin Used
    BY <2>2, FirstIsLeast
  <2> QED BY <1>2, <2>3 DEF Used
<1>7. o = StalestSlot(t)
  BY <1>4, <1>5, <1>6 DEF Owner
<1>8. \A j \in Slots : Age(j, t) <= Age(o, t)
  BY <1>1, <1>7, StalestIsOldest
<1>9. \A j \in Slots : Age(j, t) = quiet[j] + k /\ quiet[j] \in Nat
  BY <1>1, <1>6, Waiting DEF Age, QuietInv
<1>10. k \in Nat
  BY SlotsAssumption DEF Gaps
<1> QED BY <1>2, <1>6, <1>8, <1>9, <1>10

(* A new drone displaces another only from a full table, and then the one   *)
(* that has really been silent for longest, wrapped stamps or not.          *)
THEOREM DisplacesStalest ==
  ASSUME SilentTicks + MaxGap < TickMod
  PROVE  Spec => StalestDisplaced
<1> DEFINE A == \A i \in Slots :
                  slots[i].id # Blank /\ slots'[i].id \notin {Blank, slots[i].id}
                    => Used = Slots /\ \A j \in Slots : quiet[j] <= quiet[i]
<1>1. QuietInv /\ [Next]_vars => [A]_vars
  <2> SUFFICES ASSUME QuietInv, Next, NEW i \in Slots, slots[i].id # Blank,
                      slots'[i].id \notin {Blank, slots[i].id}
               PROVE  Used = Slots /\ \A j \in Slots : quiet[j] <= quiet[i]
    OBVIOUS
  <2>1. ASSUME NEW f \in Frames, NEW k \in Gaps, ReceiveH(f, k)
        PROVE  Used = Slots /\ \A j \in Slots : quiet[j] <= quiet[i]
    BY <2>1, DisplaceReceive
  <2>2. ASSUME NEW k \in Gaps, TimeoutH(k)
        PROVE  FALSE
    BY <2>2 DEF TimeoutH, Timeout
  <2>3. CASE EvictSlotH
    BY <2>3 DEF EvictSlotH, EvictSlot, QuietInv, SlotsTypeOK, Free
  <2> QED BY <2>1, <2>2, <2>3 DEF Next
<1>2. Spec => [][A]_vars
  BY <1>1, QuietAlways, PTL DEF Spec
<1> QED BY <1>2 DEF StalestDisplaced

------------------------------------------------------------------------------
(***************************************************************************)
(* What is evicted as frozen stays out.  Until the counter wraps, the tick *)
(* is the time since the start, so the list holds what ListInv says, with  *)
(* banned for the ages; and a young pair it holds is in no slot.           *)
(***************************************************************************)

ListedOut ==
  \A pair \in Pairs :
    Listed(rejects, pair) /\ banned[pair] <= RejectTtl
      => ~Carries(slots, pair[1], pair[2])

FrozenInv ==
  /\ SlotsTypeOK /\ SlotKeysUnique /\ turned \in BOOLEAN
  /\ ~turned => ListInv(rejects, now, banned, now) /\ ListedOut

LEMMA BannedAges ==
  /\ Pairs = RejectPairs
  /\ \A t \in Nat : UpTo(t, BanCap) = AgeUpTo(t)
BY RejectAssumption DEF Pairs, RejectPairs, UpTo, AgeUpTo, BanCap

LEMMA FrozenInit == Init => FrozenInv
<1> SUFFICES ASSUME Init PROVE FrozenInv
  OBVIOUS
<1>1. SlotsTypeOK /\ SlotKeysUnique
  BY SlotsTypeInit DEF Init, InitSlots, SlotKeysUnique, Used, Free
<1>2. banned = [pair \in RejectPairs |-> RejectTtl + 1]
  BY BannedAges DEF Init, BanCap
<1>3. ListInv(rejects, now, banned, now)
  BY <1>1, <1>2, ListStarts DEF Init, InitSlots, SlotsTypeOK
<1>4. \A pair \in Pairs : ~(banned[pair] <= RejectTtl)
  BY <1>2, BannedAges, RejectAssumption
<1> QED BY <1>1, <1>3, <1>4 DEF FrozenInv, ListedOut, Init

(* The counter has not wrapped: the list is k ticks older.                  *)
LEMMA FrozenElapse ==
  ASSUME FrozenInv, NEW k \in Gaps, NEW heard, Elapse(k, heard), ~turned',
         now' = Later(now, k), rejects' = rejects
  PROVE  /\ ~turned
         /\ ListInv(rejects', now', banned', now')
         /\ \A pair \in Pairs : banned'[pair] <= RejectTtl => banned[pair] <= RejectTtl
<1>1. ~turned /\ ListInv(rejects, now, banned, now) /\ now \in Nat /\ k \in Nat
  BY SlotsAssumption, TickAssumption DEF Elapse, FrozenInv, SlotsTypeOK, Tick, Gaps
<1>2. now + k < TickMod /\ now' = now + k
  BY <1>1, TickAssumption DEF Elapse, Later
<1>3. \A pair \in RejectPairs : banned[pair] \in Nat /\ banned[pair] + k \in Nat
  BY <1>1 DEF ListInv, ListTyped
<1>4. banned' = [pair \in RejectPairs |-> AgeUpTo(banned[pair] + k)]
  BY <1>3, BannedAges DEF Elapse
<1>5. ListInv(rejects, Later(now, k), banned', now + k)
  BY <1>1, <1>2, <1>4, ListWaits
<1>6. \A pair \in Pairs : banned'[pair] <= RejectTtl => banned[pair] <= RejectTtl
  BY <1>1, <1>3, <1>4, BannedAges, RejectAssumption DEF AgeUpTo
<1> QED BY <1>1, <1>2, <1>5, <1>6

LEMMA FrozenReceive ==
  ASSUME \A f \in Frames : f.hasId => f.id # Blank,
         FrozenInv, NEW f \in Frames, NEW k \in Gaps, ReceiveH(f, k), ~turned'
  PROVE  ListInv(rejects', now', banned', now') /\ ListedOut'
<1>1. /\ now' = Later(now, k) /\ rejects' = rejects /\ Receive(f, k)
      /\ Elapse(k, IF Accepted(f, now') THEN {Owner(f, now')} ELSE {})
  BY DEF ReceiveH, Receive
<1>2. /\ ~turned /\ ListInv(rejects', now', banned', now')
      /\ \A pair \in Pairs : banned'[pair] <= RejectTtl => banned[pair] <= RejectTtl
  BY <1>1, FrozenElapse
<1>3. ASSUME NEW pair \in Pairs, Listed(rejects, pair), banned'[pair] <= RejectTtl,
             Carries(slots', pair[1], pair[2])
      PROVE  FALSE
  <2>1. ~Carries(slots, pair[1], pair[2])
    BY <1>2, <1>3 DEF FrozenInv, ListedOut
  <2>2. pair[1] \in UasIds /\ pair[2] \in OdidTs
    BY BannedAges, PairFields
  <2>3. ~RejectContains(rejects, pair[1], pair[2], now')
    BY <1>1, <1>3, <2>1, <2>2, NoRearmReceive DEF FrozenInv
  <2>4. RejectContains(rejects, pair[1], pair[2], now')
    BY <1>1, <1>2, <1>3, BannedAges, RefusedListed
  <2> QED BY <2>3, <2>4
<1> QED BY <1>1, <1>2, <1>3 DEF ListedOut

LEMMA FrozenTimeout ==
  ASSUME FrozenInv, NEW k \in Gaps, TimeoutH(k), ~turned'
  PROVE  ListInv(rejects', now', banned', now') /\ ListedOut'
<1>1. /\ now' = Later(now, k) /\ rejects' = rejects /\ slots' = slots
      /\ Elapse(k, {})
  BY DEF TimeoutH, Timeout
<1>2. /\ ~turned /\ ListInv(rejects', now', banned', now')
      /\ \A pair \in Pairs : banned'[pair] <= RejectTtl => banned[pair] <= RejectTtl
  BY <1>1, FrozenElapse
<1> QED BY <1>1, <1>2 DEF FrozenInv, ListedOut, Carries

LEMMA FrozenEvict ==
  ASSUME FrozenInv, EvictSlotH, ~turned'
  PROVE  ListInv(rejects', now', banned', now') /\ ListedOut'
<1> DEFINE s == slots[cursor]
           pair == <<s.id, s.timing.ts>>
<1>1. /\ ~turned /\ ListInv(rejects, now, banned, now) /\ ListedOut
      /\ now' = now /\ cursor \in Slots /\ s \in Slot
  BY DEF EvictSlotH, EvictSlot, FrozenInv, SlotsTypeOK, Slots
<1>2. \A i \in Slots : slots'[i] = slots[i] \/ slots'[i].id = Blank
  BY DEF EvictSlotH, EvictSlot, FrozenInv, SlotsTypeOK, Free
<1>3. \A q \in Pairs : Carries(slots', q[1], q[2]) => Carries(slots, q[1], q[2])
  BY <1>2, BannedAges, PairFields, RejectAssumption DEF Carries
<1>4. CASE Verdict(s) # "frozen"
  <2>1. rejects' = rejects /\ banned' = banned
    BY <1>4 DEF EvictSlotH, EvictSlot
  <2> QED BY <1>1, <1>3, <2>1 DEF ListedOut
<1>5. CASE Verdict(s) = "frozen"
  <2>1. pair \in Pairs /\ s.id \in UasIds
    <3>1. s.id # Blank /\ Frozen(s.timing)
      BY <1>5 DEF Verdict, CheckEvict
    <3>2. s.id \in UasIds /\ s.timing.ts \in OdidTs
      BY <1>1, <3>1 DEF Frozen, Slot, Timing, Ids
    <3> QED BY <3>2 DEF Pairs
  <2>2. /\ rejects' = RejectAdd(rejects, pair[1], pair[2], now)
        /\ banned' = [banned EXCEPT ![pair] = 0]
        /\ slots' = [slots EXCEPT ![cursor] = Free]
    BY <1>5 DEF EvictSlotH, EvictSlot
  <2>3. ListInv(rejects', now, banned', now)
    BY <1>1, <2>1, <2>2, BannedAges, ListAdds
  <2>4. ASSUME NEW q \in Pairs, Listed(rejects', q), banned'[q] <= RejectTtl
        PROVE  ~Carries(slots', q[1], q[2])
    <3>1. CASE q = pair
      <4>1. \A i \in Slots : slots[i].id = s.id => i = cursor
        BY <1>1, <2>1, RejectAssumption DEF FrozenInv, SlotKeysUnique, Used
      <4>2. \A i \in Slots : slots'[i].id # s.id
        BY <1>1, <2>1, <2>2, <4>1, RejectAssumption DEF FrozenInv, SlotsTypeOK, Free
      <4> QED BY <3>1, <4>2 DEF Carries
    <3>2. CASE q # pair
      <4>1. Listed(rejects, q)
        BY <1>1, <2>1, <2>2, <2>4, <3>2, BannedAges, ListAddsOnly DEF FrozenInv, SlotsTypeOK
      <4>2. banned'[q] = banned[q]
        BY <1>1, <2>2, <3>2, BannedAges DEF ListInv, ListTyped
      <4> QED BY <1>1, <1>3, <2>4, <4>1, <4>2 DEF ListedOut
    <3> QED BY <3>1, <3>2
  <2> QED BY <1>1, <2>3, <2>4 DEF ListedOut
<1> QED BY <1>4, <1>5

LEMMA FrozenAlways ==
  ASSUME \A f \in Frames : f.hasId => f.id # Blank
  PROVE  Spec => []FrozenInv
<1>1. FrozenInv /\ [Next]_vars => FrozenInv'
  <2> SUFFICES ASSUME FrozenInv, [Next]_vars PROVE FrozenInv'
    OBVIOUS
  <2>1. [NextSlots]_slotVars
    BY DEF Next, NextSlots, ReceiveH, TimeoutH, EvictSlotH, vars
  <2>2. SlotsTypeOK' /\ SlotKeysUnique'
    BY <2>1, SlotsTypeStep, KeysUniqueStep DEF FrozenInv
  <2>3. turned' \in BOOLEAN
    BY DEF FrozenInv, Next, ReceiveH, TimeoutH, EvictSlotH, Elapse, vars, historyVars
  <2>4. ASSUME ~turned'
        PROVE  ListInv(rejects', now', banned', now') /\ ListedOut'
    <3>1. CASE UNCHANGED vars
      BY <2>4, <3>1 DEF FrozenInv, ListedOut, Carries, vars, slotVars, historyVars
    <3> QED BY <2>4, <3>1, FrozenReceive, FrozenTimeout, FrozenEvict DEF Next
  <2> QED BY <2>2, <2>3, <2>4 DEF FrozenInv
<1> QED BY <1>1, FrozenInit, PTL DEF Spec

(* Within one turn of the counter a pair evicted as frozen stays out of the *)
(* table for RejectTtl, unless more pairs than the list has entries are     *)
(* evicted meanwhile: a pair that was not listed any more would have given  *)
(* way to that many younger ones.  For any number of slots, drones and      *)
(* entries, and any frames whose Basic ID, when there is one, has an id.    *)
THEOREM FrozenKeptOut ==
  ASSUME \A f \in Frames : f.hasId => f.id # Blank, IsFiniteSet(UasIds)
  PROVE  Spec => []FrozenStaysOut
<1>1. ASSUME FrozenInv PROVE FrozenStaysOut
  <2> DEFINE young == {q \in Pairs : banned[q] <= RejectTtl}
  <2>1. SUFFICES ASSUME ~turned, Cardinality(young) <= RejectSlots,
                        NEW pair \in Pairs, banned[pair] <= RejectTtl,
                        ~Listed(rejects, pair)
                 PROVE  FALSE
    BY <1>1 DEF FrozenStaysOut, FrozenNeverRearms, FrozenInv, ListedOut
  <2> DEFINE S == {q \in Pairs : banned[q] <= banned[pair]}
  <2>2. ListInv(rejects, now, banned, now) /\ \A q \in Pairs : banned[q] \in Nat
    BY <1>1, <2>1, BannedAges DEF FrozenInv, ListInv, ListTyped
  <2>3. IsFiniteSet(S) /\ Cardinality(S) > RejectSlots
    BY <2>1, <2>2, BannedAges, LatestListed
  <2>4. IsFiniteSet(young)
    <3>1. IsFiniteSet(OdidTs)
      BY RejectAssumption, FS_Interval DEF OdidTs
    <3>2. IsFiniteSet(Pairs)
      BY <3>1, FS_Product DEF Pairs
    <3> QED BY <3>2, FS_Subset
  <2>5. S \subseteq young
    BY <2>1, <2>2, RejectAssumption
  <2>6. Cardinality(S) <= Cardinality(young)
    BY <2>4, <2>5, FS_Subset
  <2>7. Cardinality(S) \in Nat /\ Cardinality(young) \in Nat
    BY <2>3, <2>4, FS_CardinalityType
  <2> QED BY <2>1, <2>3, <2>6, <2>7, RejectAssumption
<1> QED BY <1>1, FrozenAlways, PTL

------------------------------------------------------------------------------
(***************************************************************************)
(* relay_task as a whole, BleRelay.  What the table contributes to the     *)
(* promise holds for any frames: a used slot was heard within SilentTicks  *)
(* when its pass began, so a Pack of the plan is of a drone heard that     *)
(* recently.                                                               *)
(***************************************************************************)

(* The ticks of a pass whose eviction loop is still running. *)
Pending == Since(radioNow, now)

(* The clock of the radio lags the table's only while the loop runs.         *)
PassInv ==
  /\ radioNow \in Tick
  /\ cursor = 0 => radioNow = now
  /\ cursor # 0 => relayPc = "top" /\ Pending \in Gaps /\ now = Later(radioNow, Pending)

(* The stamp of a used slot says when its drone was heard; the ones the      *)
(* eviction loop has passed were heard within SilentTicks.                  *)
Heard(i) ==
  LET d == slots[i].id
  IN  /\ d \in UasIds
      /\ slots[i].timing.lastAny \in Tick
      /\ unheard[d] = Since(slots[i].timing.lastAny, now)
      /\ unheard[d] <= SilentTicks + MaxGap
      /\ cursor = 0 \/ i < cursor => unheard[d] <= SilentTicks

(* What this pass broadcasts was heard within SilentTicks of its beginning.  *)
PlanHeard ==
  /\ plan.packs \subseteq UasIds /\ todo \subseteq plan.packs \cup {"idle"}
  /\ \A d \in plan.packs : unheard[d] <= SilentTicks + Pending

TableInv ==
  /\ SlotsTypeOK /\ SlotKeysUnique
  /\ unheard \in [UasIds -> Nat]
  /\ PassInv
  /\ \A i \in Used : Heard(i)
  /\ PlanHeard

LEMMA BleLimits ==
  /\ SilentTicks \in Nat /\ MaxGap \in Nat \ {0} /\ TickMod \in Nat \ {0}
  /\ Radio!Patience \in Nat /\ GoneTicks = SilentTicks + MaxGap + Radio!Patience
  /\ Gaps \subseteq Nat /\ \A k \in Gaps : 1 <= k /\ k <= MaxGap /\ k < TickMod
BY TickAssumption, SlotsAssumption, RadioAssumption DEF Radio!Patience, GoneTicks, Gaps

LEMMA TableInit == InitBle => TableInv
<1> SUFFICES ASSUME InitBle PROVE TableInv
  OBVIOUS
<1>1. SlotsTypeOK /\ SlotKeysUnique /\ Used = {}
  BY SlotsTypeInit DEF InitBle, InitSlots, SlotKeysUnique, Used, Free
<1>2. unheard \in [UasIds -> Nat] /\ PlanHeard
  BY DEF InitBle, Radio!Init, Radio!IdlePlan, PlanHeard
<1>3. PassInv
  BY <1>1 DEF InitBle, InitSlots, PassInv, SlotsTypeOK
<1> QED BY <1>1, <1>2, <1>3 DEF TableInv

(* Ticks pass at the queue. *)
LEMMA TableWaits ==
  ASSUME TableInv, cursor = 0, relayPc = "top",
         NEW k \in Gaps, NEW heard, Unheard(k, heard),
         now' = Later(now, k), cursor' # 0, UNCHANGED radioVars
  PROVE  /\ unheard' \in [UasIds -> Nat] /\ PassInv' /\ PlanHeard'
         /\ Pending = 0 /\ Pending' = k
         /\ \A d \in UasIds : unheard'[d] <= unheard[d] + k
<1> USE DEF radioVars
<1>1. /\ now \in Tick /\ radioNow = now /\ k \in Nat /\ k <= MaxGap /\ k < TickMod
      /\ unheard \in [UasIds -> Nat]
  BY BleLimits DEF TableInv, PassInv, SlotsTypeOK
<1>2. Pending = 0
  BY <1>1, SinceSelf DEF Pending
<1>3. Pending' = k
  <2>1. Since(now, now) + k < TickMod
    BY <1>1, SinceSelf
  <2>2. Since(now, Later(now, k)) = Since(now, now) + k
    BY <1>1, <2>1, SinceLater
  <2> QED BY <1>1, <2>2, SinceSelf DEF Pending
<1>4. PassInv'
  BY <1>1, <1>3 DEF PassInv
<1>5. \A d \in UasIds : unheard'[d] \in Nat /\ unheard'[d] <= unheard[d] + k
  <2> SUFFICES ASSUME NEW d \in UasIds
               PROVE  unheard'[d] \in Nat /\ unheard'[d] <= unheard[d] + k
    OBVIOUS
  <2>1. unheard[d] \in Nat /\ unheard'[d] \in {0, UpToGone(unheard[d] + k)}
    BY <1>1 DEF Unheard
  <2>2. GoneTicks \in Nat
    BY BleLimits
  <2> QED BY <1>1, <2>1, <2>2 DEF UpToGone
<1>6. unheard' \in [UasIds -> Nat]
  BY <1>5 DEF Unheard
<1>7. PlanHeard'
  BY <1>1, <1>2, <1>3, <1>5, BleLimits DEF TableInv, PlanHeard
<1> QED BY <1>2, <1>3, <1>4, <1>5, <1>6, <1>7

(* A slot whose drone was not heard in a pass of k ticks is k ticks older.  *)
LEMMA HeardWaits ==
  ASSUME SilentTicks + MaxGap < TickMod, TableInv, cursor = 0,
         NEW k \in Gaps, NEW heard, Unheard(k, heard),
         now' = Later(now, k), cursor' = 1,
         NEW i \in Used, slots'[i] = slots[i], slots[i].id \notin heard
  PROVE  Heard(i)'
<1> DEFINE d == slots[i].id
           t == slots[i].timing.lastAny
<1>1. /\ i \in Slots /\ d \in UasIds /\ t \in Tick
      /\ unheard[d] = Since(t, now) /\ unheard[d] <= SilentTicks
      /\ unheard \in [UasIds -> Nat] /\ now \in Tick
  BY DEF TableInv, Heard, Used, SlotsTypeOK
<1>2. k \in Nat /\ k <= MaxGap /\ unheard[d] \in Nat
      /\ unheard[d] + k <= SilentTicks + MaxGap /\ unheard[d] + k < TickMod
  BY <1>1, BleLimits
<1>3. Since(t, Later(now, k)) = unheard[d] + k
  BY <1>1, <1>2, SinceLater
<1>4. unheard'[d] = unheard[d] + k
  <2>1. unheard'[d] = UpToGone(unheard[d] + k)
    BY <1>1 DEF Unheard
  <2>2. unheard[d] + k <= GoneTicks
    BY <1>2, BleLimits
  <2> QED BY <2>1, <2>2 DEF UpToGone
<1>5. ~(cursor' = 0 \/ i < cursor')
  BY <1>1 DEF Slots
<1> QED BY <1>1, <1>2, <1>3, <1>4, <1>5 DEF Heard

LEMMA HeardReceive ==
  ASSUME SilentTicks + MaxGap < TickMod, TableInv, SlotsTypeOK', SlotKeysUnique',
         NEW f \in Frames, NEW k \in Gaps, TakeFrame(f, k), NEW i \in Used'
  PROVE  Heard(i)'
<1> DEFINE t == Later(now, k)
           o == Owner(f, t)
           heard == IF Accepted(f, t) THEN {slots'[o].id} ELSE {}
<1>1. cursor = 0 /\ cursor' = 1 /\ now' = t /\ t \in Tick /\ SlotsTypeOK
  BY LaterTick DEF TakeFrame, Receive, TableInv, SlotsTypeOK
<1>2. Unheard(k, heard)
  BY <1>1 DEF TakeFrame
<1>3. i \in Slots /\ slots'[i].id # Blank
  BY DEF Used
<1>4. CASE slots'[i] = slots[i] /\ slots[i].id \notin heard
  <2>1. i \in Used
    BY <1>3, <1>4 DEF Used
  <2> QED BY <1>1, <1>2, <1>4, <2>1, HeardWaits
<1>5. CASE Accepted(f, t) /\ i = o
  <2>1. slots'[i] = Merge(Resolved(f, o), f, t)
    BY <1>1, <1>3, <1>5 DEF TakeFrame, Receive, Absorb, SlotsTypeOK
  <2>2. Resolved(f, o) \in Slot
    BY <1>1, <1>3, <1>5, ResolvedType
  <2>3. slots'[i].timing.lastAny = t
    BY <1>1, <2>1, <2>2, MergeNotesFrame
  <2>4. slots'[i].id \in UasIds
    BY <1>3 DEF SlotsTypeOK, Slot, Ids
  <2>5. unheard'[slots'[i].id] = 0
    BY <1>2, <1>5, <2>4 DEF Unheard
  <2>6. 0 <= SilentTicks /\ 0 <= SilentTicks + MaxGap
    BY BleLimits
  <2> QED BY <1>1, <2>3, <2>4, <2>5, <2>6, SinceSelf DEF Heard
<1>6. CASE Accepted(f, t) /\ i # o
  <2>1. slots'[i] = slots[i]
    BY <1>1, <1>3, <1>6 DEF TakeFrame, Receive, Absorb, SlotsTypeOK
  <2>2. o \in Slots
    BY <1>1, <1>6, OwnerType DEF Accepted
  <2>3. slots'[i].id # slots'[o].id
    BY <1>3, <1>6, <2>2 DEF SlotKeysUnique, Used
  <2> QED BY <1>4, <1>6, <2>1, <2>3
<1>7. CASE ~Accepted(f, t)
  BY <1>4, <1>7 DEF TakeFrame, Receive, Absorb
<1> QED BY <1>5, <1>6, <1>7

LEMMA HeardEvict ==
  ASSUME TableInv, EvictSlot, unheard' = unheard, NEW i \in Used'
  PROVE  Heard(i)'
<1>1. /\ cursor \in Slots /\ now' = now /\ i \in Slots /\ slots'[i].id # Blank
      /\ cursor' = IF cursor = NumSlots THEN 0 ELSE cursor + 1
  BY DEF EvictSlot, TableInv, SlotsTypeOK, Slots, Used
<1> DEFINE keep == Verdict(slots[cursor]) = "keep"
<1>2. slots'[i] = slots[i] /\ (i = cursor => keep)
  BY <1>1 DEF EvictSlot, TableInv, SlotsTypeOK, Free
<1>3. Heard(i)
  BY <1>1, <1>2 DEF TableInv, Used
<1>4. i = cursor => unheard[slots[i].id] <= SilentTicks
  <2>1. SUFFICES ASSUME i = cursor PROVE unheard[slots[i].id] <= SilentTicks
    OBVIOUS
  <2>2. CheckEvict(slots[i].timing, now) = "keep"
    BY <1>1, <1>2, <2>1 DEF Verdict
  <2>3. ~Overdue(slots[i].timing.lastAny, now, SilentTicks)
    BY <2>2 DEF CheckEvict
  <2>4. ~(unheard[slots[i].id] > SilentTicks)
    BY <1>3, <2>3 DEF Overdue, Heard, Tick, Unset
  <2>5. unheard[slots[i].id] \in Nat
    BY <1>3 DEF TableInv, Heard
  <2> QED BY <2>4, <2>5, BleLimits
<1>5. cursor' = 0 \/ i < cursor' => i < cursor \/ i = cursor
  BY <1>1, SlotsAssumption DEF Slots
<1> QED BY <1>1, <1>2, <1>3, <1>4, <1>5 DEF Heard

(* Where a pass begins, what it broadcasts is what the table kept.          *)
LEMMA PlanOfTable ==
  ASSUME NEW tab \in [Slots -> Slot]
  PROVE  /\ TablePlan(tab).packs \subseteq UasIds
         /\ \A d \in TablePlan(tab).packs : \E i \in Slots : tab[i].id = d /\ d # Blank
BY DEF TablePlan, Slot, Ids

LEMMA TableBegins ==
  ASSUME TableInv, EvictLast, SlotsTypeOK', \A i \in Used' : Heard(i)'
  PROVE  /\ PassInv' /\ PlanHeard' /\ unheard' = unheard
         /\ Pending' = 0 /\ Radio!BeginPass(TablePlan(slots'), Pending)
<1>1. PICK k \in Gaps : Later(radioNow, k) = now /\ Radio!BeginPass(TablePlan(slots'), k)
  BY DEF EvictLast, Radio!Gaps, Gaps
<1>2. /\ cursor' = 0 /\ now' = now /\ unheard' = unheard /\ k \in Nat /\ k < TickMod
      /\ radioNow \in Tick /\ now \in Tick
  BY BleLimits, SlotsAssumption DEF EvictLast, EvictSlot, TableInv, PassInv, SlotsTypeOK
<1>3. /\ radioNow' = Later(radioNow, k) /\ plan' = TablePlan(slots')
      /\ todo' \in {plan'.packs, {"idle"}}
  BY <1>1 DEF Radio!BeginPass, Radio!Later, Later
<1>4. Pending = k /\ Pending' = 0
  <2>1. Since(radioNow, radioNow) + k < TickMod
    BY <1>2, SinceSelf
  <2>2. Since(radioNow, Later(radioNow, k)) = Since(radioNow, radioNow) + k
    BY <1>2, <2>1, SinceLater
  <2> QED BY <1>1, <1>2, <1>3, <2>2, SinceSelf DEF Pending
<1>5. PassInv'
  BY <1>1, <1>2, <1>3 DEF PassInv
<1>6. \A i \in Slots : slots'[i].id # Blank => unheard[slots'[i].id] <= SilentTicks
  BY <1>2 DEF Used, Heard
<1>7. /\ plan'.packs \subseteq UasIds
      /\ \A d \in plan'.packs : \E i \in Slots : slots'[i].id = d /\ d # Blank
  BY <1>3, PlanOfTable DEF SlotsTypeOK
<1>8. PlanHeard'
  <2>1. todo' \subseteq plan'.packs \cup {"idle"}
    BY <1>3
  <2> QED BY <1>2, <1>4, <1>6, <1>7, <2>1, BleLimits DEF PlanHeard
<1> QED BY <1>1, <1>2, <1>4, <1>5, <1>8

(* Within a pass only a Pack of the plan, the placeholder or nothing at all *)
(* comes on the air; while the eviction loop runs, nothing new does.        *)
AirMoves ==
  /\ UNCHANGED <<slotVars, unheard, radioNow, plan, stray>>
  /\ todo' \subseteq todo
  /\ onAir' \in {onAir, "off", "idle"} \cup plan.packs
  /\ cursor # 0 => relayPc' = "top" /\ onAir' \in {onAir, "off"}

LEMMA RadioHalfMoves == ASSUME TableInv, RadioHalf PROVE AirMoves
<1> USE DEF Radio!stackVars, Radio!taskVars, Radio!historyVars
<1>1. todo \subseteq plan.packs \cup {"idle"}
  BY DEF TableInv, PlanHeard
<1>2. relayPc # "top"
  BY DEF RadioHalf, Radio!Watchdog, Radio!Remove, Radio!RemoveFails, Radio!Configure,
         Radio!ConfigureFails, Radio!Confirm, Radio!Write, Radio!WriteFails, Radio!EndPass
<1>3. cursor = 0
  BY <1>2 DEF TableInv, PassInv
<1>4. UNCHANGED <<slotVars, unheard>>
  BY DEF RadioHalf
<1>5. CASE \/ Radio!Watchdog \/ Radio!Remove \/ Radio!RemoveFails
           \/ Radio!Configure \/ Radio!ConfigureFails \/ Radio!Confirm \/ Radio!EndPass
  BY <1>3, <1>4, <1>5 DEF AirMoves, Radio!Watchdog, Radio!Remove, Radio!RemoveFails,
     Radio!Configure, Radio!ConfigureFails, Radio!Confirm, Radio!EndPass
<1>6. CASE Radio!Write(NextPayload) \/ Radio!WriteFails(NextPayload)
  <2> DEFINE c == NextPayload
  <2> HIDE DEF c
  <2>1. Radio!Write(c) \/ Radio!WriteFails(c)
    BY <1>6 DEF c
  <2>2. /\ c \in todo /\ todo' \subseteq todo /\ onAir' \in {onAir, c, "off"}
        /\ UNCHANGED <<radioNow, plan, stray>>
    BY <2>1 DEF Radio!Write, Radio!WriteFails
  <2> QED BY <1>1, <1>3, <1>4, <2>2 DEF AirMoves
<1> QED BY <1>5, <1>6 DEF RadioHalf

LEMMA HostTaskMoves == ASSUME TableInv, HostTask PROVE AirMoves
<1> USE DEF Radio!stackVars, Radio!taskVars, Radio!historyVars
<1>1. UNCHANGED <<slotVars, unheard, radioNow, plan, todo, stray>> /\ onAir' \in {onAir, "off"}
  BY DEF HostTask, Radio!HostLost, Radio!Host, Radio!OnReset, Radio!HostSync,
         Radio!SyncConfigure, Radio!SyncConfigureFails, Radio!SyncConfirm
<1>2. relayPc = "top" => relayPc' = "top"
  BY DEF HostTask, Radio!HostLost, Radio!Host, Radio!OnReset, Radio!HostSync,
         Radio!SyncConfigure, Radio!SyncConfigureFails, Radio!SyncConfirm, Radio!Spawn
<1> QED BY <1>1, <1>2 DEF AirMoves, TableInv, PassInv

LEMMA TableMoved ==
  ASSUME TableInv, AirMoves
  PROVE  TableInv' /\ Pending' = Pending
<1>1. UNCHANGED <<slots, rejects, now, cursor, unheard, radioNow, plan>> /\ todo' \subseteq todo
  BY DEF AirMoves, slotVars
<1>2. Used' = Used /\ Pending' = Pending
  BY <1>1 DEF Used, Pending
<1>3. SlotsTypeOK' /\ SlotKeysUnique'
  BY <1>1, <1>2 DEF TableInv, SlotsTypeOK, SlotKeysUnique
<1>4. \A i \in Used' : Heard(i)'
  BY <1>1, <1>2 DEF TableInv, Heard
<1>5. PassInv'
  BY <1>1, <1>2 DEF TableInv, PassInv, AirMoves
<1>6. PlanHeard'
  BY <1>1, <1>2 DEF TableInv, PlanHeard
<1> QED BY <1>1, <1>2, <1>3, <1>4, <1>5, <1>6 DEF TableInv

(* A restart forgets everything at once. *)
LEMMA TableReboot ==
  ASSUME Reboot
  PROVE  TableInv' /\ Used' = {}
<1>1. InitSlots' => SlotsTypeOK'
  BY SlotsTypeInit, PTL
<1>2. SlotsTypeOK' /\ Used' = {} /\ SlotKeysUnique'
  BY <1>1 DEF Reboot, InitSlots, Used, Free, SlotKeysUnique
<1>3. /\ now' = 0 /\ cursor' = 0 /\ radioNow' = 0 /\ plan'.packs = {} /\ todo' = {}
      /\ unheard' = [d \in UasIds |-> 0]
  BY DEF Reboot, Radio!Restart, Radio!IdlePlan
<1>4. PassInv'
  BY <1>2, <1>3 DEF PassInv, SlotsTypeOK
<1> QED BY <1>2, <1>3, <1>4 DEF TableInv, PlanHeard

LEMMA TableStep ==
  ASSUME SilentTicks + MaxGap < TickMod
  PROVE  TableInv /\ [NextBle]_bleVars => TableInv'
<1> SUFFICES ASSUME TableInv, [NextBle]_bleVars PROVE TableInv'
  OBVIOUS
<1>1. CASE UNCHANGED bleVars
  <2>1. AirMoves
    BY <1>1 DEF bleVars, radioVars, AirMoves, TableInv, PassInv
  <2> QED BY <2>1, TableMoved
<1>2. CASE RadioHalf \/ HostTask
  BY <1>2, RadioHalfMoves, HostTaskMoves, TableMoved
<1>3. CASE Reboot
  BY <1>3, TableReboot
<1>4. ASSUME [NextSlots]_slotVars
      PROVE  SlotsTypeOK' /\ SlotKeysUnique'
  BY <1>4, SlotsTypeStep, KeysUniqueStep DEF TableInv
<1>5. ASSUME NEW f \in Frames, NEW k \in Gaps, TakeFrame(f, k)
      PROVE  TableInv'
  <2>1. SlotsTypeOK' /\ SlotKeysUnique'
    BY <1>4, <1>5 DEF TakeFrame, NextSlots
  <2>2. \A i \in Used' : Heard(i)'
    BY <1>5, <2>1, HeardReceive
  <2>3. cursor = 0 /\ relayPc = "top" /\ now' = Later(now, k) /\ cursor' # 0
    BY <1>5 DEF TakeFrame, Receive
  <2>4. unheard' \in [UasIds -> Nat] /\ PassInv' /\ PlanHeard'
    BY <1>5, <2>3, TableWaits DEF TakeFrame
  <2> QED BY <2>1, <2>2, <2>4 DEF TableInv
<1>6. ASSUME NEW k \in Gaps, NoFrame(k)
      PROVE  TableInv'
  <2>1. SlotsTypeOK' /\ SlotKeysUnique'
    BY <1>4, <1>6 DEF NoFrame, NextSlots
  <2>2. /\ cursor = 0 /\ relayPc = "top" /\ now' = Later(now, k) /\ cursor' = 1
        /\ slots' = slots
    BY <1>6 DEF NoFrame, Timeout
  <2>3. \A i \in Used' : Heard(i)'
    BY <1>6, <2>2, HeardWaits DEF NoFrame, Used
  <2>4. unheard' \in [UasIds -> Nat] /\ PassInv' /\ PlanHeard'
    BY <1>6, <2>2, TableWaits DEF NoFrame
  <2> QED BY <2>1, <2>3, <2>4 DEF TableInv
<1>7. CASE EvictLoop
  <2>1. SlotsTypeOK' /\ SlotKeysUnique'
    BY <1>4, <1>7 DEF EvictLoop, NextSlots
  <2>2. /\ cursor' # 0 /\ cursor # 0 /\ now' = now /\ UNCHANGED <<radioVars, unheard>>
    BY <1>7, SlotsAssumption DEF EvictLoop, EvictSlot, TableInv, SlotsTypeOK
  <2>3. \A i \in Used' : Heard(i)'
    BY <1>7, HeardEvict DEF EvictLoop
  <2>4. Pending' = Pending
    BY <2>2 DEF Pending, radioVars
  <2> QED BY <2>1, <2>2, <2>3, <2>4 DEF TableInv, PassInv, PlanHeard, radioVars
<1>8. CASE EvictLast
  <2>1. SlotsTypeOK' /\ SlotKeysUnique'
    BY <1>4, <1>8 DEF EvictLast, NextSlots
  <2>2. \A i \in Used' : Heard(i)'
    BY <1>8, HeardEvict DEF EvictLast
  <2> QED BY <1>8, <2>1, <2>2, TableBegins DEF TableInv
<1> QED BY <1>1, <1>2, <1>3, <1>5, <1>6, <1>7, <1>8 DEF NextBle

LEMMA TableAlways ==
  ASSUME SilentTicks + MaxGap < TickMod
  PROVE  SpecBle => []TableInv
BY TableInit, TableStep, PTL DEF SpecBle

(* A drone only comes on the air while it is being heard.                   *)
LEMMA PlannedIsFresh ==
  ASSUME TableInv, AirMoves, onAir' # onAir, onAir' \notin {"off", "idle"}
  PROVE  onAir' \in UasIds /\ unheard[onAir'] <= SilentTicks
<1>1. onAir' \in plan.packs /\ cursor = 0
  BY DEF AirMoves
<1>2. Pending = 0
  BY <1>1, SinceSelf DEF Pending, TableInv, PassInv
<1> QED BY <1>1, <1>2, BleLimits DEF TableInv, PlanHeard

(* A Pack that comes on the air is of a drone from which a frame came       *)
(* within SilentTicks: neither an eviction nor a displacement nor a host    *)
(* task in between makes relay_task write what the table has let go.        *)
FreshShown ==
  [][onAir' # onAir /\ onAir' \in UasIds => unheard[onAir'] <= SilentTicks]_bleVars

(* For any number of slots and drones and any frames, with a position or    *)
(* without, empty ids and shared addresses included.                        *)
THEOREM OnlyFreshShown ==
  ASSUME "off" \notin UasIds, "idle" \notin UasIds, SilentTicks + MaxGap < TickMod
  PROVE  SpecBle => FreshShown
<1> DEFINE A == onAir' # onAir /\ onAir' \in UasIds => unheard[onAir'] <= SilentTicks
<1>1. TableInv /\ [NextBle]_bleVars => [A]_bleVars
  <2> SUFFICES ASSUME TableInv, NextBle, onAir' # onAir, onAir' \in UasIds
               PROVE  unheard[onAir'] <= SilentTicks
    OBVIOUS
  <2>1. RadioHalf \/ HostTask
    BY DEF NextBle, TakeFrame, NoFrame, EvictLoop, EvictLast, radioVars, Radio!BeginPass,
           Reboot, Radio!Restart
  <2> QED BY <2>1, RadioHalfMoves, HostTaskMoves, PlannedIsFresh
<1>2. SpecBle => [][A]_bleVars
  BY <1>1, TableAlways, PTL DEF SpecBle
<1> QED BY <1>2 DEF FreshShown

------------------------------------------------------------------------------
(***************************************************************************)
(* BleRelay implements RelayPromise.  The theorems of PackRadio_proofs are *)
(* about any set of plans; RP is that module for the plans a table makes   *)
(* when every frame has a position, so a wrong air is only there while     *)
(* writes fail and the watchdog bounds it.  What is on the air was in a    *)
(* plan not longer than a pass and stray ticks ago.                        *)
(***************************************************************************)

(* The plans a table of located slots makes. *)
Plans == {p \in AnyPlan : p.live => p.packs # {}}
RP == INSTANCE PackRadio_proofs WITH now <- radioNow

Located == \A i \in Used : HasLocation(slots[i].loc)

(* What is on the air although the pass does not broadcast it was heard a    *)
(* pass and the time it has been wrong beyond SilentTicks ago, at most.     *)
AirHeard ==
  onAir \in UasIds \ plan.packs =>
    unheard[onAir] <= SilentTicks + MaxGap + stray + Pending

BleInv ==
  /\ TableInv /\ Located
  /\ RP!FailureInv /\ RP!StrayInv
  /\ AirHeard

(* What the theorems assume: every frame has a position, the payloads have   *)
(* names of their own, and the limits fit the tick counter.                 *)
Given ==
  /\ \A f \in Frames : HasLocation(f.loc)
  /\ "off" \notin UasIds /\ "idle" \notin UasIds
  /\ SilentTicks + MaxGap < TickMod
  /\ Radio!Patience < TickMod

LEMMA SamePatience == RP!Patience = Radio!Patience
BY DEF RP!Patience, Radio!Patience

LEMMA PackAssumed == ASSUME Given PROVE RP!PackAssumption
<1>1. Plans \subseteq [live : BOOLEAN, packs : SUBSET UasIds]
  <2> SUFFICES ASSUME NEW p \in AnyPlan PROVE p \in [live : BOOLEAN, packs : SUBSET UasIds]
    BY DEF Plans
  <2>1. CASE p = [live |-> FALSE, packs |-> {}]
    BY <2>1
  <2>2. CASE p \in [live : {TRUE}, packs : SUBSET UasIds]
    BY <2>2
  <2> QED BY <2>1, <2>2 DEF AnyPlan
<1>2. \A p \in Plans : ~p.live => p = [live |-> FALSE, packs |-> {}]
  BY DEF Plans, AnyPlan
<1> QED BY <1>1, <1>2, BleLimits DEF RP!PackAssumption, RP!Plan, RP!IdlePlan, Given

(* The radio half, for the plans of located tables.                         *)
LEMMA RadioKept ==
  ASSUME Given
  PROVE  /\ RP!FailureInv /\ [RP!Next]_RP!packVars => RP!FailureInv'
         /\ RP!StrayInv /\ RP!FailureInv /\ RP!FailureInv' /\ [RP!Next]_RP!packVars
              => RP!StrayInv'
<1>1. RP!Patience < TickMod
  BY SamePatience DEF Given
<1>2. \A p \in Plans : p.live => p.packs # {}
  BY DEF Plans
<1>3. RP!FailureInv /\ [RP!Next]_RP!packVars => RP!FailureInv'
  BY <1>1, RP!FailureStep, PackAssumed, TickAssumption, RejectAssumption, RadioAssumption
<1>4. RP!StrayInv /\ RP!FailureInv /\ RP!FailureInv' /\ [RP!Next]_RP!packVars
        => RP!StrayInv'
  BY <1>2, RP!StrayStep, PackAssumed, TickAssumption, RejectAssumption, RadioAssumption
<1> QED BY <1>3, <1>4

LEMMA BleInit == ASSUME Given PROVE InitBle => BleInv
<1> SUFFICES ASSUME InitBle PROVE BleInv
  OBVIOUS
<1>1. TableInv /\ Located
  BY TableInit DEF Located, InitBle, InitSlots, Used, Free
<1>2. RP!Init
  BY DEF InitBle, RP!Init, Radio!Init, RP!IdlePlan, Radio!IdlePlan,
         RP!RadioFresh, Radio!RadioFresh, RP!Unset, Radio!Unset
<1>3. RP!FailureInv
  BY <1>2, RP!FailureInit, PackAssumed, TickAssumption, RejectAssumption, RadioAssumption
<1>4. RP!StrayInv
  BY <1>2, RP!StrayInit, PackAssumed, TickAssumption, RejectAssumption, RadioAssumption
<1>5. AirHeard
  BY DEF InitBle, Radio!Init, AirHeard, Given
<1> QED BY <1>1, <1>3, <1>4, <1>5 DEF BleInv

(* A table of located slots makes a plan with a Pack for every live slot.   *)
LEMMA LocatedPlan ==
  ASSUME NEW tab \in [Slots -> Slot],
         \A i \in Slots : tab[i].id # Blank => HasLocation(tab[i].loc)
  PROVE  /\ TablePlan(tab) \in Plans
         /\ TablePlan(tab).packs \subseteq UasIds
         /\ \A d \in TablePlan(tab).packs : \E i \in Slots : tab[i].id = d /\ d # Blank
<1> DEFINE live == {i \in Slots : tab[i].id # Blank /\ tab[i].hasBasic}
           packs == {tab[i].id : i \in live}
<1>1. {j \in live : HasLocation(tab[j].loc)} = live
  OBVIOUS
<1>2. TablePlan(tab) = [live |-> live # {}, packs |-> packs]
  BY <1>1 DEF TablePlan
<1>3. packs \subseteq UasIds /\ \A d \in packs : \E i \in Slots : tab[i].id = d /\ d # Blank
  BY DEF Slot, Ids
<1>4. live # {} => packs # {}
  OBVIOUS
<1>5. TablePlan(tab) \in AnyPlan
  <2>1. CASE live = {}
    <3>1. packs = {} /\ (live # {}) = FALSE
      BY <2>1
    <3> QED BY <1>2, <3>1 DEF AnyPlan
  <2>2. CASE live # {}
    <3>1. (live # {}) = TRUE /\ packs \in SUBSET UasIds
      BY <1>3, <2>2
    <3>2. [live |-> TRUE, packs |-> packs] \in [live : {TRUE}, packs : SUBSET UasIds]
      BY <3>1
    <3> QED BY <1>2, <3>1, <3>2 DEF AnyPlan
  <2> QED BY <2>1, <2>2
<1>6. TablePlan(tab).live = (live # {}) /\ TablePlan(tab).packs = packs
  BY <1>2
<1> HIDE DEF packs, live
<1>7. TablePlan(tab) \in Plans
  BY <1>4, <1>5, <1>6 DEF Plans
<1> QED BY <1>3, <1>6, <1>7

(* A step of the relay task or of the host task is one of the radio alone,  *)
(* with a plan of located slots, or none.                                   *)
LEMMA RadioPass ==
  ASSUME NEW p \in Plans, NEW k \in Gaps, Radio!BeginPass(p, k)
  PROVE  RP!Next
<1>1. RP!BeginPass(p, k)
  BY DEF Radio!BeginPass, RP!BeginPass, Radio!Later, RP!Later, Radio!Unset, RP!Unset,
         Radio!UpTo, RP!UpTo, Radio!Patience, RP!Patience, Radio!stackVars, RP!stackVars
<1> QED BY <1>1 DEF RP!Next, RP!Relay, RP!Gaps, Gaps

LEMMA RadioHalfNext ==
  ASSUME RadioHalf, todo \subseteq UasIds \cup {"idle"}
  PROVE  RP!Next
<1> USE DEF Radio!stackVars, RP!stackVars, Radio!taskVars, RP!taskVars,
            Radio!historyVars, RP!historyVars
<1>1. CASE Radio!Watchdog
  <2>1. Radio!RadioAssess(health, configured, radioNow) = RP!RadioAssess(health, configured, radioNow)
    BY DEF Radio!RadioAssess, RP!RadioAssess, Radio!RadioHealthy, RP!RadioHealthy,
           Radio!Overdue, RP!Overdue, Radio!Since, RP!Since, Radio!Unset, RP!Unset
  <2>2. Radio!RadioAction(health, configured, radioNow) = RP!RadioAction(health, configured, radioNow)
    BY <2>1 DEF Radio!RadioAction, RP!RadioAction, Radio!RadioHealthy, RP!RadioHealthy,
           Radio!Overdue, RP!Overdue, Radio!Since, RP!Since, Radio!Unset, RP!Unset
  <2>3. RP!Watchdog
    BY <1>1, <2>1, <2>2 DEF Radio!Watchdog, RP!Watchdog
  <2> QED BY <2>3 DEF RP!Next, RP!Relay
<1>2. CASE Radio!Remove
  <2>1. RP!Remove
    BY <1>2 DEF Radio!Remove, RP!Remove
  <2> QED BY <2>1 DEF RP!Next, RP!Relay
<1>3. CASE Radio!RemoveFails
  <2>1. RP!RemoveFails
    BY <1>3 DEF Radio!RemoveFails, RP!RemoveFails
  <2> QED BY <2>1 DEF RP!Next, RP!Relay
<1>4. CASE Radio!Configure
  <2>1. RP!Configure
    BY <1>4 DEF Radio!Configure, RP!Configure
  <2> QED BY <2>1 DEF RP!Next, RP!Relay
<1>5. CASE Radio!ConfigureFails
  <2>1. RP!ConfigureFails
    BY <1>5 DEF Radio!ConfigureFails, RP!ConfigureFails, Radio!RadioNoteReconfigure, RP!RadioNoteReconfigure
  <2> QED BY <2>1 DEF RP!Next, RP!Relay
<1>6. CASE Radio!Confirm
  <2>1. RP!Confirm
    BY <1>6 DEF Radio!Confirm, RP!Confirm, Radio!RadioNoteReconfigure, RP!RadioNoteReconfigure
  <2> QED BY <2>1 DEF RP!Next, RP!Relay
<1>7. CASE Radio!Write(NextPayload) \/ Radio!WriteFails(NextPayload)
  <2> DEFINE c == NextPayload
  <2>1. c \in RP!Payloads
    BY <1>7 DEF Radio!Write, Radio!WriteFails, RP!Payloads
  <2> HIDE DEF c
  <2>2. Radio!Write(c) => RP!Write(c)
    BY DEF Radio!Write, RP!Write, Radio!RadioNoteWrite, RP!RadioNoteWrite, Radio!Unset, RP!Unset
  <2>3. Radio!WriteFails(c) => RP!WriteFails(c)
    BY DEF Radio!WriteFails, RP!WriteFails, Radio!RadioNoteWrite, RP!RadioNoteWrite,
           Radio!Unset, RP!Unset
  <2>4. RP!Write(c) \/ RP!WriteFails(c)
    BY <1>7, <2>2, <2>3 DEF c
  <2> QED BY <2>1, <2>4 DEF RP!Next, RP!Relay
<1>8. CASE Radio!EndPass
  <2>1. RP!EndPass
    BY <1>8 DEF Radio!EndPass, RP!EndPass
  <2> QED BY <2>1 DEF RP!Next, RP!Relay
<1> QED BY <1>1, <1>2, <1>3, <1>4, <1>5, <1>6, <1>7, <1>8 DEF RadioHalf

LEMMA HostTaskNext == ASSUME HostTask PROVE RP!Next
<1> USE DEF Radio!stackVars, RP!stackVars, Radio!taskVars, RP!taskVars,
            Radio!historyVars, RP!historyVars, Radio!Spawn, RP!Spawn
<1>1. Radio!HostLost => RP!HostLost
  BY DEF Radio!HostLost, RP!HostLost
<1>2. Radio!OnReset => RP!OnReset
  BY DEF Radio!OnReset, RP!OnReset
<1>3. Radio!HostSync => RP!HostSync
  BY DEF Radio!HostSync, RP!HostSync
<1>4. Radio!SyncConfigure => RP!SyncConfigure
  BY DEF Radio!SyncConfigure, RP!SyncConfigure
<1>5. Radio!SyncConfigureFails => RP!SyncConfigureFails
  BY DEF Radio!SyncConfigureFails, RP!SyncConfigureFails
<1>6. Radio!SyncConfirm => RP!SyncConfirm
  BY DEF Radio!SyncConfirm, RP!SyncConfirm
<1> QED BY <1>1, <1>2, <1>3, <1>4, <1>5, <1>6 DEF HostTask, Radio!Host, RP!Host, RP!Next

LEMMA RebootNext == ASSUME Reboot PROVE RP!Next
<1>1. RP!Restart
  BY DEF Reboot, Radio!Restart, RP!Restart, Radio!RadioFresh, RP!RadioFresh,
         Radio!Unset, RP!Unset, Radio!IdlePlan, RP!IdlePlan
<1> QED BY <1>1 DEF RP!Next, RP!Relay


(* A wrong air ends before the next pass would take it beyond Patience.     *)
LEMMA StrayInTime ==
  ASSUME RP!FailureInv, RP!StrayInv, relayPc = "top",
         onAir \in UasIds \ plan.packs, NEW k \in Gaps
  PROVE  stray \in Nat /\ stray + k <= Radio!Patience
<1>1. RP!Unhealthy \in Int
  BY TickAssumption DEF RP!FailureInv, RP!RadioHealth, RP!Stamp, RP!Tick, RP!Unset,
                        RP!Unhealthy, RP!Since
<1>2. failFor > StaleWriteTicks =>
        failFor <= StaleWriteTicks + MaxGap + RP!Unhealthy /\ RP!Unhealthy <= RestartTicks
  BY DEF RP!FailureInv, RP!Looked
<1>3. stray \in Nat /\ (stray > 0 => failFor # RP!Unset /\ stray <= failFor)
  BY DEF RP!StrayInv, RP!Astray
<1>4. failFor \in Nat \cup {RP!Unset}
  BY DEF RP!FailureInv
<1>5. k \in Nat /\ k <= MaxGap
  BY BleLimits
<1>6. /\ StaleWriteTicks \in Nat /\ RestartTicks \in Nat /\ MaxGap \in Nat
      /\ Radio!Patience = StaleWriteTicks + RestartTicks + 2 * MaxGap
  BY RadioAssumption, BleLimits DEF Radio!Patience
<1>7. CASE stray = 0
  BY <1>3, <1>5, <1>6, <1>7
<1>8. CASE stray > 0
  <2>1. failFor \in Nat /\ stray <= failFor
    BY <1>3, <1>4, <1>8
  <2>2. failFor <= StaleWriteTicks + MaxGap + RestartTicks
    BY <1>1, <1>2, <1>6, <2>1
  <2> QED BY <1>3, <1>5, <1>6, <2>1, <2>2
<1> QED BY <1>3, <1>7, <1>8

(* Ticks pass at the queue: what is on the air stays within GoneTicks.      *)
LEMMA AirWaits ==
  ASSUME BleInv, cursor = 0, relayPc = "top",
         NEW k \in Gaps, NEW heard, Unheard(k, heard),
         now' = Later(now, k), cursor' # 0, UNCHANGED radioVars
  PROVE  AirHeard' /\ (onAir \in UasIds => unheard'[onAir] <= GoneTicks)
<1> USE DEF radioVars
<1>1. /\ TableInv /\ k \in Nat /\ k <= MaxGap /\ Pending = 0 /\ Pending' = k
      /\ unheard \in [UasIds -> Nat] /\ unheard' \in [UasIds -> Nat]
      /\ \A d \in UasIds : unheard'[d] <= unheard[d] + k
  BY BleLimits, TableWaits DEF BleInv, TableInv
<1>2. ASSUME onAir \in UasIds \ plan.packs
      PROVE  /\ unheard'[onAir] <= SilentTicks + MaxGap + stray + k
             /\ unheard'[onAir] <= GoneTicks
  <2>1. stray \in Nat /\ stray + k <= Radio!Patience
    BY <1>2, StrayInTime DEF BleInv
  <2>2. unheard[onAir] <= SilentTicks + MaxGap + stray
    BY <1>1, <1>2, <2>1, BleLimits DEF BleInv, AirHeard
  <2>3. unheard[onAir] \in Nat /\ unheard'[onAir] \in Nat /\ unheard'[onAir] <= unheard[onAir] + k
    BY <1>1, <1>2
  <2> QED BY <1>1, <2>1, <2>2, <2>3, BleLimits
<1>3. AirHeard'
  BY <1>1, <1>2 DEF AirHeard
<1>4. ASSUME onAir \in UasIds, onAir \in plan.packs
      PROVE  unheard'[onAir] <= GoneTicks
  <2>1. unheard[onAir] \in Nat /\ unheard[onAir] <= SilentTicks
        /\ unheard'[onAir] \in Nat /\ unheard'[onAir] <= unheard[onAir] + k
    BY <1>1, <1>4, BleLimits DEF TableInv, PlanHeard
  <2> QED BY <1>1, <2>1, BleLimits
<1> QED BY <1>2, <1>3, <1>4

(* Where a pass begins the radio takes up a plan of located slots, and what  *)
(* the plan has dropped becomes a wrong air.                                *)
LEMMA AirBegins ==
  ASSUME BleInv, EvictLast, SlotsTypeOK', Located', \A i \in Used' : Heard(i)'
  PROVE  RP!Next /\ (RP!StrayInv' => AirHeard')
<1>1. /\ TableInv /\ unheard' = unheard /\ unheard \in [UasIds -> Nat]
      /\ Pending' = 0 /\ Radio!BeginPass(TablePlan(slots'), Pending)
  BY TableBegins DEF BleInv, TableInv
<1>2. Pending \in Gaps /\ Pending \in Nat /\ Pending <= MaxGap
  BY <1>1, BleLimits, SlotsAssumption DEF EvictLast, TableInv, PassInv
<1>3. TablePlan(slots') \in Plans
  <2>1. \A i \in Slots : slots'[i].id # Blank => HasLocation(slots'[i].loc)
    BY DEF Located, Used
  <2> QED BY <2>1, LocatedPlan DEF SlotsTypeOK
<1>4. RP!Next
  BY <1>1, <1>2, <1>3, RadioPass
<1>5. /\ relayPc = "top" /\ onAir' = onAir
      /\ stray' = IF onAir \in UasIds \ plan.packs THEN Radio!UpTo(stray + Pending) ELSE 0
  BY <1>1 DEF Radio!BeginPass
<1>6. ASSUME RP!StrayInv', onAir \in UasIds
      PROVE  unheard[onAir] <= SilentTicks + MaxGap + stray'
  <2>1. stray' \in Nat /\ unheard[onAir] \in Nat
    BY <1>1, <1>6 DEF RP!StrayInv
  <2>2. CASE onAir \in plan.packs
    <3>1. unheard[onAir] <= SilentTicks + Pending
      BY <1>1, <2>2 DEF TableInv, PlanHeard
    <3> QED BY <1>2, <2>1, <3>1, BleLimits
  <2>3. CASE onAir \notin plan.packs
    <3>1. stray \in Nat /\ stray + Pending <= Radio!Patience
      BY <1>2, <1>5, <1>6, <2>3, StrayInTime DEF BleInv
    <3>2. stray' = stray + Pending
      BY <1>2, <1>5, <1>6, <2>3, <3>1 DEF Radio!UpTo
    <3>3. unheard[onAir] <= SilentTicks + MaxGap + stray + Pending
      BY <1>6, <2>3 DEF BleInv, AirHeard
    <3> QED BY <1>2, <2>1, <3>1, <3>2, <3>3, BleLimits
  <2> QED BY <2>2, <2>3
<1>7. RP!StrayInv' => AirHeard'
  <2>1. RP!StrayInv' => stray' \in Nat
    BY DEF RP!StrayInv
  <2> QED BY <1>1, <1>5, <1>6, <2>1, BleLimits DEF AirHeard
<1> QED BY <1>4, <1>7

LEMMA AirMoved ==
  ASSUME Given, BleInv, AirMoves
  PROVE  Located' /\ AirHeard'
<1>1. UNCHANGED <<slots, unheard, plan, stray>> /\ Pending' = Pending
  BY TableMoved DEF AirMoves, slotVars, BleInv
<1>2. onAir' \in UasIds \ plan.packs => onAir' = onAir
  BY DEF AirMoves, Given
<1> QED BY <1>1, <1>2 DEF BleInv, Located, Used, AirHeard

(* A slot gets its position from every frame it takes.                      *)
LEMMA LocatedStep ==
  ASSUME Given, TableInv, Located, [NextBle]_bleVars
  PROVE  Located'
<1> SUFFICES ASSUME NEW i \in Slots, slots'[i].id # Blank
             PROVE  HasLocation(slots'[i].loc)
  BY DEF Located, Used
<1>1. CASE slots'[i] = slots[i]
  BY <1>1 DEF Located, Used
<1>2. ASSUME NEW f \in Frames, NEW k \in Gaps, TakeFrame(f, k)
      PROVE  HasLocation(slots'[i].loc)
  <2> DEFINE t == Later(now, k)
             o == Owner(f, t)
  <2>1. SlotsTypeOK /\ t \in Tick /\ now' = t
    BY <1>2, LaterTick DEF TakeFrame, Receive, TableInv, SlotsTypeOK
  <2>2. CASE Accepted(f, t) /\ i = o
    <3>1. slots'[i] = Merge(Resolved(f, o), f, t) /\ Resolved(f, o) \in Slot
      BY <1>2, <2>1, <2>2, ResolvedType DEF TakeFrame, Receive, Absorb, SlotsTypeOK
    <3>2. HasLocation(f.loc)
      BY DEF Given
    <3> QED BY <3>1, <3>2 DEF Merge, MergeFields, Slot
  <2>3. CASE ~(Accepted(f, t) /\ i = o)
    BY <1>1, <1>2, <2>1, <2>3 DEF TakeFrame, Receive, Absorb, SlotsTypeOK
  <2> QED BY <2>2, <2>3
<1>3. CASE EvictSlot
  BY <1>1, <1>3 DEF EvictSlot, TableInv, SlotsTypeOK, Free
<1>4. CASE Reboot
  BY <1>4 DEF Reboot, Free
<1>5. CASE slots' = slots
  BY <1>1, <1>5
<1> QED BY <1>2, <1>3, <1>4, <1>5 DEF NextBle, NoFrame, Timeout, EvictLoop, EvictLast,
        RadioHalf, HostTask, bleVars, slotVars

(* Every step is a step of the radio's own specification, or leaves it alone *)
(* so what PackRadio_proofs says of the radio holds here.                   *)
LEMMA BleRadioStep ==
  ASSUME BleInv, [NextBle]_bleVars, TableInv', Located'
  PROVE  [RP!Next]_RP!packVars
<1>1. CASE UNCHANGED radioVars
  BY <1>1 DEF radioVars, RP!packVars
<1>2. CASE EvictLast
  BY <1>2, AirBegins DEF TableInv
<1>3. CASE RadioHalf
  <2>1. todo \subseteq UasIds \cup {"idle"}
    BY DEF BleInv, TableInv, PlanHeard
  <2> QED BY <1>3, <2>1, RadioHalfNext
<1>4. CASE HostTask \/ Reboot
  BY <1>4, HostTaskNext, RebootNext
<1> QED BY <1>1, <1>2, <1>3, <1>4 DEF NextBle, TakeFrame, NoFrame, EvictLoop, bleVars

LEMMA BleStep ==
  ASSUME Given
  PROVE  BleInv /\ [NextBle]_bleVars => BleInv'
<1> SUFFICES ASSUME BleInv, [NextBle]_bleVars PROVE BleInv'
  OBVIOUS
<1>1. TableInv'
  BY TableStep DEF Given, BleInv
<1>2. Located'
  BY LocatedStep DEF BleInv
<1>3. RP!FailureInv' /\ RP!StrayInv'
  BY <1>1, <1>2, BleRadioStep, RadioKept DEF BleInv
<1>4. AirHeard'
  <2>1. CASE UNCHANGED bleVars
    <3>1. AirMoves
      BY <2>1 DEF bleVars, radioVars, AirMoves, BleInv, TableInv, PassInv
    <3> QED BY <3>1, AirMoved
  <2>2. CASE RadioHalf \/ HostTask
    BY <2>2, RadioHalfMoves, HostTaskMoves, AirMoved DEF BleInv
  <2>3. ASSUME NEW f \in Frames, NEW k \in Gaps, TakeFrame(f, k)
        PROVE  AirHeard'
    <3>1. cursor = 0 /\ relayPc = "top" /\ now' = Later(now, k) /\ cursor' # 0
      BY <2>3 DEF TakeFrame, Receive
    <3> QED BY <2>3, <3>1, AirWaits DEF TakeFrame
  <2>4. ASSUME NEW k \in Gaps, NoFrame(k)
        PROVE  AirHeard'
    <3>1. cursor = 0 /\ relayPc = "top" /\ now' = Later(now, k) /\ cursor' # 0
      BY <2>4 DEF NoFrame, Timeout
    <3> QED BY <2>4, <3>1, AirWaits DEF NoFrame
  <2>5. CASE EvictLoop
    <3>1. UNCHANGED <<radioVars, unheard, now>>
      BY <2>5 DEF EvictLoop, EvictSlot
    <3> QED BY <3>1 DEF BleInv, AirHeard, Pending, radioVars
  <2>6. CASE EvictLast
    BY <1>1, <1>2, <1>3, <2>6, AirBegins DEF TableInv
  <2>7. CASE Reboot
    BY <2>7 DEF Reboot, Radio!Restart, AirHeard, Given
  <2> QED BY <2>1, <2>2, <2>3, <2>4, <2>5, <2>6, <2>7 DEF NextBle
<1> QED BY <1>1, <1>2, <1>3, <1>4 DEF BleInv

LEMMA BleAlways == ASSUME Given PROVE SpecBle => []BleInv
BY BleInit, BleStep, PTL DEF SpecBle

------------------------------------------------------------------------------
(* Each step of the relay task is one the promise allows, or none of its    *)
(* business.                                                                *)
LEMMA PromiseStep ==
  ASSUME Given, BleInv, BleInv', [NextBle]_bleVars
  PROVE  [Promise!Next]_Promise!promiseVars
<1> USE DEF Promise!promiseVars
<1>1. CASE UNCHANGED <<onAir, unheard>>
  BY <1>1
<1>2. ASSUME NEW k \in Gaps, NEW heard \in SUBSET UasIds, Unheard(k, heard),
             cursor = 0, relayPc = "top", now' = Later(now, k), cursor' # 0,
             UNCHANGED radioVars
      PROVE  Promise!Next
  <2>1. onAir \in UasIds => unheard'[onAir] <= GoneTicks
    BY <1>2, AirWaits
  <2>2. \A n : Promise!UpTo(n) = UpToGone(n)
    BY DEF Promise!UpTo, UpToGone
  <2>3. unheard' = [d \in UasIds |-> IF d \in heard THEN 0 ELSE Promise!UpTo(unheard[d] + k)]
    BY <1>2, <2>2 DEF Unheard
  <2>4. Promise!Listen(heard, k)
    BY <1>2, <2>1, <2>3 DEF Promise!Listen, radioVars
  <2> QED BY <2>4 DEF Promise!Next
<1>3. ASSUME NEW f \in Frames, NEW k \in Gaps, TakeFrame(f, k)
      PROVE  Promise!Next
  <2> DEFINE o == Owner(f, now')
             heard == IF Accepted(f, now') THEN {slots'[o].id} ELSE {}
  <2>1. cursor = 0 /\ relayPc = "top" /\ now' = Later(now, k) /\ cursor' # 0 /\ now' \in Tick
    BY <1>3 DEF TakeFrame, Receive, BleInv, TableInv, SlotsTypeOK
  <2>2. Accepted(f, now') => slots'[o].id \in UasIds
    <3>1. SUFFICES ASSUME Accepted(f, now') PROVE slots'[o].id \in UasIds
      OBVIOUS
    <3>2. o \in Slots /\ SlotsTypeOK /\ Resolved(f, o) \in Slot
      BY <2>1, <3>1, OwnerType, ResolvedType DEF Accepted, BleInv, TableInv
    <3>3. slots'[o] = Merge(Resolved(f, o), f, now')
      BY <1>3, <2>1, <3>1, <3>2 DEF TakeFrame, Receive, Absorb, SlotsTypeOK
    <3>4. slots'[o].id = Resolved(f, o).id
      BY <2>1, <3>2, <3>3, MergeKeepsKey
    <3>5. Resolved(f, o).id # Blank
      <4>1. CASE Named(f)
        BY <3>2, <4>1, FreeType DEF Resolved, Named, SlotsTypeOK, Slot
      <4>2. CASE ~Named(f)
        <5> DEFINE near == {i \in Used : slots[i].mac = f.mac}
        <5>1. near # {} /\ o = First(near)
          BY <3>2, <4>2, SlotsInNat DEF Owner
        <5>2. near \in SUBSET Nat
          BY SlotsInNat DEF Used
        <5>3. o \in Used
          BY <5>1, <5>2, FirstIsLeast
        <5> QED BY <4>2, <5>3 DEF Resolved, Used
      <4> QED BY <4>1, <4>2
    <3> QED BY <3>2, <3>4, <3>5 DEF Slot, Ids
  <2>3. heard \in SUBSET UasIds
    BY <2>2
  <2>4. Unheard(k, heard) /\ UNCHANGED radioVars
    BY <1>3 DEF TakeFrame
  <2> HIDE DEF heard
  <2> QED BY <1>2, <2>1, <2>3, <2>4
<1>4. ASSUME NEW k \in Gaps, NoFrame(k)
      PROVE  Promise!Next
  BY <1>2, <1>4 DEF NoFrame, Timeout
<1>5. CASE EvictLoop \/ EvictLast
  BY <1>1, <1>5 DEF EvictLoop, EvictLast, radioVars, Radio!BeginPass
<1>6. CASE RadioHalf \/ HostTask
  <2>1. TableInv /\ AirMoves
    BY <1>6, RadioHalfMoves, HostTaskMoves DEF BleInv
  <2>2. CASE onAir' \in {"off", "idle"}
    BY <2>1, <2>2 DEF AirMoves, Promise!Next, Promise!Hide
  <2>3. CASE onAir' = onAir
    BY <1>1, <2>1, <2>3 DEF AirMoves
  <2>4. CASE onAir' # onAir /\ onAir' \notin {"off", "idle"}
    <3>1. \E d \in UasIds : Promise!Show(d)
      BY <2>1, <2>4, PlannedIsFresh DEF AirMoves, Promise!Show
    <3> QED BY <3>1 DEF Promise!Next
  <2> QED BY <2>2, <2>3, <2>4
<1>7. CASE Reboot
  BY <1>7 DEF Reboot, Radio!Restart, Promise!Next, Promise!Restart, Promise!AllHeard
<1> QED BY <1>1, <1>3, <1>4, <1>5, <1>6, <1>7 DEF NextBle, bleVars, radioVars

(* What handle 1 radiates, through evictions, displacements, host resets,   *)
(* failed commands and restarts, is what RelayPromise allows: a Pack goes   *)
(* on the air only for a drone heard within SilentTicks, and no drone stays *)
(* there longer than that, one pass and Patience after it fell silent.  For *)
(* any number of slots and drones and any frames that have a position, if   *)
(* these limits are shorter than a turn of the tick counter; BleStray shows *)
(* that frames without a position break it.                                 *)
THEOREM RelayKeepsPromise ==
  ASSUME \A f \in Frames : HasLocation(f.loc),
         "off" \notin UasIds, "idle" \notin UasIds,
         SilentTicks + MaxGap < TickMod, Radio!Patience < TickMod
  PROVE  SpecBle => KeepsPromise
<1>1. Given
  BY DEF Given
<1>2. InitBle => Promise!Init
  BY DEF InitBle, Radio!Init, Promise!Init, Promise!AllHeard
<1>3. BleInv /\ BleInv' /\ [NextBle]_bleVars => [Promise!Next]_Promise!promiseVars
  BY <1>1, PromiseStep
<1>4. SpecBle => []BleInv
  BY <1>1, BleAlways
<1> QED BY <1>2, <1>3, <1>4, PTL DEF SpecBle, KeepsPromise, Promise!Spec

(* Under the same assumptions the controller does not keep emitting a drone *)
(* that is no longer in the table, as the comment above                     *)
(* advertise_pack_idle_placeholder says: it is gone within Patience.        *)
THEOREM EvictedGoesOff ==
  ASSUME \A f \in Frames : HasLocation(f.loc),
         "off" \notin UasIds, "idle" \notin UasIds,
         SilentTicks + MaxGap < TickMod, Radio!Patience < TickMod
  PROVE  SpecBle => []EvictedOverwritten
<1>1. Given
  BY DEF Given
<1>2. BleInv => EvictedOverwritten
  BY SamePatience DEF BleInv, RP!StrayInv, EvictedOverwritten, Radio!StrayBounded
<1>3. SpecBle => []BleInv
  BY <1>1, BleAlways
<1> QED BY <1>2, <1>3, PTL
==============================================================================
