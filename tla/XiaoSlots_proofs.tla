--------------------------- MODULE XiaoSlots_proofs ---------------------------
(***************************************************************************)
(* OwnOperator for any table, drones, addresses and frames that agree on   *)
(* whose an address is.  The saved position outlives the frames it came    *)
(* from and is put in where none came, so the invariant follows a slot's   *)
(* address, position, operator position and saved position together.       *)
(* Then ImplementsRelaySlots for any table, frames and limits, over any    *)
(* number of turns of the tick counter.                                    *)
(***************************************************************************)
EXTENDS XiaoSlots, WellFoundedInduction, TLAPS

(* A frame tells its own drone's position and operator; one without a Basic *)
(* ID is from the drone that the named frames of its address name.          *)
Telling(f, d) == (f.hasLoc => f.loc.of = d) /\ (f.sys # NoSystem => f.sys.of = d)

Truthful ==
  /\ \A f \in Frames : f.hasId => f.id # Blank /\ Telling(f, f.id)
  /\ \A f, g \in Frames :
       ~f.hasId /\ g.hasId /\ f.mac = g.mac => Telling(f, g.id)

Slot == [id : Ids, mac : Macs \cup {Blank}, hasBasic : BOOLEAN, basic : Ids,
         hasLoc : BOOLEAN, loc : [of : Ids, air : BOOLEAN], sys : System,
         saved : System, last : Nat, air : Nat, gnd : Nat, flown : BOOLEAN]

(* What a slot of drone d may hold while a frame is merged: an operator     *)
(* position of the frame is kept until its coordinates are checked.         *)
Holds(s, d) ==
  /\ s \in Slot
  /\ s.hasLoc => s.loc.of = d
  /\ s.sys # NoSystem => s.sys.of = d
  /\ s.saved # NoSystem => s.saved.of = d /\ s.saved.src # "invalid"

Checked(s) == s.sys # NoSystem => s.sys.src # "invalid"

(* A named frame has claimed the slot for its drone and its address.        *)
Claimed(s) == \E g \in Frames : g.hasId /\ g.id = s.id /\ g.mac = s.mac

XiaoInv ==
  /\ slots \in [Slots -> Slot] /\ now \in Nat
  /\ \A i \in Slots : slots[i].id = Blank => slots[i] = Free
  /\ \A i \in Used :
       Claimed(slots[i]) /\ Holds(slots[i], slots[i].id) /\ Checked(slots[i])

LEMMA LeastSlot ==
  ASSUME NEW S \in SUBSET Slots, S # {}
  PROVE  First(S) \in S
<1> DEFINE R == OpToRel(<, Nat)
<1>1. IsWellFoundedOn(R, Nat)
  BY NatLessThanWellFounded
<1>2. S \in SUBSET Nat
  BY XiaoAssumption DEF Slots
<1>3. \E i \in S : \A j \in S : ~(<<j, i>> \in R)
  BY <1>2, <1>1, WFMin
<1>4. \A i, j \in Nat : <<j, i>> \in R <=> j < i
  BY DEF OpToRel
<1>5. \E i \in S : \A j \in S : i <= j
  <2>1. PICK i \in S : \A j \in S : ~(<<j, i>> \in R)
    BY <1>3
  <2>2. \A j \in S : ~(j < i)
    BY <1>2, <1>4, <2>1
  <2>3. i \in S
    BY <2>1
  <2>4. \A j \in S : i <= j
    BY <1>2, <2>2, <2>3
  <2> QED BY <2>3, <2>4
<1> QED BY <1>5 DEF First

LEMMA FreeSlot == Free \in Slot /\ \A d : Holds(Free, d) /\ Checked(Free)
<1>1. NoSystem \in System /\ NoLocation \in [of : Ids, air : BOOLEAN]
  BY DEF System, NoLocation, Ids
<1>2. Free \in Slot
  BY <1>1 DEF Free, Slot, Never, Ids
<1> QED BY <1>2 DEF Holds, Checked, Free

(* The tick a pass works with, the same in both tables.                     *)
LEMMA LaterTick ==
  ASSUME NEW n \in Nat, NEW k \in Gaps
  PROVE  Later(n, k) \in Nat /\ Wsw!Later(n, k) = Later(n, k)
BY XiaoAssumption DEF Later, Wsw!Later, Gaps

LEMMA FrameType ==
  ASSUME NEW f \in Frames
  PROVE  /\ f.hasId \in BOOLEAN /\ f.id \in Ids /\ f.mac \in Macs
         /\ f.hasLoc \in BOOLEAN /\ f.loc \in [of : Ids, air : BOOLEAN]
         /\ f.sys \in System
         /\ ~f.hasId => f.id = Blank
BY XiaoAssumption DEF Frame

------------------------------------------------------------------------------
(* merge_into_slot, one rule at a time.                                     *)

LEMMA FieldsHold ==
  ASSUME NEW d, NEW s, Holds(s, d), NEW f \in Frames, Telling(f, d), NEW t \in Nat
  PROVE  LET m == MergeFields(s, f, t)
         IN  Holds(m, d) /\ m.id = s.id /\ m.mac = s.mac
<1> DEFINE m == MergeFields(s, f, t)
<1>1. s \in Slot
  BY DEF Holds
<1>2. /\ m.id = s.id /\ m.mac = s.mac /\ m.saved = s.saved
      /\ m.hasLoc = (s.hasLoc \/ f.hasLoc) /\ m.loc = IF f.hasLoc THEN f.loc ELSE s.loc
      /\ m.sys = IF f.sys # NoSystem THEN f.sys ELSE s.sys
  BY <1>1 DEF MergeFields, Slot
<1>3. m \in Slot
  <2>1. /\ (s.hasBasic \/ f.hasId) \in BOOLEAN /\ (s.hasLoc \/ f.hasLoc) \in BOOLEAN
        /\ (IF f.hasId THEN f.id ELSE s.basic) \in Ids
        /\ (IF f.hasLoc THEN f.loc ELSE s.loc) \in [of : Ids, air : BOOLEAN]
        /\ (IF f.sys # NoSystem THEN f.sys ELSE s.sys) \in System
    BY <1>1, FrameType DEF Slot
  <2> QED BY <1>1, <2>1 DEF MergeFields, Slot
<1> QED BY <1>2, <1>3 DEF Holds, Telling

LEMMA CheckHolds ==
  ASSUME NEW d, NEW s, Holds(s, d)
  PROVE  LET m == CheckSystem(s)
         IN  Holds(m, d) /\ Checked(m) /\ m.id = s.id /\ m.mac = s.mac
<1> DEFINE m == CheckSystem(s)
<1>1. s \in Slot /\ NoSystem \in System
  BY DEF Holds, System
<1>2. CASE s.sys = NoSystem
  BY <1>2 DEF CheckSystem, Checked
<1>3. CASE s.sys # NoSystem /\ ~s.hasBasic
  BY <1>1, <1>3 DEF CheckSystem, Checked, Holds, Slot
<1>4. CASE s.sys # NoSystem /\ s.hasBasic /\ s.sys.src # "invalid"
  <2>1. m = [s EXCEPT !.saved = IF @ = NoSystem THEN s.sys ELSE @]
    BY <1>4 DEF CheckSystem
  <2>2. m \in Slot
    BY <1>1, <2>1 DEF Slot
  <2> QED BY <1>1, <1>4, <2>1, <2>2 DEF Checked, Holds, Slot
<1>5. CASE s.sys # NoSystem /\ s.hasBasic /\ s.sys.src = "invalid"
  BY <1>1, <1>5 DEF CheckSystem, Checked, Holds, Slot
<1> QED BY <1>2, <1>3, <1>4, <1>5

LEMMA FallBackHolds ==
  ASSUME NEW d, NEW s, Holds(s, d), Checked(s)
  PROVE  LET m == FallBack(s)
         IN  Holds(m, d) /\ Checked(m) /\ m.id = s.id /\ m.mac = s.mac
<1> DEFINE own == [of |-> s.loc.of, src |-> "drone"]
<1>1. s \in Slot
  BY DEF Holds
<1>2. CASE s.saved = NoSystem /\ s.hasBasic /\ Airborne(s)
  <2>1. own \in System /\ s.loc.of = d
    BY <1>1, <1>2 DEF System, Airborne, Holds, Slot
  <2>2. FallBack(s) = [s EXCEPT !.saved = own]
    BY <1>2 DEF FallBack
  <2> QED BY <1>1, <2>1, <2>2 DEF Holds, Checked, Slot
<1>3. CASE ~(s.saved = NoSystem /\ s.hasBasic /\ Airborne(s))
  BY <1>3 DEF FallBack
<1> QED BY <1>2, <1>3

LEMMA FillHolds ==
  ASSUME NEW d, NEW s, Holds(s, d), Checked(s)
  PROVE  LET m == FillSystem(s)
         IN  Holds(m, d) /\ Checked(m) /\ m.id = s.id /\ m.mac = s.mac
BY DEF FillSystem, Holds, Checked, Slot

LEMMA FlightHolds ==
  ASSUME NEW d, NEW s, Holds(s, d), Checked(s), NEW t \in Nat
  PROVE  LET m == NoteFlight(s, t)
         IN  Holds(m, d) /\ Checked(m) /\ m.id = s.id /\ m.mac = s.mac
<1>1. s \in Slot /\ Never \in Nat
  BY DEF Holds, Never
<1>2. NoteFlight(s, t) \in Slot
  BY <1>1 DEF NoteFlight, Slot
<1> QED BY <1>1, <1>2 DEF NoteFlight, Holds, Checked, Slot

LEMMA MergeHolds ==
  ASSUME NEW d, NEW s, Holds(s, d), NEW f \in Frames, Telling(f, d), NEW t \in Nat
  PROVE  LET m == Merge(s, f, t)
         IN  Holds(m, d) /\ Checked(m) /\ m.id = s.id /\ m.mac = s.mac
<1> DEFINE a == MergeFields(s, f, t)
           b == CheckSystem(a)
           c == FallBack(b)
           e == FillSystem(c)
<1>1. Holds(a, d) /\ a.id = s.id /\ a.mac = s.mac
  BY FieldsHold
<1> HIDE DEF a
<1>2. Holds(b, d) /\ Checked(b) /\ b.id = s.id /\ b.mac = s.mac
  BY <1>1, CheckHolds
<1> HIDE DEF b
<1>3. Holds(c, d) /\ Checked(c) /\ c.id = s.id /\ c.mac = s.mac
  BY <1>2, FallBackHolds
<1> HIDE DEF c
<1>4. Holds(e, d) /\ Checked(e) /\ e.id = s.id /\ e.mac = s.mac
  BY <1>3, FillHolds
<1> HIDE DEF e
<1>5. Merge(s, f, t) = NoteFlight(e, t)
  BY DEF Merge, a, b, c, e
<1> QED BY <1>4, <1>5, FlightHolds

------------------------------------------------------------------------------
LEMMA ReceiveOwn ==
  ASSUME XiaoInv, Truthful, NEW f \in Frames, NEW k \in Gaps, Receive(f, k)
  PROVE  XiaoInv'
<1> DEFINE t == Later(now, k)
<1>1. t \in Nat
  BY LaterTick DEF XiaoInv
<1>2. PICK o : o = Owner(f, t)
  OBVIOUS
<1> DEFINE r == Resolved(f, o)
<1>3. now' = t /\ slots' = IF o = 0 THEN slots ELSE [slots EXCEPT ![o] = Merge(r, f, t)]
  BY <1>2 DEF Receive, Advance, Absorb
<1>4. CASE o \notin Slots
  BY <1>1, <1>3, <1>4 DEF XiaoInv, Used
<1>5. ASSUME o \in Slots
      PROVE  Holds(r, r.id) /\ r.id # Blank /\ Claimed(r) /\ Telling(f, r.id)
  <2>1. o # 0
    BY <1>5 DEF Slots
  <2>2. CASE Named(f)
    <3>1. f.hasId /\ f.id # Blank /\ f.id \in Ids /\ f.mac \in Macs /\ Telling(f, f.id)
      BY <2>2, FrameType DEF Named, Truthful
    <3>2. Holds(IF slots[o].id = f.id THEN slots[o] ELSE Free, f.id)
      BY <1>5, <3>1, FreeSlot DEF XiaoInv, Used
    <3>3. Holds(r, f.id) /\ r.id = f.id /\ r.mac = f.mac
      BY <2>2, <3>1, <3>2 DEF Resolved, Holds, Slot
    <3> QED BY <3>1, <3>3 DEF Claimed
  <2>3. CASE ~Named(f)
    <3> DEFINE near == {i \in Used : slots[i].mac = f.mac}
    <3>1. near # {} /\ o = First(near) /\ near \in SUBSET Slots
      BY <1>2, <2>1, <2>3 DEF Owner, Used
    <3>2. o \in Used /\ slots[o].mac = f.mac
      BY <3>1, LeastSlot
    <3>3. PICK g \in Frames : g.hasId /\ g.id = slots[o].id /\ g.mac = f.mac
      BY <3>2 DEF XiaoInv, Claimed
    <3>4. Telling(f, slots[o].id)
      BY <2>3, <3>3 DEF Truthful, Named
    <3>5. r = slots[o]
      BY <2>3 DEF Resolved
    <3> QED BY <3>2, <3>4, <3>5 DEF XiaoInv, Used
  <2> QED BY <2>2, <2>3
<1>6. CASE o \in Slots
  <2>1. PICK m : m = Merge(r, f, t)
    OBVIOUS
  <2>2. Holds(m, m.id) /\ Checked(m) /\ m.id # Blank /\ Claimed(m)
    <3>1. Holds(m, r.id) /\ Checked(m) /\ m.id = r.id /\ m.mac = r.mac
      BY <1>1, <1>5, <1>6, <2>1, MergeHolds
    <3> QED BY <1>5, <1>6, <3>1 DEF Claimed
  <2>3. slots' = [slots EXCEPT ![o] = m]
    BY <1>3, <1>6, <2>1 DEF Slots
  <2>4. slots' \in [Slots -> Slot]
    BY <2>2, <2>3 DEF XiaoInv, Holds
  <2>5. \A i \in Slots : slots'[i] = IF i = o THEN m ELSE slots[i]
    BY <2>3 DEF XiaoInv
  <2> QED BY <1>1, <1>3, <2>2, <2>4, <2>5 DEF XiaoInv, Used
<1> QED BY <1>4, <1>6

LEMMA EvictOwn ==
  ASSUME XiaoInv, EvictSlot
  PROVE  XiaoInv'
<1>1. now' = now
  BY DEF EvictSlot
<1>2. \A i \in Slots : slots'[i] = slots[i] \/ slots'[i] = Free
  BY DEF EvictSlot, XiaoInv
<1>3. slots' \in [Slots -> Slot]
  BY FreeSlot DEF EvictSlot, XiaoInv
<1>4. Free.id = Blank
  BY DEF Free
<1> QED BY <1>1, <1>2, <1>3, <1>4 DEF XiaoInv, Used

LEMMA XiaoAlways ==
  ASSUME Truthful
  PROVE  Spec => []XiaoInv
<1>1. Init => XiaoInv
  BY FreeSlot DEF Init, XiaoInv, Used, Free
<1>2. XiaoInv /\ [Next]_xiaoVars => XiaoInv'
  <2> SUFFICES ASSUME XiaoInv, [Next]_xiaoVars PROVE XiaoInv'
    OBVIOUS
  <2>1. ASSUME NEW k \in Gaps, Timeout(k) PROVE XiaoInv'
    <3>1. Later(now, k) \in Nat
      BY LaterTick DEF XiaoInv
    <3> QED BY <2>1, <3>1 DEF Timeout, Advance, XiaoInv, Used
  <2>2. ASSUME NEW f \in Frames, NEW k \in Gaps, Panic(f, k) PROVE XiaoInv'
    <3>1. \A i \in Slots : slots'[i] = Free
      BY <2>2 DEF Panic
    <3>2. slots' \in [Slots -> Slot] /\ now' \in Nat /\ Free.id = Blank
      BY <2>2, FreeSlot DEF Panic, Free
    <3> QED BY <3>1, <3>2 DEF XiaoInv, Used
  <2>3. CASE UNCHANGED xiaoVars
    BY <2>3 DEF xiaoVars, XiaoInv, Used
  <2> QED BY <2>1, <2>2, <2>3, ReceiveOwn, EvictOwn DEF Next
<1> QED BY <1>1, <1>2, PTL DEF Spec

(* What a slot of the XIAO broadcasts as the operator's position, or keeps  *)
(* to fall back on, is its drone's and passed the check of the coordinates, *)
(* through any claims, displacements and evictions.                         *)
THEOREM OperatorsOwn ==
  ASSUME Truthful
  PROVE  Spec => []OwnOperator
<1>1. XiaoInv => OwnOperator
  BY DEF XiaoInv, Holds, Checked, OwnOperator
<1> QED BY <1>1, XiaoAlways, PTL

------------------------------------------------------------------------------
(***************************************************************************)
(* ImplementsRelaySlots.  What the two tables make of a frame and of a slot *)
(* is the same for any ticks, so the types are all the invariant needs; the *)
(* search for the stalest slot is the same where ~Misled says that every    *)
(* slot has a tick of the current turn.                                     *)
(***************************************************************************)

Rows == slots \in [Slots -> Slot] /\ now \in Nat /\ cursor \in 0 .. NumSlots

(* Records as the WSW table has them, with the sets their fields are from.  *)
Records(C, E, T, G) == [id : Ids, mac : Macs \cup {Blank}, hasBasic : C, basic : Ids,
                        loc : E, timing : T, flown : G]

Stamps == [lastAny : Int, lastAir : Int, firstGnd : Int, ts : Int,
           tsChanged : Int, tsSeen : Int]

LEMMA SameRow ==
  ASSUME NEW C, NEW E, NEW T, NEW G,
         NEW x \in Records(C, E, T, G), NEW y \in Records(C, E, T, G),
         x.id = y.id, x.mac = y.mac, x.hasBasic = y.hasBasic, x.basic = y.basic,
         x.loc = y.loc, x.timing = y.timing, x.flown = y.flown
  PROVE  x = y
BY DEF Records

LEMMA NewRow ==
  ASSUME NEW C, NEW E, NEW T, NEW G, NEW i \in Ids, NEW a \in Macs \cup {Blank},
         NEW c \in C, NEW b \in Ids, NEW l \in E, NEW u \in T, NEW g \in G
  PROVE  LET y == [id |-> i, mac |-> a, hasBasic |-> c, basic |-> b, loc |-> l,
                   timing |-> u, flown |-> g]
         IN  /\ y \in Records(C, E, T, G) /\ y.id = i /\ y.mac = a /\ y.hasBasic = c
             /\ y.basic = b /\ y.loc = l /\ y.timing = u /\ y.flown = g
BY DEF Records

Refreshed(x, c, b, l, u) ==
  [x EXCEPT !.hasBasic = c, !.basic = b, !.loc = l, !.timing = u]

Moved(x, u, g) == [x EXCEPT !.timing = u, !.flown = g]

LEMMA PutFields ==
  ASSUME NEW C, NEW E, NEW T, NEW G, NEW x \in Records(C, E, T, G),
         NEW c \in C, NEW b \in Ids, NEW l \in E, NEW u \in T
  PROVE  LET y == Refreshed(x, c, b, l, u)
         IN  /\ y \in Records(C, E, T, G) /\ y.id = x.id /\ y.mac = x.mac /\ y.hasBasic = c
             /\ y.basic = b /\ y.loc = l /\ y.timing = u /\ y.flown = x.flown
BY DEF Records, Refreshed

LEMMA PutFlight ==
  ASSUME NEW C, NEW E, NEW T, NEW G, NEW x \in Records(C, E, T, G), NEW u \in T, NEW g \in G
  PROVE  LET y == Moved(x, u, g)
         IN  /\ y \in Records(C, E, T, G) /\ y.id = x.id /\ y.mac = x.mac
             /\ y.hasBasic = x.hasBasic /\ y.basic = x.basic /\ y.loc = x.loc
             /\ y.timing = u /\ y.flown = g
BY DEF Records, Moved

LEMMA FrameNoted ==
  ASSUME NEW r \in Stamps, NEW t \in Int
  PROVE  Wsw!NoteFrame(r, t) = [lastAny |-> t, lastAir |-> r.lastAir,
           firstGnd |-> r.firstGnd, ts |-> r.ts, tsChanged |-> r.tsChanged,
           tsSeen |-> r.tsSeen]
BY DEF Wsw!NoteFrame, Stamps

LEMMA TsNoted ==
  ASSUME NEW r \in Stamps, NEW t \in Int, NEW u \in Int \ Wsw!OdidTs
  PROVE  Wsw!NoteLocationTs(r, u, t) = [lastAny |-> r.lastAny, lastAir |-> r.lastAir,
           firstGnd |-> r.firstGnd, ts |-> -1, tsChanged |-> -1, tsSeen |-> -1]
BY DEF Wsw!NoteLocationTs, Stamps, Wsw!Unset

LEMMA FlightNoted ==
  ASSUME NEW r \in Stamps, NEW t \in Int, NEW ever
  PROVE  /\ Wsw!NoteAirborneState(r, TRUE, ever, t) =
              [lastAny |-> r.lastAny, lastAir |-> t, firstGnd |-> -1, ts |-> r.ts,
               tsChanged |-> r.tsChanged, tsSeen |-> r.tsSeen]
         /\ ever /\ r.firstGnd = -1 =>
              Wsw!NoteAirborneState(r, FALSE, ever, t) =
              [lastAny |-> r.lastAny, lastAir |-> r.lastAir, firstGnd |-> t, ts |-> r.ts,
               tsChanged |-> r.tsChanged, tsSeen |-> r.tsSeen]
BY DEF Wsw!NoteAirborneState, Stamps, Wsw!Unset

(* x as the WSW table would hold it.  Flags is left unexpanded where records *)
(* are compared.                                                            *)
Flags == BOOLEAN
Locs == [of : Ids, air : BOOLEAN, ts : Int]
AsRow(x, y) ==
  /\ y \in Records(Flags, Locs, Stamps, Flags) /\ y.id = x.id /\ y.mac = x.mac
  /\ y.hasBasic = x.hasBasic /\ y.basic = x.basic
  /\ y.loc = IF x.hasLoc THEN [of |-> x.loc.of, air |-> x.loc.air, ts |-> 1]
             ELSE [of |-> Blank, air |-> FALSE, ts |-> -1]
  /\ y.timing = [lastAny |-> Stamp(x.last), lastAir |-> Stamp(x.air),
                 firstGnd |-> Stamp(x.gnd), ts |-> -1, tsChanged |-> -1, tsSeen |-> -1]
  /\ y.flown = x.flown

LEMMA RowOf ==
  ASSUME NEW x \in Slot
  PROVE  AsRow(x, Translated(x))
<1> DEFINE l == IF x.hasLoc THEN [of |-> x.loc.of, air |-> x.loc.air, ts |-> 1]
                ELSE [of |-> Blank, air |-> FALSE, ts |-> -1]
           u == [lastAny |-> Stamp(x.last), lastAir |-> Stamp(x.air),
                 firstGnd |-> Stamp(x.gnd), ts |-> -1, tsChanged |-> -1, tsSeen |-> -1]
<1>1. l \in Locs /\ u \in Stamps
  BY DEF Slot, Locs, Stamps, Stamp, Ids, Never
<1>2. /\ x.id \in Ids /\ x.mac \in Macs \cup {Blank} /\ x.hasBasic \in Flags
      /\ x.basic \in Ids /\ x.flown \in Flags
  BY DEF Slot, Flags
<1>3. Translated(x) = [id |-> x.id, mac |-> x.mac, hasBasic |-> x.hasBasic,
                       basic |-> x.basic, loc |-> l, timing |-> u, flown |-> x.flown]
  BY DEF Translated
<1> HIDE DEF l, u
<1>4. LET y == [id |-> x.id, mac |-> x.mac, hasBasic |-> x.hasBasic,
                basic |-> x.basic, loc |-> l, timing |-> u, flown |-> x.flown]
      IN  /\ y \in Records(Flags, Locs, Stamps, Flags) /\ y.id = x.id /\ y.mac = x.mac
          /\ y.hasBasic = x.hasBasic /\ y.basic = x.basic /\ y.loc = l
          /\ y.timing = u /\ y.flown = x.flown
  BY <1>1, <1>2, NewRow
<1> QED BY <1>3, <1>4 DEF AsRow, l, u

(* Merging keeps the key, and is the merge of the WSW table but at tick 0.  *)
LEMMA MergeTyped ==
  ASSUME NEW s \in Slot, NEW f \in Frames, NEW t \in Nat \ {0}
  PROVE  LET m == Merge(s, f, t)
         IN  /\ m \in Slot /\ m.id = s.id
             /\ Translated(m) = Wsw!Merge(Translated(s), TranslatedFrame(f), t)
<1> DEFINE a == MergeFields(s, f, t)
           b == CheckSystem(a)
           c == FallBack(b)
           e == FillSystem(c)
           m == NoteFlight(e, t)
           Same(x, y) == /\ x \in Slot /\ y.id = x.id /\ y.mac = x.mac
                         /\ y.hasBasic = x.hasBasic /\ y.basic = x.basic
                         /\ y.hasLoc = x.hasLoc /\ y.loc = x.loc
                         /\ y.last = x.last /\ y.air = x.air /\ y.gnd = x.gnd
                         /\ y.flown = x.flown
<1>1. /\ a \in Slot /\ a.id = s.id /\ a.mac = s.mac
      /\ a.hasBasic = (s.hasBasic \/ f.hasId)
      /\ a.basic = (IF f.hasId THEN f.id ELSE s.basic)
      /\ a.hasLoc = (s.hasLoc \/ f.hasLoc)
      /\ a.loc = (IF f.hasLoc THEN f.loc ELSE s.loc)
      /\ a.last = t /\ a.air = s.air /\ a.gnd = s.gnd /\ a.flown = s.flown
  <2>1. /\ (s.hasBasic \/ f.hasId) \in BOOLEAN /\ (s.hasLoc \/ f.hasLoc) \in BOOLEAN
        /\ (IF f.hasId THEN f.id ELSE s.basic) \in Ids
        /\ (IF f.hasLoc THEN f.loc ELSE s.loc) \in [of : Ids, air : BOOLEAN]
        /\ (IF f.sys # NoSystem THEN f.sys ELSE s.sys) \in System
    BY FrameType DEF Slot
  <2> QED BY <2>1 DEF MergeFields, Slot
<1> HIDE DEF a
<1>2. b \in Slot /\ Same(a, b)
  <2>1. NoSystem \in System /\ a.sys \in System /\ a.saved \in System
    BY <1>1 DEF System, Slot
  <2>2. \A x, y \in System : [a EXCEPT !.sys = x] \in Slot /\ [a EXCEPT !.saved = y] \in Slot
    BY <1>1 DEF Slot
  <2> QED BY <1>1, <2>1, <2>2 DEF CheckSystem, Slot
<1> HIDE DEF b
<1>3. c \in Slot /\ Same(b, c)
  <2>1. [of |-> b.loc.of, src |-> "drone"] \in System
    BY <1>2 DEF Slot, System
  <2> QED BY <1>2, <2>1 DEF FallBack, Slot
<1> HIDE DEF c
<1>4. e \in Slot /\ Same(c, e)
  BY <1>3 DEF FillSystem, Slot
<1> HIDE DEF e
<1>5. /\ e \in Slot /\ e.id = s.id /\ e.mac = s.mac
      /\ e.hasBasic = (s.hasBasic \/ f.hasId)
      /\ e.basic = (IF f.hasId THEN f.id ELSE s.basic)
      /\ e.hasLoc = (s.hasLoc \/ f.hasLoc)
      /\ e.loc = (IF f.hasLoc THEN f.loc ELSE s.loc)
      /\ e.last = t /\ e.air = s.air /\ e.gnd = s.gnd /\ e.flown = s.flown
  BY <1>1, <1>2, <1>3, <1>4
<1>6. /\ m \in Slot /\ Same(e, [m EXCEPT !.air = e.air, !.gnd = e.gnd, !.flown = e.flown])
      /\ m.air = (IF Airborne(e) THEN t ELSE s.air)
      /\ m.gnd = (IF Airborne(e) THEN Never
                  ELSE IF s.flown /\ s.gnd = Never THEN t ELSE s.gnd)
      /\ m.flown = (s.flown \/ Airborne(e))
  BY <1>5 DEF NoteFlight, Slot, Never, Airborne
<1>7. m.id = e.id /\ m.mac = e.mac /\ m.hasBasic = e.hasBasic /\ m.basic = e.basic
      /\ m.hasLoc = e.hasLoc /\ m.loc = e.loc /\ m.last = e.last
  BY <1>5 DEF NoteFlight, Slot
<1>8. m = Merge(s, f, t)
  BY DEF Merge, a, b, c, e
<1> HIDE DEF m
<1> DEFINE g == TranslatedFrame(f)
           w == Wsw!MergeFields(Translated(s), g, t)
<1>9. Translated(m) = Wsw!Merge(Translated(s), g, t)
  <2> DEFINE R == Records(Flags, Locs, Stamps, Flags)
             p == Translated(s)
             q == Translated(m)
             T == [lastAny |-> t, lastAir |-> Stamp(s.air), firstGnd |-> Stamp(s.gnd),
                   ts |-> -1, tsChanged |-> -1, tsSeen |-> -1]
  <2>1. /\ Wsw!HasLocation(g.loc) <=> f.hasLoc
        /\ g.hasId = f.hasId /\ g.id = f.id /\ g.loc.ts \in Int \ Wsw!OdidTs
        /\ f.hasLoc => g.loc = [of |-> f.loc.of, air |-> f.loc.air, ts |-> 1]
        /\ g.loc \in Locs
    BY FrameType DEF TranslatedFrame, Wsw!HasLocation, Wsw!Unset, Wsw!OdidTs, Ids, Locs
  <2>2. \A x \in Slot :
          /\ Translated(x) \in R /\ Translated(x).id = x.id /\ Translated(x).mac = x.mac
          /\ Translated(x).hasBasic = x.hasBasic /\ Translated(x).basic = x.basic
          /\ Translated(x).loc = IF x.hasLoc
               THEN [of |-> x.loc.of, air |-> x.loc.air, ts |-> 1]
               ELSE [of |-> Blank, air |-> FALSE, ts |-> -1]
          /\ Translated(x).timing =
               [lastAny |-> Stamp(x.last), lastAir |-> Stamp(x.air),
                firstGnd |-> Stamp(x.gnd), ts |-> -1, tsChanged |-> -1, tsSeen |-> -1]
          /\ Translated(x).flown = x.flown
    BY RowOf DEF AsRow
  <2> HIDE DEF g, R
  <2>3. T \in Stamps /\ Wsw!NoteFrame(p.timing, t) = T /\ Wsw!NoteLocationTs(T, g.loc.ts, t) = T
    <3>1. p.timing = [lastAny |-> Stamp(s.last), lastAir |-> Stamp(s.air),
                      firstGnd |-> Stamp(s.gnd), ts |-> -1, tsChanged |-> -1, tsSeen |-> -1]
      BY <2>2
    <3>2. Stamp(s.last) \in Int /\ Stamp(s.air) \in Int /\ Stamp(s.gnd) \in Int
      BY DEF Slot, Stamp
    <3>3. p.timing \in Stamps /\ T \in Stamps
      BY <3>1, <3>2 DEF Stamps
    <3>4. Wsw!NoteFrame(p.timing, t) = T
      BY <3>1, <3>3, FrameNoted
    <3>5. Wsw!NoteLocationTs(T, g.loc.ts, t) = T
      BY <3>3, <2>1, TsNoted
    <3> QED BY <3>3, <3>4, <3>5
  <2>4. (IF Wsw!HasLocation(g.loc) THEN g.loc ELSE p.loc) = q.loc
    <3>1. m \in Slot
      BY <1>6
    <3>2. p.loc = IF s.hasLoc THEN [of |-> s.loc.of, air |-> s.loc.air, ts |-> 1]
                  ELSE [of |-> Blank, air |-> FALSE, ts |-> -1]
      BY <2>2
    <3>3. q.loc = IF m.hasLoc THEN [of |-> m.loc.of, air |-> m.loc.air, ts |-> 1]
                  ELSE [of |-> Blank, air |-> FALSE, ts |-> -1]
      BY <2>2, <3>1
    <3>4. CASE f.hasLoc
      <4>1. m.hasLoc /\ m.loc = f.loc
        BY <1>5, <1>7, <3>4
      <4> QED BY <2>1, <3>3, <3>4, <4>1
    <3>5. CASE ~f.hasLoc
      <4>1. m.loc = s.loc /\ (m.hasLoc <=> s.hasLoc)
        BY <1>5, <1>7, <3>5
      <4> QED BY <2>1, <3>2, <3>3, <3>5, <4>1
    <3> QED BY <3>4, <3>5
  <2>5. p \in R /\ q \in R /\ p.id = s.id /\ p.mac = s.mac /\ p.flown = s.flown
        /\ q.id = s.id /\ q.mac = s.mac /\ q.hasBasic = e.hasBasic /\ q.basic = e.basic
        /\ q.flown = m.flown
    BY <1>5, <1>6, <1>7, <2>2
  <2>6. q.timing = [lastAny |-> t, lastAir |-> Stamp(m.air), firstGnd |-> Stamp(m.gnd),
                    ts |-> -1, tsChanged |-> -1, tsSeen |-> -1]
    BY <1>5, <1>6, <1>7, <2>2 DEF Stamp, Never
  <2>7. p.hasBasic = s.hasBasic /\ p.basic = s.basic
    BY <2>2
  <2> HIDE DEF T, p, q
  <2>8. /\ w \in R /\ w.id = q.id /\ w.mac = q.mac /\ w.hasBasic = q.hasBasic
        /\ w.basic = q.basic /\ w.loc = q.loc /\ w.timing = T /\ w.flown = p.flown
    <3>1. PICK named, key, place :
            /\ named = (p.hasBasic \/ g.hasId)
            /\ key = (IF g.hasId THEN g.id ELSE p.basic)
            /\ place = IF Wsw!HasLocation(g.loc) THEN g.loc ELSE p.loc
      OBVIOUS
    <3>2. named \in Flags /\ key \in Ids /\ place \in Locs
      <4>1. key \in Ids
        BY <2>5, <2>1, <3>1, FrameType DEF R, Records
      <4>2. place \in Locs
        BY <2>5, <2>1, <3>1 DEF R, Records
      <4>3. named \in Flags
        BY <3>1 DEF Flags
      <4> QED BY <4>1, <4>2, <4>3
    <3>3. w = Refreshed(p, named, key, place, T)
      <4>1. w = [p EXCEPT !.hasBasic = p.hasBasic \/ g.hasId,
                          !.basic = IF g.hasId THEN g.id ELSE p.basic,
                          !.loc = IF Wsw!HasLocation(g.loc) THEN g.loc ELSE p.loc,
                          !.timing = IF Wsw!HasLocation(g.loc)
                                     THEN Wsw!NoteLocationTs(Wsw!NoteFrame(p.timing, t), g.loc.ts, t)
                                     ELSE Wsw!NoteFrame(p.timing, t)]
        BY Zenon DEF w, p, Wsw!MergeFields
      <4>2. (IF Wsw!HasLocation(g.loc)
             THEN Wsw!NoteLocationTs(Wsw!NoteFrame(p.timing, t), g.loc.ts, t)
             ELSE Wsw!NoteFrame(p.timing, t)) = T
        BY <2>3
      <4> QED BY <3>1, <4>1, <4>2, Zenon DEF Refreshed
    <3> HIDE DEF w
    <3>4. LET y == Refreshed(p, named, key, place, T)
          IN  /\ y \in R /\ y.id = p.id /\ y.mac = p.mac /\ y.hasBasic = named
              /\ y.basic = key /\ y.loc = place /\ y.timing = T /\ y.flown = p.flown
      BY <2>3, <2>5, <3>2, PutFields DEF R
    <3>5. named = q.hasBasic /\ key = q.basic
      BY <1>5, <2>1, <2>5, <2>7, <3>1, Zenon
    <3> QED BY <2>4, <2>5, <3>1, <3>3, <3>4, <3>5, Zenon
  <2>9. Wsw!Airborne(w) <=> Airborne(e)
    <3>1. q.loc = IF e.hasLoc THEN [of |-> e.loc.of, air |-> e.loc.air, ts |-> 1]
                  ELSE [of |-> Blank, air |-> FALSE, ts |-> -1]
      BY <1>6, <1>7, <2>2 DEF q
    <3> QED BY <2>8, <3>1 DEF Wsw!Airborne, Airborne, Wsw!HasLocation, Wsw!Unset
  <2>10. Wsw!NoteAirborneState(T, Airborne(e), s.flown, t) = q.timing
    <3>1. s.gnd \in Nat /\ s.air \in Nat
      BY DEF Slot
    <3>5. /\ T.lastAny = t /\ T.lastAir = Stamp(s.air) /\ T.firstGnd = Stamp(s.gnd)
          /\ T.ts = -1 /\ T.tsChanged = -1 /\ T.tsSeen = -1
      BY DEF T
    <3>7. t \in Int
      OBVIOUS
    <3>2. CASE Airborne(e)
      <4>1. Stamp(m.air) = t /\ Stamp(m.gnd) = -1
        BY <1>6, <3>2 DEF Stamp, Never
      <4>2. Wsw!NoteAirborneState(T, Airborne(e), s.flown, t) =
              [lastAny |-> T.lastAny, lastAir |-> t, firstGnd |-> -1, ts |-> T.ts,
               tsChanged |-> T.tsChanged, tsSeen |-> T.tsSeen]
        <5>1. Airborne(e) = TRUE
          BY <3>2 DEF Airborne
        <5>2. Wsw!NoteAirborneState(T, TRUE, s.flown, t) =
              [lastAny |-> T.lastAny, lastAir |-> t, firstGnd |-> -1, ts |-> T.ts,
               tsChanged |-> T.tsChanged, tsSeen |-> T.tsSeen]
          BY <2>3, <3>7, FlightNoted
        <5> QED BY <5>1, <5>2, Zenon
      <4> QED BY <2>6, <3>5, <4>1, <4>2
    <3>3. CASE ~Airborne(e) /\ s.flown /\ s.gnd = Never
      <4>1. Stamp(s.gnd) = -1 /\ Stamp(m.air) = Stamp(s.air) /\ Stamp(m.gnd) = t
        BY <1>6, <3>3 DEF Stamp, Never
      <4>2. T.firstGnd = -1
        BY <3>5, <4>1
      <4>3. Wsw!NoteAirborneState(T, Airborne(e), s.flown, t) =
              [lastAny |-> T.lastAny, lastAir |-> T.lastAir, firstGnd |-> t, ts |-> T.ts,
               tsChanged |-> T.tsChanged, tsSeen |-> T.tsSeen]
        <5>1. Airborne(e) = FALSE
          BY <3>3 DEF Airborne
        <5>2. Wsw!NoteAirborneState(T, FALSE, s.flown, t) =
              [lastAny |-> T.lastAny, lastAir |-> T.lastAir, firstGnd |-> t, ts |-> T.ts,
               tsChanged |-> T.tsChanged, tsSeen |-> T.tsSeen]
          BY <2>3, <3>3, <3>7, <4>2, FlightNoted
        <5> QED BY <5>1, <5>2, Zenon
      <4> QED BY <2>6, <3>5, <4>1, <4>3
    <3>4. CASE ~Airborne(e) /\ ~(s.flown /\ s.gnd = Never)
      <4>1. ~(s.flown /\ T.firstGnd = -1)
        BY <3>1, <3>4 DEF T, Stamp, Never
      <4>2. m.air = s.air /\ m.gnd = s.gnd
        BY <1>6, <3>4
      <4> QED BY <2>6, <3>4, <4>1, <4>2 DEF T, Wsw!NoteAirborneState, Wsw!Unset
    <3> QED BY <3>2, <3>3, <3>4
  <2>11. Wsw!Merge(p, g, t) = Moved(w, q.timing, m.flown)
    <3>1. Wsw!Merge(p, g, t) =
            [w EXCEPT !.timing = Wsw!NoteAirborneState(w.timing, Wsw!Airborne(w), p.flown, t),
                      !.flown = w.flown \/ Wsw!Airborne(w)]
      BY Zenon DEF Wsw!Merge, w, p
    <3>2. PICK x : x = Airborne(e)
      OBVIOUS
    <3>3. Wsw!Airborne(w) = Airborne(e)
      BY <2>9 DEF Wsw!Airborne, Airborne
    <3>4. Wsw!NoteAirborneState(w.timing, Wsw!Airborne(w), p.flown, t) = q.timing
      BY <2>5, <2>8, <2>10, <3>3, Zenon
    <3>5. (w.flown \/ Wsw!Airborne(w)) = m.flown
      BY <1>6, <2>5, <2>8, <3>3, Zenon
    <3> QED BY <3>1, <3>4, <3>5, Zenon DEF Moved
  <2>12. q.timing \in Stamps /\ m.flown \in Flags
    BY <2>5, <1>6 DEF R, Records, Slot, Flags
  <2> HIDE DEF w
  <2>13. LET y == Moved(w, q.timing, m.flown)
         IN  /\ y \in R /\ y.id = w.id /\ y.mac = w.mac
             /\ y.hasBasic = w.hasBasic /\ y.basic = w.basic /\ y.loc = w.loc
             /\ y.timing = q.timing /\ y.flown = m.flown
    BY <2>8, <2>12, PutFlight DEF R
  <2>14. Moved(w, q.timing, m.flown) = q
    BY <2>5, <2>8, <2>13, SameRow DEF R
  <2> QED BY <2>11, <2>14 DEF p, q
<1> QED BY <1>5, <1>6, <1>7, <1>8, <1>9

(* Elapsed ticks, and with them attribution, are the same in both tables.   *)
LEMMA SameOverdue ==
  ASSUME Rows, NEW n \in Nat, NEW k
  PROVE  Wsw!Overdue(Stamp(n), now, k) <=> Overdue(n, k)
<1>1. CASE n = 0
  BY <1>1 DEF Wsw!Overdue, Overdue, Stamp, Never, Wsw!Unset
<1>2. CASE n # 0
  <2>1. Stamp(n) = n /\ n # -1
    BY <1>2 DEF Stamp, Never
  <2>2. Wsw!Since(n, now) = Since(n, now)
    BY DEF Wsw!Since, Since
  <2> QED BY <1>2, <2>1, <2>2 DEF Wsw!Overdue, Overdue, Never, Wsw!Unset
<1> QED BY <1>1, <1>2

Table == [i \in Slots |-> Translated(slots[i])]

LEMMA TableOf ==
  ASSUME Rows
  PROVE  \A i \in Slots : AsRow(slots[i], Table[i])
BY RowOf DEF Rows, Table

(* The scan ends on the greatest of the slots with the least tick.          *)
LEMMA StalestIn ==
  ASSUME Rows, NEW t \in Nat, Past(t) # {}
  PROVE  Stalest(t) \in Past(t)
<1> DEFINE R == OpToRel(<, Nat)
<1>1. IsWellFoundedOn(R, Nat)
  BY NatLessThanWellFounded
<1>2. \A i, j \in Nat : <<j, i>> \in R <=> j < i
  BY DEF OpToRel
<1>3. \A i \in Past(t) : i \in Nat /\ NumSlots - i \in Nat /\ slots[i].last \in Nat
  BY XiaoAssumption DEF Past, Rows, Slots, Slot
<1> HIDE DEF R
<1>4. PICK n \in {slots[i].last : i \in Past(t)} :
        \A x \in {slots[i].last : i \in Past(t)} : ~(<<x, n>> \in R)
  <2>1. {slots[i].last : i \in Past(t)} \in SUBSET Nat
        /\ {slots[i].last : i \in Past(t)} # {}
    BY <1>3
  <2> QED BY <1>1, <2>1, WFMin
<1>5. n \in Nat /\ \A j \in Past(t) : n <= slots[j].last
  <2>1. n \in Nat
    BY <1>3
  <2>2. ASSUME NEW j \in Past(t) PROVE n <= slots[j].last
    <3>1. ~(<<slots[j].last, n>> \in R)
      BY <1>4
    <3> QED BY <1>2, <1>3, <2>1, <3>1
  <2> QED BY <2>1, <2>2
<1> DEFINE L == {i \in Past(t) : slots[i].last = n}
<1>6. PICK c \in {NumSlots - i : i \in L} :
        \A x \in {NumSlots - i : i \in L} : ~(<<x, c>> \in R)
  <2>1. {NumSlots - i : i \in L} \in SUBSET Nat /\ {NumSlots - i : i \in L} # {}
    BY <1>3, <1>4
  <2> QED BY <1>1, <2>1, WFMin
<1>7. PICK i \in L : c = NumSlots - i
  BY <1>6
<1>8. \A j \in L : j <= i
  <2> TAKE j \in L
  <2>1. NumSlots - j \in Nat /\ NumSlots - i \in Nat /\ i \in Nat /\ j \in Nat
    BY <1>3
  <2>2. ~(NumSlots - j < NumSlots - i)
    BY <1>2, <1>6, <1>7, <2>1
  <2> QED BY <2>1, <2>2, XiaoAssumption
<1>9. \A j \in Past(t) : \/ slots[i].last < slots[j].last
                         \/ slots[i].last = slots[j].last /\ j <= i
  BY <1>3, <1>5, <1>8
<1> QED BY <1>9 DEF Stalest

LEMMA SameStalest ==
  ASSUME Rows, NEW t \in Nat, \A i \in Slots : slots[i].last \in 1 .. t
  PROVE  Stalest(t) = Wsw!StalestSlot(t)
<1> DEFINE past == Past(t)
           P(i) == \A j \in past : \/ slots[i].last < slots[j].last
                                   \/ slots[i].last = slots[j].last /\ j <= i
           Q(i) == \A j \in Slots :
             Wsw!Age(j, t) < Wsw!Age(i, t) \/ (Wsw!Age(j, t) = Wsw!Age(i, t) /\ j <= i)
<1>1. \A i \in Slots : slots[i].last \in Nat /\ slots[i].last # 0 /\ slots[i].last <= t
  OBVIOUS
<1>2. past = Slots
  BY <1>1 DEF Past
<1>3. \A i \in Slots : Wsw!Age(i, t) = t - slots[i].last
  <2> TAKE i \in Slots
  <2>1. Table[i].timing.lastAny = slots[i].last
    <3>1. Table[i].timing = [lastAny |-> Stamp(slots[i].last),
                             lastAir |-> Stamp(slots[i].air),
                             firstGnd |-> Stamp(slots[i].gnd),
                             ts |-> -1, tsChanged |-> -1, tsSeen |-> -1]
      BY TableOf DEF AsRow
    <3> QED BY <1>1, <3>1 DEF Stamp, Never
  <2>2. Wsw!Age(i, t) = Wsw!Since(Table[i].timing.lastAny, t)
    BY DEF Wsw!Age, Table
  <2> QED BY <1>1, <2>1, <2>2 DEF Wsw!Since
<1>4. \A i : (i \in past /\ P(i)) <=> (i \in Wsw!Slots /\ Q(i))
  <2>1. \A i, j \in Slots : slots[i].last < slots[j].last <=> Wsw!Age(j, t) < Wsw!Age(i, t)
    BY <1>1, <1>3
  <2>2. \A i, j \in Slots : slots[i].last = slots[j].last <=> Wsw!Age(j, t) = Wsw!Age(i, t)
    BY <1>1, <1>3
  <2>3. Wsw!Slots = Slots
    BY DEF Wsw!Slots, Slots
  <2> QED BY <1>2, <2>1, <2>2, <2>3, Zenon
<1>5. (CHOOSE i \in past : P(i)) = (CHOOSE i \in Wsw!Slots : Q(i))
  <2> HIDE DEF P, Q, past
  <2> QED BY <1>4, Zenon
<1> QED BY <1>2, <1>5 DEF Stalest, Wsw!StalestSlot, Wsw!Slots, Slots

LEMMA SameOwner ==
  ASSUME Rows, NEW f \in Frames, NEW t \in Nat,
         Named(f) /\ Used = Slots /\ (\A i \in Slots : slots[i].id # f.id)
           => Wsw!StalestSlot(t) = Stalest(t)
  PROVE  Wsw!Owner(TranslatedFrame(f), t) = Owner(f, t)
<1> DEFINE g == TranslatedFrame(f)
<1>1. g.hasId = f.hasId /\ g.id = f.id /\ g.mac = f.mac
  BY DEF TranslatedFrame
<1>2. Wsw!Named(g) = Named(f)
  BY <1>1, Zenon DEF Wsw!Named, Named
<1>3. Wsw!Slots = Slots
  BY DEF Wsw!Slots, Slots
<1>4. \A i \in Slots : Translated(slots[i]).id = slots[i].id /\ Translated(slots[i]).mac = slots[i].mac
  BY DEF Translated
<1>5. Wsw!Used = Used
  BY <1>3, <1>4 DEF Wsw!Used, Used
<1>6. /\ {i \in Wsw!Used : [j \in Slots |-> Translated(slots[j])][i].id = g.id}
           = {i \in Used : slots[i].id = f.id}
      /\ {i \in Wsw!Used : [j \in Slots |-> Translated(slots[j])][i].mac = g.mac}
           = {i \in Used : slots[i].mac = f.mac}
  <2>1. \A i \in Used : i \in Slots
    BY DEF Used
  <2> HIDE DEF g
  <2> QED BY <1>1, <1>4, <1>5, <2>1
<1>7. \A S : Wsw!First(S) = First(S)
  BY DEF Wsw!First, First
<1> DEFINE K == {i \in Used : slots[i].id = f.id}
           N == {i \in Used : slots[i].mac = f.mac}
<1>8. Named(f) /\ K = {} /\ Used = Slots => Wsw!StalestSlot(t) = Stalest(t)
  OBVIOUS
<1>9. Wsw!Owner(g, t) = IF Named(f)
        THEN IF K # {} THEN First(K)
             ELSE IF Used # Slots THEN First(Slots \ Used) ELSE Wsw!StalestSlot(t)
        ELSE IF N # {} THEN First(N) ELSE 0
  <2> HIDE DEF g, K, N
  <2>1. /\ {i \in Wsw!Used : [j \in Slots |-> Translated(slots[j])][i].id = g.id} = K
        /\ {i \in Wsw!Used : [j \in Slots |-> Translated(slots[j])][i].mac = g.mac} = N
    BY <1>6 DEF K, N
  <2> QED BY <1>2, <1>3, <1>5, <1>7, <2>1, Zenon DEF Wsw!Owner
<1>10. Owner(f, t) = IF Named(f)
        THEN IF K # {} THEN First(K)
             ELSE IF Used # Slots THEN First(Slots \ Used) ELSE Stalest(t)
        ELSE IF N # {} THEN First(N) ELSE 0
  BY DEF Owner
<1> HIDE DEF K, N
<1> QED BY <1>8, <1>9, <1>10

(* A claim: the same slot, new key and address.                             *)
Keyed(s, i, a) == [s EXCEPT !.id = i, !.mac = a]

LEMMA KeyPut ==
  ASSUME NEW s \in Slot, NEW i \in Ids, NEW a \in Macs
  PROVE  LET y == Keyed(s, i, a)
         IN  y \in Slot /\ y.id = i /\ Translated(y) = Keyed(Translated(s), i, a)
<1> DEFINE y == [s EXCEPT !.id = i, !.mac = a]
           z == [Translated(s) EXCEPT !.id = i, !.mac = a]
           R == Records(Flags, Locs, Stamps, Flags)
<1>1. /\ y \in Slot /\ y.id = i /\ y.mac = a /\ y.hasBasic = s.hasBasic /\ y.basic = s.basic
      /\ y.hasLoc = s.hasLoc /\ y.loc = s.loc /\ y.last = s.last /\ y.air = s.air
      /\ y.gnd = s.gnd /\ y.flown = s.flown
  BY DEF Slot
<1>2. PICK x : x = Translated(s)
  OBVIOUS
<1>3. AsRow(s, x)
  BY <1>2, RowOf
<1>4. /\ z \in R /\ z.id = i /\ z.mac = a /\ z.hasBasic = x.hasBasic /\ z.basic = x.basic
      /\ z.loc = x.loc /\ z.timing = x.timing /\ z.flown = x.flown
  <2>1. x \in R
    BY <1>3 DEF AsRow
  <2>2. z = [x EXCEPT !.id = i, !.mac = a]
    BY <1>2
  <2> HIDE DEF z
  <2> QED BY <2>1, <2>2 DEF Records
<1> HIDE DEF y, z
<1>5. AsRow(y, Translated(y))
  BY <1>1, RowOf
<1>6. AsRow(y, z)
  BY <1>1, <1>3, <1>4 DEF AsRow
<1>7. Translated(y) = z
  BY <1>5, <1>6, SameRow DEF AsRow
<1> QED BY <1>1, <1>7 DEF y, z, Keyed

------------------------------------------------------------------------------
(* The passes of relay_task, step by step.  The types are kept in any pass,  *)
(* whatever the table makes of its frame.                                   *)
LEMMA MergeSlot ==
  ASSUME NEW s \in Slot, NEW f \in Frames, NEW t \in Nat
  PROVE  Merge(s, f, t) \in Slot
<1> DEFINE a == MergeFields(s, f, t)
           b == CheckSystem(a)
           c == FallBack(b)
           e == FillSystem(c)
<1>1. a \in Slot
  <2>1. /\ (s.hasBasic \/ f.hasId) \in BOOLEAN /\ (s.hasLoc \/ f.hasLoc) \in BOOLEAN
        /\ (IF f.hasId THEN f.id ELSE s.basic) \in Ids
        /\ (IF f.hasLoc THEN f.loc ELSE s.loc) \in [of : Ids, air : BOOLEAN]
        /\ (IF f.sys # NoSystem THEN f.sys ELSE s.sys) \in System
    BY FrameType DEF Slot
  <2> QED BY <2>1 DEF MergeFields, Slot
<1> HIDE DEF a
<1>2. b \in Slot
  <2>1. NoSystem \in System /\ a.sys \in System /\ a.saved \in System
    BY <1>1 DEF System, Slot
  <2>2. \A x, y \in System : [a EXCEPT !.sys = x] \in Slot /\ [a EXCEPT !.saved = y] \in Slot
    BY <1>1 DEF Slot
  <2> QED BY <1>1, <2>1, <2>2 DEF CheckSystem, Slot
<1> HIDE DEF b
<1>3. c \in Slot
  <2>1. [of |-> b.loc.of, src |-> "drone"] \in System
    BY <1>2 DEF Slot, System
  <2> QED BY <1>2, <2>1 DEF FallBack, Slot
<1> HIDE DEF c
<1>4. e \in Slot
  BY <1>3 DEF FillSystem, Slot
<1> HIDE DEF e
<1>5. NoteFlight(e, t) \in Slot
  BY <1>4 DEF NoteFlight, Slot, Never
<1> QED BY <1>5 DEF Merge, a, b, c, e

LEMMA ReceiveRows ==
  ASSUME Rows, NEW f \in Frames, NEW k \in Gaps, Receive(f, k)
  PROVE  Rows'
<1> DEFINE t == Later(now, k)
           o == Owner(f, t)
<1>1. t \in Nat
  BY LaterTick DEF Rows
<1>2. ASSUME o \in Slots PROVE Merge(Resolved(f, o), f, t) \in Slot
  <2>1. \A x \in Slot : Named(f) => [x EXCEPT !.id = f.id, !.mac = f.mac] \in Slot
    BY FrameType DEF Slot
  <2>2. Resolved(f, o) \in Slot
    BY <1>2, <2>1, FreeSlot DEF Resolved, Rows
  <2> QED BY <1>1, <2>2, MergeSlot
<1>3. now' = t /\ cursor' = 1
      /\ slots' = IF o = 0 THEN slots ELSE [slots EXCEPT ![o] = Merge(Resolved(f, o), f, t)]
  BY DEF Receive, Advance, Absorb
<1> HIDE DEF t, o
<1>4. slots' \in [Slots -> Slot]
  <2>1. CASE o \in Slots
    <3>1. slots' = [slots EXCEPT ![o] = Merge(Resolved(f, o), f, t)]
      BY <1>3, <2>1 DEF Slots
    <3> QED BY <1>2, <2>1, <3>1 DEF Rows
  <2>2. CASE o \notin Slots
    BY <1>3, <2>2 DEF Rows
  <2> QED BY <2>1, <2>2
<1> QED BY <1>1, <1>3, <1>4, XiaoAssumption DEF Rows

LEMMA ReceiveMaps ==
  ASSUME Rows, NEW f \in Frames, NEW k \in Gaps, Receive(f, k), ~Misled
  PROVE  Wsw!Receive(TranslatedFrame(f), k)
<1> DEFINE t == Later(now, k)
           g == TranslatedFrame(f)
<1>1. t \in Nat /\ Wsw!Later(now, k) = t
  BY LaterTick DEF Rows
<1>2. /\ now' = t /\ cursor = 0 /\ cursor' = 1 /\ slots' = Absorb(f, t)
      /\ ~NoClaim(f, t)
  BY DEF Receive, Advance
<1>3. t # 0
  BY <1>2 DEF Misled, Never
<1>4. PICK o : o = Owner(f, t)
  OBVIOUS
<1> DEFINE r == Resolved(f, o)
           m == Merge(r, f, t)
<1> HIDE DEF t
<1>5. slots' = IF o = 0 THEN slots ELSE [slots EXCEPT ![o] = m]
  BY <1>2, <1>4 DEF Absorb
<1>6. ASSUME o \in Slots
      PROVE  /\ r \in Slot
             /\ Named(f) => r.id = f.id
             /\ Translated(r) = Wsw!Resolved(g, o)
  <2>1. slots[o] \in Slot
    BY <1>6 DEF Rows
  <2>2. g.id = f.id /\ g.mac = f.mac /\ Wsw!Named(g) = Named(f)
    BY Zenon DEF TranslatedFrame, Wsw!Named, Named
  <2>3. [j \in Slots |-> Translated(slots[j])][o] = Translated(slots[o])
        /\ Translated(slots[o]).id = slots[o].id
    BY <1>6 DEF Translated
  <2>4. Translated(Free) = Wsw!Free
    BY DEF Translated, Free, Wsw!Free, Wsw!NoLocation, Wsw!NoTiming, Wsw!Unset, Stamp, Never
  <2>5. CASE Named(f)
    <3> DEFINE b == IF slots[o].id = f.id THEN slots[o] ELSE Free
    <3>1. b \in Slot
      BY <2>1, FreeSlot
    <3>2. Translated(b) = IF slots[o].id = f.id THEN Translated(slots[o]) ELSE Wsw!Free
      BY <2>4
    <3>3. f.id \in Ids /\ f.id # Blank /\ f.mac \in Macs
      BY <2>5, FrameType DEF Named
    <3>4. r = [b EXCEPT !.id = f.id, !.mac = f.mac]
      BY <2>5, Zenon DEF Resolved
    <3>5. Wsw!Resolved(g, o) = [Translated(b) EXCEPT !.id = f.id, !.mac = f.mac]
      <4> HIDE DEF g, b
      <4> QED BY <2>2, <2>3, <2>5, <3>2, Zenon DEF Wsw!Resolved
    <3> HIDE DEF b, r
    <3>6. r \in Slot /\ r.id = f.id /\ Translated(r) = Wsw!Resolved(g, o)
      <4>1. /\ Keyed(b, f.id, f.mac) \in Slot /\ Keyed(b, f.id, f.mac).id = f.id
            /\ Translated(Keyed(b, f.id, f.mac)) = Keyed(Translated(b), f.id, f.mac)
        BY <3>1, <3>3, KeyPut
      <4> QED BY <3>4, <3>5, <4>1, Zenon DEF Keyed
    <3> QED BY <3>6
  <2>6. CASE ~Named(f)
    <3>1. r = slots[o]
      BY <2>6 DEF Resolved
    <3>2. Wsw!Resolved(g, o) = Translated(slots[o])
      <4> HIDE DEF g
      <4> QED BY <2>2, <2>3, <2>6, Zenon DEF Wsw!Resolved
    <3> QED BY <2>1, <2>6, <3>1, <3>2
  <2> QED BY <2>5, <2>6
<1> HIDE DEF r
<1>7. ASSUME o \in Slots
      PROVE  /\ m \in Slot
             /\ Named(f) => m.id = f.id
             /\ Translated(m) = Wsw!Merge(Wsw!Resolved(g, o), g, t)
  <2>1. /\ m \in Slot /\ m.id = r.id
        /\ Translated(m) = Wsw!Merge(Translated(r), g, t)
    <3>1. r \in Slot /\ t \in Nat \ {0}
      BY <1>1, <1>3, <1>6, <1>7
    <3> QED BY <3>1, MergeTyped
  <2> HIDE DEF m
  <2> QED BY <1>6, <1>7, <2>1
<1> HIDE DEF m, g
<1>8. \A i \in Slots : slots'[i] = IF i = o THEN m ELSE slots[i]
  BY <1>5 DEF Rows, Slots
(* The search is made only for a claim that displaces a drone.              *)
<1>9. ASSUME Named(f), Used = Slots, \A i \in Slots : slots[i].id # f.id
       PROVE  Wsw!StalestSlot(t) = Stalest(t)
  <2>1. o = Stalest(t)
    <3>1. {i \in Used : slots[i].id = f.id} = {}
      BY <1>9
    <3> QED BY <1>4, <1>9, <3>1 DEF Owner
  <2>2. o \in Slots
    <3>1. Past(t) # {}
      BY <1>2, <1>9 DEF NoClaim
    <3> QED BY <1>1, <2>1, <3>1, StalestIn DEF Past
  <2>3. Displaced(o)
    <3>1. slots'[o].id = f.id /\ slots[o].id # Blank /\ f.id # Blank
      BY <1>7, <1>8, <1>9, <2>2 DEF Used, Named
    <3> QED BY <1>9, <2>2, <3>1 DEF Displaced
  <2>4. \A i \in Slots : slots[i].last \in 1 .. t
    BY <1>2, <2>2, <2>3 DEF Misled
  <2> QED BY <1>1, <2>4, SameStalest
<1>10. Wsw!Owner(g, t) = o
  BY <1>1, <1>4, <1>9, SameOwner DEF g
<1>11. Wsw!Accepted(g, t) <=> o # 0
  <2>1. \A id, ts : ~Wsw!RejectContains(NoEntries, id, ts, t)
    BY DEF Wsw!RejectContains, Wsw!EntryLive, NoEntries, Wsw!RejectIndex, Wsw!Unset
  <2>2. ~Wsw!RefusedByName(g, t) /\ \A i : ~Wsw!RefusedBySlot(g, i, t)
    BY <2>1 DEF Wsw!RefusedByName, Wsw!RefusedBySlot
  <2> QED BY <1>10, <2>2 DEF Wsw!Accepted
<1>12. Wsw!Receive(g, k)
  <2> DEFINE T == [j \in Slots |-> Translated(slots[j])]
  <2>1. Wsw!Absorb(g, t) = IF o # 0 THEN [T EXCEPT ![o] = Wsw!Merge(Wsw!Resolved(g, o), g, t)] ELSE T
    BY <1>10, <1>11, Zenon DEF Wsw!Absorb
  <2>2. [j \in Slots |-> Translated(slots'[j])] = Wsw!Absorb(g, t)
    <3>1. CASE o \notin Slots
      <4>1. \A j \in Slots : slots'[j] = slots[j]
        BY <1>8, <3>1
      <4>2. [T EXCEPT ![o] = Wsw!Merge(Wsw!Resolved(g, o), g, t)] = T
        BY <3>1
      <4> QED BY <2>1, <4>1, <4>2
    <3>2. CASE o \in Slots
      <4>1. o # 0
        BY <3>2 DEF Slots
      <4>2. Wsw!Absorb(g, t) = [T EXCEPT ![o] = Translated(m)]
        BY <1>7, <2>1, <3>2, <4>1
      <4>3. \A j \in Slots : Translated(slots'[j]) = IF j = o THEN Translated(m) ELSE Translated(slots[j])
        BY <1>8
      <4> QED BY <3>2, <4>2, <4>3
    <3> QED BY <3>1, <3>2
  <2> QED BY <1>1, <1>2, <2>2 DEF Wsw!Receive
<1> QED BY <1>12 DEF g

(* Eviction: the same slots, and none of them as frozen. *)
LEMMA SameVerdict ==
  ASSUME Rows, NEW i \in Slots
  PROVE  LET v == Wsw!Verdict(Translated(slots[i]))
         IN  /\ v # "frozen"
             /\ v = "keep" <=> ~(i \in Used /\ Evictable(slots[i]))
<1> DEFINE s == slots[i]
           x == Translated(s)
           v == Wsw!Verdict(x)
<1>1. s.last \in Nat /\ s.air \in Nat /\ s.gnd \in Nat
  BY DEF Rows, Slot
<1>2. x.id = s.id /\ x.timing.lastAny = Stamp(s.last) /\ x.timing.lastAir = Stamp(s.air)
      /\ x.timing.firstGnd = Stamp(s.gnd) /\ x.timing.ts = -1
  BY DEF Translated
<1>3. /\ Wsw!Overdue(x.timing.firstGnd, now, LandTicks) <=> Overdue(s.gnd, LandTicks)
      /\ Wsw!Overdue(x.timing.lastAir, now, SilentTicks) <=> Overdue(s.air, SilentTicks)
      /\ Wsw!Overdue(x.timing.lastAny, now, SilentTicks) <=> Overdue(s.last, SilentTicks)
  BY <1>1, <1>2, SameOverdue
<1>4. ~Wsw!Frozen(x.timing)
  BY <1>2 DEF Wsw!Frozen, Wsw!Unset
<1> HIDE DEF s, x
<1>5. Wsw!CheckEvict(x.timing, now) # "frozen"
      /\ (Wsw!CheckEvict(x.timing, now) = "keep" <=> ~Evictable(s))
  BY <1>3, <1>4 DEF Wsw!CheckEvict, Evictable
<1>6. i \in Used <=> s.id # Blank
  BY DEF Used, s
<1>7. v # "frozen" /\ (v = "keep" <=> ~(i \in Used /\ Evictable(s)))
  BY <1>2, <1>5, <1>6 DEF Wsw!Verdict
<1> QED BY <1>7 DEF s, x

LEMMA EvictMaps ==
  ASSUME Rows, EvictSlot
  PROVE  Rows' /\ Wsw!EvictSlot
<1> DEFINE T == [j \in Slots |-> Translated(slots[j])]
           v == Wsw!Verdict(Translated(slots[cursor]))
<1>1. cursor \in Slots /\ NumSlots \in Nat /\ now' = now
      /\ cursor' = IF cursor = NumSlots THEN 0 ELSE cursor + 1
  BY XiaoAssumption DEF Rows, EvictSlot, Slots
<1>2. v # "frozen" /\ slots' = IF v = "keep" THEN slots ELSE [slots EXCEPT ![cursor] = Free]
  BY <1>1, SameVerdict DEF EvictSlot
<1>3. T[cursor] = Translated(slots[cursor])
  BY <1>1
<1>4. Translated(Free) = Wsw!Free
  BY DEF Translated, Free, Wsw!Free, Wsw!NoLocation, Wsw!NoTiming, Wsw!Unset, Stamp, Never
<1> HIDE DEF v
<1>5. Rows'
  BY <1>1, <1>2, FreeSlot DEF Rows, Slots
<1>6. [j \in Slots |-> Translated(slots'[j])]
        = IF v = "keep" THEN T ELSE [T EXCEPT ![cursor] = Wsw!Free]
  BY <1>1, <1>2, <1>4 DEF Rows
<1>7. Wsw!Verdict(T[cursor]) = v
  BY <1>3 DEF v
<1>8. cursor # 0
  BY <1>1 DEF Slots
<1> HIDE DEF T
<1>9. Wsw!EvictSlot
  <2>1. T = [j \in Slots |-> Translated(slots[j])]
    BY DEF T
  <2>2. /\ [j \in Slots |-> Translated(slots'[j])]
            = IF Wsw!Verdict([j \in Slots |-> Translated(slots[j])][cursor]) = "keep"
              THEN [j \in Slots |-> Translated(slots[j])]
              ELSE [[j \in Slots |-> Translated(slots[j])] EXCEPT ![cursor] = Wsw!Free]
        /\ Wsw!Verdict([j \in Slots |-> Translated(slots[j])][cursor]) # "frozen"
    BY <1>2, <1>6, <1>7, <2>1, Zenon
  <2> QED BY <1>1, <1>8, <2>2, Zenon DEF Wsw!EvictSlot
<1> QED BY <1>5, <1>9

LEMMA TimeoutMaps ==
  ASSUME Rows, NEW k \in Gaps, Timeout(k)
  PROVE  Rows' /\ Wsw!Timeout(k)
<1>1. Later(now, k) \in Nat /\ Wsw!Later(now, k) = Later(now, k)
  BY LaterTick DEF Rows
<1>2. now' = Later(now, k) /\ cursor = 0 /\ cursor' = 1 /\ slots' = slots
  BY DEF Timeout, Advance
<1>3. Rows'
  BY <1>1, <1>2, XiaoAssumption DEF Rows
<1>4. Wsw!Timeout(k)
  BY <1>1, <1>2 DEF Wsw!Timeout
<1> QED BY <1>3, <1>4

(* But for a pass at tick 0, and a displacement while a slot has a tick of  *)
(* the turn before, the older table does what the newer does without reject *)
(* list and ODID timestamps: attribution, merging, displacement and         *)
(* eviction agree step by step, for any drones, frames and limits.          *)
THEOREM OlderTableImplements == Spec => ImplementsRelaySlots
<1>1. Init => Rows /\ Wsw!InitSlots
  <2> SUFFICES ASSUME Init PROVE Rows /\ Wsw!InitSlots
    OBVIOUS
  <2>1. Rows
    BY FreeSlot, XiaoAssumption DEF Init, Rows
  <2>2. Translated(Free) = Wsw!Free
    BY DEF Translated, Free, Wsw!Free, Wsw!NoLocation, Wsw!NoTiming, Wsw!Unset, Stamp, Never
  <2>3. [i \in Slots |-> Translated(slots[i])] = [i \in Wsw!Slots |-> Wsw!Free]
    BY <2>2 DEF Init, Slots, Wsw!Slots
  <2>4. NoEntries = Wsw!NoRejects
    BY DEF NoEntries, Wsw!NoRejects, Wsw!RejectIndex, Wsw!NoEntry, Wsw!Unset
  <2> QED BY <2>1, <2>3, <2>4 DEF Init, Wsw!InitSlots
<1>2. Rows /\ [Next]_xiaoVars => Rows' /\ [Wsw!NextSlots \/ Misled]_xiaoVars
  <2> SUFFICES ASSUME Rows, [Next]_xiaoVars
               PROVE  Rows' /\ [Wsw!NextSlots \/ Misled]_xiaoVars
    OBVIOUS
  <2>1. Gaps = Wsw!Gaps
    BY DEF Gaps, Wsw!Gaps
  <2>2. ASSUME NEW f \in Frames, NEW k \in Gaps, Receive(f, k)
        PROVE  Rows' /\ (Wsw!NextSlots \/ Misled)
    BY <2>1, <2>2, ReceiveRows, ReceiveMaps DEF Wsw!NextSlots
  <2>3. ASSUME NEW f \in Frames, NEW k \in Gaps, Panic(f, k)
        PROVE  Rows' /\ (Wsw!NextSlots \/ Misled)
    BY <2>3, FreeSlot DEF Panic, Misled, Never, Rows
  <2>4. ASSUME NEW k \in Gaps, Timeout(k)
        PROVE  Rows' /\ (Wsw!NextSlots \/ Misled)
    BY <2>1, <2>4, TimeoutMaps DEF Wsw!NextSlots
  <2>5. CASE EvictSlot
    BY <2>5, EvictMaps DEF Wsw!NextSlots
  <2>6. CASE UNCHANGED xiaoVars
    BY <2>6 DEF xiaoVars, Rows
  <2> QED BY <2>2, <2>3, <2>4, <2>5, <2>6 DEF Next
<1> QED BY <1>1, <1>2, PTL DEF Spec, ImplementsRelaySlots
==============================================================================
