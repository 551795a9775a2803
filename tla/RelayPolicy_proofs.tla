-------------------------- MODULE RelayPolicy_proofs -------------------------
(***************************************************************************)
(* What the operators of RelayPolicy return, for every value of the        *)
(* constants.  The proofs about the components cite these lemmas.          *)
(***************************************************************************)
EXTENDS RelayPolicy, FiniteSetTheorems, WellFoundedInduction, TLAPS

(* A non-empty set of naturals has a least element. *)
LEMMA LeastNatural ==
  ASSUME NEW S \in SUBSET Nat, S # {}
  PROVE  \E i \in S : \A j \in S : i <= j
<1> DEFINE R == OpToRel(<, Nat)
<1>1. IsWellFoundedOn(R, Nat)
  BY NatLessThanWellFounded
<1>2. \E i \in S : \A j \in S : ~(<<j, i>> \in R)
  BY <1>1, WFMin
<1>3. \A i, j \in Nat : <<j, i>> \in R <=> j < i
  BY DEF OpToRel
<1>4. PICK i \in S : \A j \in S : ~(<<j, i>> \in R)
  BY <1>2
<1>5. \A j \in S : ~(j < i)
  BY <1>3, <1>4
<1> QED BY <1>5

(* Induction over the naturals, for a property given as a set.              *)
LEMMA SetInduction ==
  ASSUME NEW S \in SUBSET Nat, 0 \in S, \A n \in S : n + 1 \in S
  PROVE  \A n \in Nat : n \in S
<1>1. SUFFICES ASSUME Nat \ S # {} PROVE FALSE
  OBVIOUS
<1>2. PICK m \in Nat \ S : \A j \in Nat \ S : m <= j
  BY <1>1, LeastNatural
<1>3. m # 0 /\ m - 1 \in Nat /\ m - 1 \in S
  BY <1>2
<1> QED BY <1>2, <1>3

(* First picks the least index, so the C loops that stop at the first match *)
(* and First(...) agree.                                                    *)
LEMMA FirstIsLeast ==
  ASSUME NEW S \in SUBSET Nat, S # {}
  PROVE  /\ First(S) \in S
         /\ \A j \in S : First(S) <= j
BY LeastNatural DEF First

(* Unsigned subtraction undoes the passing of time: a stamp taken at t is   *)
(* n ticks old after n ticks, as long as n is less than a full turn.        *)
LEMMA SinceType ==
  ASSUME NEW t \in Stamp, NEW n \in Tick
  PROVE  Since(t, n) \in 0 .. TickMod
BY TickAssumption DEF Since, Stamp, Tick, Unset

LEMMA LaterType ==
  ASSUME NEW t \in Tick, NEW k \in Nat, k < TickMod
  PROVE  Later(t, k) \in Tick
BY TickAssumption DEF Later, Tick

LEMMA SinceLater ==
  ASSUME NEW t \in Tick, NEW n \in Tick, NEW k \in Nat,
         Since(t, n) + k < TickMod
  PROVE  Since(t, Later(n, k)) = Since(t, n) + k
BY TickAssumption DEF Since, Later, Tick

LEMMA SinceSelf ==
  ASSUME NEW t \in Tick
  PROVE  Since(t, t) = 0
BY DEF Since, Tick

(* The timing bookkeeping keeps its type. *)
LEMMA TimingType ==
  ASSUME NEW t \in Timing, NEW n \in Tick
  PROVE  /\ NoteFrame(t, n) \in Timing
         /\ \A air, ever : NoteAirborneState(t, air, ever, n) \in Timing
         /\ \A ts : NoteLocationTs(t, ts, n) \in Timing
<1>1. n \in Stamp /\ Unset \in Stamp
  BY DEF Stamp
<1>2. NoteFrame(t, n) \in Timing
  BY <1>1 DEF NoteFrame, Timing
<1>3. ASSUME NEW air, NEW ever
      PROVE  NoteAirborneState(t, air, ever, n) \in Timing
  BY <1>1 DEF NoteAirborneState, Timing
<1>4. ASSUME NEW ts
      PROVE  NoteLocationTs(t, ts, n) \in Timing
  BY <1>1 DEF NoteLocationTs, Timing
<1> QED BY <1>2, <1>3, <1>4

(* A full list has an oldest entry.                                         *)
LEMMA OldestEntryExists ==
  ASSUME NEW l \in RejectList, NEW n \in Tick
  PROVE  {i \in RejectIndex :
            \A j \in RejectIndex : Since(l[j].at, n) <= Since(l[i].at, n)} # {}
<1> DEFINE age(i) == Since(l[i].at, n)
           rest == {TickMod - age(i) : i \in RejectIndex}
<1>1. \A i \in RejectIndex : age(i) \in 0 .. TickMod
  BY SinceType DEF RejectList, RejectEntry
<1>2. rest \in SUBSET Nat /\ rest # {}
  BY <1>1, TickAssumption, RejectAssumption DEF RejectIndex
<1>3. PICK m \in rest : \A r \in rest : m <= r
  BY <1>2, LeastNatural
<1>4. PICK i \in RejectIndex : m = TickMod - age(i)
  BY <1>3
<1>5. \A j \in RejectIndex : TickMod - age(i) <= TickMod - age(j)
  BY <1>3, <1>4
<1>6. \A j \in RejectIndex : age(j) <= age(i)
  <2> HIDE DEF age
  <2> QED BY <1>1, <1>5, TickAssumption
<1> QED BY <1>6

(* rp_reject_add writes one existing entry, or none. *)
LEMMA RejectTargetType ==
  ASSUME NEW l \in RejectList, NEW id, NEW ts, NEW n \in Tick
  PROVE  RejectTarget(l, id, ts, n) \in RejectIndex
<1> DEFINE same == {i \in RejectIndex : EntryMatches(l[i], id, ts)}
           dead == {i \in RejectIndex : ~EntryLive(l[i], n)}
           oldest == {i \in RejectIndex :
             \A j \in RejectIndex : Since(l[j].at, n) <= Since(l[i].at, n)}
<1>1. RejectIndex \subseteq Nat
  BY DEF RejectIndex
<1>2. same # {} => First(same) \in RejectIndex
  BY <1>1, FirstIsLeast
<1>3. dead # {} => First(dead) \in RejectIndex
  BY <1>1, FirstIsLeast
<1>4. First(oldest) \in RejectIndex
  BY <1>1, OldestEntryExists, FirstIsLeast
<1>5. OldestEntry(l, n) = First(oldest)
  BY DEF OldestEntry
<1> QED BY <1>2, <1>3, <1>4, <1>5 DEF RejectTarget

LEMMA RejectAddType ==
  ASSUME NEW l \in RejectList, NEW id \in UasIds \cup {Blank}, NEW ts,
         NEW n \in Tick
  PROVE  RejectAdd(l, id, ts, n) \in RejectList
<1>1. RejectTarget(l, id, ts, n) \in RejectIndex
  BY RejectTargetType
<1>2. ts \in OdidTs => [id |-> id, ts |-> ts, at |-> n] \in RejectEntry
  BY DEF RejectEntry, Stamp
<1> QED BY <1>1, <1>2 DEF RejectAdd, Listable, RejectList

------------------------------------------------------------------------------
(***************************************************************************)
(* What a reject list l holds at tick n, s ticks after it was empty, when  *)
(* age says how long ago each pair was added, up to one tick beyond its    *)
(* life.  Less than a turn of the counter has passed.  An entry whose life *)
(* is over may still be in the list; what matters is that a pair younger   *)
(* than some entry's is never without one.                                 *)
(***************************************************************************)
RejectPairs == UasIds \X OdidTs
AgeUpTo(n)  == IF n <= RejectTtl THEN n ELSE RejectTtl + 1

EntryUsed(l, x) == l[x].at # Unset
EntryPair(l, x) == <<l[x].id, l[x].ts>>
Listed(l, pair) == \E x \in RejectIndex : EntryUsed(l, x) /\ EntryPair(l, x) = pair

ListTyped(l, n, age, s) ==
  /\ l \in RejectList /\ n \in Tick
  /\ s \in Nat /\ s < TickMod
  /\ age \in [RejectPairs -> 0 .. RejectTtl + 1]

(* An entry is a pair's, its stamp within the run, its age the pair's.      *)
EntryDated(l, n, age, s, x) ==
  /\ EntryPair(l, x) \in RejectPairs
  /\ Since(l[x].at, n) <= s
  /\ age[EntryPair(l, x)] = AgeUpTo(Since(l[x].at, n))

OneEach(l) ==
  \A x, y \in RejectIndex :
    EntryUsed(l, x) /\ EntryUsed(l, y) /\ EntryPair(l, x) = EntryPair(l, y) => x = y

(* A young pair without an entry has given way to younger ones everywhere.  *)
Outlived(l, age) ==
  \A pair \in RejectPairs : age[pair] <= RejectTtl /\ ~Listed(l, pair) =>
    \A x \in RejectIndex : EntryUsed(l, x) /\ age[EntryPair(l, x)] <= age[pair]

ListInv(l, n, age, s) ==
  /\ ListTyped(l, n, age, s)
  /\ \A x \in RejectIndex : EntryUsed(l, x) => EntryDated(l, n, age, s, x)
  /\ OneEach(l)
  /\ Outlived(l, age)

LEMMA AgeUpToType ==
  ASSUME NEW t \in Nat
  PROVE  /\ AgeUpTo(t) \in 0 .. RejectTtl + 1
         /\ AgeUpTo(t) <= RejectTtl <=> t <= RejectTtl
         /\ \A m \in Nat : m <= t => AgeUpTo(m) <= AgeUpTo(t)
         /\ \A k \in Nat : AgeUpTo(AgeUpTo(t) + k) = AgeUpTo(t + k)
BY RejectAssumption DEF AgeUpTo

LEMMA EntryFields ==
  ASSUME NEW l \in RejectList, NEW n \in Tick, NEW x \in RejectIndex
  PROVE  /\ l[x].id \in UasIds \cup {Blank} /\ l[x].ts \in OdidTs \cup {Unset}
         /\ l[x].at \in Stamp
         /\ EntryUsed(l, x) => l[x].at \in Tick
         /\ Since(l[x].at, n) \in Nat
BY SinceType, TickAssumption DEF RejectList, RejectEntry, EntryUsed, Stamp

LEMMA PairFields ==
  ASSUME NEW pair \in RejectPairs
  PROVE  /\ pair = <<pair[1], pair[2]>> /\ Listable(pair[1], pair[2])
         /\ pair[1] \in UasIds /\ pair[2] \in OdidTs
BY RejectAssumption DEF RejectPairs, Listable

(* A pair is refused exactly when it is listed and young.                   *)
LEMMA RefusedListed ==
  ASSUME NEW l, NEW n, NEW age, NEW s, ListInv(l, n, age, s), NEW pair \in RejectPairs
  PROVE  RejectContains(l, pair[1], pair[2], n) <=> Listed(l, pair) /\ age[pair] <= RejectTtl
<1>1. Listable(pair[1], pair[2]) /\ pair = <<pair[1], pair[2]>>
  BY PairFields
<1>2. ASSUME NEW x \in RejectIndex
      PROVE  EntryMatches(l[x], pair[1], pair[2]) <=> EntryUsed(l, x) /\ EntryPair(l, x) = pair
  BY <1>1 DEF EntryMatches, EntryUsed, EntryPair
<1>3. ASSUME NEW x \in RejectIndex, EntryUsed(l, x), EntryPair(l, x) = pair
      PROVE  EntryLive(l[x], n) <=> age[pair] <= RejectTtl
  <2>1. Since(l[x].at, n) \in Nat
    BY EntryFields DEF ListInv, ListTyped
  <2>2. age[pair] = AgeUpTo(Since(l[x].at, n))
    BY <1>3 DEF ListInv, EntryDated
  <2>3. age[pair] <= RejectTtl <=> Since(l[x].at, n) <= RejectTtl
    BY <2>1, <2>2, RejectAssumption DEF AgeUpTo
  <2> QED BY <1>3, <2>3 DEF EntryLive, EntryUsed
<1> QED BY <1>1, <1>2, <1>3 DEF RejectContains, Listed

LEMMA ListStarts ==
  ASSUME NEW n \in Tick
  PROVE  ListInv(NoRejects, n, [pair \in RejectPairs |-> RejectTtl + 1], 0)
<1> DEFINE age == [pair \in RejectPairs |-> RejectTtl + 1]
<1>1. ListTyped(NoRejects, n, age, 0)
  BY RejectAssumption, TickAssumption
  DEF ListTyped, NoRejects, NoEntry, RejectList, RejectEntry, Stamp
<1>2. \A x \in RejectIndex : ~EntryUsed(NoRejects, x)
  BY DEF NoRejects, NoEntry, EntryUsed
<1>3. \A pair \in RejectPairs : ~(age[pair] <= RejectTtl)
  BY RejectAssumption
<1> QED BY <1>1, <1>2, <1>3 DEF ListInv, OneEach, Outlived

LEMMA ListWaits ==
  ASSUME NEW l, NEW n, NEW age, NEW s, ListInv(l, n, age, s),
         NEW k \in Nat, s + k < TickMod
  PROVE  ListInv(l, Later(n, k), [pair \in RejectPairs |-> AgeUpTo(age[pair] + k)], s + k)
<1> DEFINE m  == Later(n, k)
           older == [pair \in RejectPairs |-> AgeUpTo(age[pair] + k)]
<1>1. l \in RejectList /\ n \in Tick /\ s \in Nat /\ k < TickMod
  BY TickAssumption DEF ListInv, ListTyped
<1>2. m \in Tick
  BY <1>1, LaterType
<1>3. \A pair \in RejectPairs : age[pair] \in 0 .. RejectTtl + 1
  BY DEF ListInv, ListTyped
<1>4. \A pair \in RejectPairs :
        age[pair] \in Nat /\ age[pair] <= older[pair] /\ older[pair] \in 0 .. RejectTtl + 1
  BY <1>3, RejectAssumption DEF AgeUpTo
<1>5. ListTyped(l, m, older, s + k)
  BY <1>1, <1>2, <1>4 DEF ListTyped
<1>6. ASSUME NEW x \in RejectIndex, EntryUsed(l, x)
      PROVE  EntryDated(l, m, older, s + k, x)
  <2>1. EntryDated(l, n, age, s, x) /\ l[x].at \in Tick /\ Since(l[x].at, n) \in Nat
    BY <1>1, <1>6, EntryFields DEF ListInv
  <2>2. Since(l[x].at, n) + k < TickMod
    BY <1>1, <2>1, TickAssumption DEF EntryDated
  <2>3. Since(l[x].at, m) = Since(l[x].at, n) + k
    BY <1>1, <2>1, <2>2, SinceLater
  <2>4. older[EntryPair(l, x)] = AgeUpTo(Since(l[x].at, n) + k)
    BY <2>1, AgeUpToType DEF EntryDated
  <2> QED BY <1>1, <2>1, <2>3, <2>4 DEF EntryDated
<1>7. ASSUME NEW pair \in RejectPairs, older[pair] <= RejectTtl, ~Listed(l, pair),
             NEW x \in RejectIndex
      PROVE  EntryUsed(l, x) /\ older[EntryPair(l, x)] <= older[pair]
  <2>1. age[pair] <= RejectTtl
    BY <1>4, <1>7, RejectAssumption
  <2>2. EntryUsed(l, x) /\ age[EntryPair(l, x)] <= age[pair]
    BY <1>7, <2>1 DEF ListInv, Outlived
  <2>3. EntryPair(l, x) \in RejectPairs
    BY <2>2 DEF ListInv, EntryDated
  <2>4. /\ age[EntryPair(l, x)] + k <= age[pair] + k
        /\ age[EntryPair(l, x)] + k \in Nat /\ age[pair] + k \in Nat
    BY <1>4, <2>2, <2>3
  <2>5. AgeUpTo(age[EntryPair(l, x)] + k) <= AgeUpTo(age[pair] + k)
    BY <2>4, AgeUpToType
  <2> QED BY <2>2, <2>3, <2>5
<1> QED BY <1>5, <1>6, <1>7 DEF ListInv, Outlived

(* The entry rp_reject_add writes is the pair's own, or not in use any more, *)
(* or the list is full of live ones and it is the oldest.                   *)
LEMMA ListTarget ==
  ASSUME NEW l, NEW n, NEW age, NEW s, ListInv(l, n, age, s), NEW pair \in RejectPairs
  PROVE  LET o == RejectTarget(l, pair[1], pair[2], n)
         IN  /\ o \in RejectIndex
             /\ \/ EntryUsed(l, o) /\ EntryPair(l, o) = pair
                \/ ~Listed(l, pair) /\ ~EntryLive(l[o], n)
                \/ /\ ~Listed(l, pair)
                   /\ \A j \in RejectIndex :
                        EntryLive(l[j], n) /\ Since(l[j].at, n) <= Since(l[o].at, n)
<1> DEFINE same == {x \in RejectIndex : EntryMatches(l[x], pair[1], pair[2])}
           dead == {x \in RejectIndex : ~EntryLive(l[x], n)}
           oldest == {x \in RejectIndex :
             \A j \in RejectIndex : Since(l[j].at, n) <= Since(l[x].at, n)}
           o == RejectTarget(l, pair[1], pair[2], n)
<1>1. o \in RejectIndex
  BY RejectTargetType DEF ListInv, ListTyped
<1>2. \A x \in RejectIndex : x \in same <=> EntryUsed(l, x) /\ EntryPair(l, x) = pair
  BY PairFields DEF EntryMatches, EntryUsed, EntryPair
<1>3. same = {} <=> ~Listed(l, pair)
  BY <1>2 DEF Listed
<1>4. RejectIndex \in SUBSET Nat
  BY DEF RejectIndex
<1>5. CASE same # {}
  <2>1. o = First(same) /\ same \in SUBSET Nat
    BY <1>4, <1>5 DEF RejectTarget
  <2> QED BY <1>1, <1>2, <1>5, <2>1, FirstIsLeast
<1>6. CASE same = {} /\ dead # {}
  <2>1. o = First(dead) /\ dead \in SUBSET Nat
    BY <1>4, <1>6 DEF RejectTarget
  <2>2. o \in dead
    BY <1>6, <2>1, FirstIsLeast
  <2> QED BY <1>1, <1>3, <1>6, <2>2
<1>7. CASE same = {} /\ dead = {}
  <2>1. o = First(oldest) /\ oldest \in SUBSET Nat
    BY <1>4, <1>7 DEF RejectTarget, OldestEntry
  <2>2. oldest # {}
    BY OldestEntryExists DEF ListInv, ListTyped
  <2>3. o \in oldest
    BY <2>1, <2>2, FirstIsLeast
  <2> QED BY <1>1, <1>3, <1>7, <2>3
<1> QED BY <1>5, <1>6, <1>7

LEMMA ListAdds ==
  ASSUME NEW l, NEW n, NEW age, NEW s, ListInv(l, n, age, s), NEW pair \in RejectPairs
  PROVE  ListInv(RejectAdd(l, pair[1], pair[2], n), n, [age EXCEPT ![pair] = 0], s)
<1> DEFINE e == [id |-> pair[1], ts |-> pair[2], at |-> n]
           l2 == RejectAdd(l, pair[1], pair[2], n)
           age2 == [age EXCEPT ![pair] = 0]
<1>1. l \in RejectList /\ n \in Tick /\ n # Unset /\ Since(n, n) = 0 /\ s \in Nat
  BY SinceSelf DEF ListInv, ListTyped, Tick, Unset
<1>2. PICK o \in RejectIndex : o = RejectTarget(l, pair[1], pair[2], n)
  BY ListTarget
<1>3. l2 = [l EXCEPT ![o] = e]
  BY <1>2, PairFields DEF RejectAdd
<1>4. ListTyped(l2, n, age2, s)
  <2>1. l2 \in RejectList
    BY <1>1, PairFields, RejectAddType
  <2>2. 0 \in 0 .. RejectTtl + 1
    BY RejectAssumption
  <2> QED BY <1>1, <2>1, <2>2 DEF ListInv, ListTyped
<1>5. EntryUsed(l2, o) /\ EntryPair(l2, o) = pair /\ l2[o].at = n
  BY <1>1, <1>3, PairFields DEF EntryUsed, EntryPair, RejectList
<1>6. \A x \in RejectIndex \ {o} : l2[x] = l[x]
  BY <1>1, <1>3 DEF RejectList
<1>7. \A x \in RejectIndex \ {o} :
        EntryUsed(l2, x) = EntryUsed(l, x) /\ EntryPair(l2, x) = EntryPair(l, x)
  BY <1>6 DEF EntryUsed, EntryPair
<1>8. age2[pair] = 0 /\ \A q \in RejectPairs \ {pair} : age2[q] = age[q]
  BY DEF ListInv, ListTyped
(* Its pair is only in the entry that was written. *)
<1>9. \A x \in RejectIndex \ {o} : EntryUsed(l, x) => EntryPair(l, x) # pair
  <2> SUFFICES ASSUME NEW x \in RejectIndex \ {o}, EntryUsed(l, x), EntryPair(l, x) = pair
               PROVE  FALSE
    OBVIOUS
  <2>1. Listed(l, pair)
    BY DEF Listed
  <2>2. EntryUsed(l, o) /\ EntryPair(l, o) = pair
    BY <1>2, <2>1, ListTarget
  <2> QED BY <1>2, <2>2 DEF ListInv, OneEach
<1>10. ASSUME NEW x \in RejectIndex, EntryUsed(l2, x)
       PROVE  EntryDated(l2, n, age2, s, x)
  <2>1. CASE x = o
    <3>1. AgeUpTo(0) = 0
      BY RejectAssumption DEF AgeUpTo
    <3> QED BY <1>1, <1>5, <1>8, <2>1, <3>1 DEF EntryDated
  <2>2. CASE x # o
    <3>1. EntryUsed(l, x) /\ EntryPair(l, x) # pair /\ EntryDated(l, n, age, s, x)
      BY <1>7, <1>9, <1>10, <2>2 DEF ListInv
    <3>2. EntryPair(l2, x) = EntryPair(l, x) /\ l2[x] = l[x] /\ EntryPair(l, x) \in RejectPairs
      BY <1>6, <1>7, <2>2, <3>1 DEF EntryDated
    <3> QED BY <1>8, <3>1, <3>2 DEF EntryDated
  <2> QED BY <2>1, <2>2
<1>11. OneEach(l2)
  BY <1>5, <1>7, <1>9 DEF OneEach, ListInv
<1>12. ASSUME NEW q \in RejectPairs, age2[q] <= RejectTtl, ~Listed(l2, q),
              NEW x \in RejectIndex
       PROVE  EntryUsed(l2, x) /\ age2[EntryPair(l2, x)] <= age2[q]
  <2>1. q # pair /\ age2[q] = age[q] /\ age[q] \in Nat /\ age[q] <= RejectTtl
    BY <1>2, <1>5, <1>8, <1>12 DEF Listed, ListInv, ListTyped
  <2>2. CASE x = o
    BY <1>5, <1>8, <2>1, <2>2
  <2>3. CASE x # o
    <3>1. SUFFICES EntryUsed(l, x) /\ age[EntryPair(l, x)] <= age[q]
      <4>1. EntryPair(l, x) \in RejectPairs /\ EntryPair(l, x) # pair
        BY <1>9, <2>3, <3>1 DEF ListInv, EntryDated
      <4> QED BY <1>7, <1>8, <2>1, <2>3, <3>1, <4>1
    <3>2. CASE ~Listed(l, q)
      BY <2>1, <3>2 DEF ListInv, Outlived
    <3>3. CASE Listed(l, q)
      <4>1. EntryUsed(l, o) /\ EntryPair(l, o) = q
        BY <1>7, <1>12, <3>3 DEF Listed
      <4>2. age[q] = AgeUpTo(Since(l[o].at, n)) /\ Since(l[o].at, n) \in Nat
        BY <1>1, <4>1, EntryFields DEF ListInv, EntryDated
      <4>3. EntryLive(l[o], n)
        <5>1. Since(l[o].at, n) <= RejectTtl
          BY <2>1, <4>2, RejectAssumption DEF AgeUpTo
        <5> QED BY <4>1, <5>1 DEF EntryLive, EntryUsed
      <4>4. EntryLive(l[x], n) /\ Since(l[x].at, n) <= Since(l[o].at, n)
        BY <1>2, <2>1, <4>1, <4>3, ListTarget
      <4>5. /\ EntryUsed(l, x) /\ age[EntryPair(l, x)] = AgeUpTo(Since(l[x].at, n))
            /\ Since(l[x].at, n) \in Nat
        BY <1>1, <4>4, EntryFields DEF ListInv, EntryDated, EntryLive, EntryUsed
      <4> QED BY <4>2, <4>4, <4>5, AgeUpToType
    <3> QED BY <3>2, <3>3
  <2> QED BY <2>2, <2>3
<1> QED BY <1>4, <1>10, <1>11, <1>12 DEF ListInv, Outlived

(* Adding a pair lists no other.                                            *)
LEMMA ListAddsOnly ==
  ASSUME NEW l \in RejectList, NEW n \in Tick, NEW pair \in RejectPairs, NEW q,
         Listed(RejectAdd(l, pair[1], pair[2], n), q)
  PROVE  q = pair \/ Listed(l, q)
<1> DEFINE e == [id |-> pair[1], ts |-> pair[2], at |-> n]
           l2 == RejectAdd(l, pair[1], pair[2], n)
<1>1. PICK o \in RejectIndex : l2 = [l EXCEPT ![o] = e]
  BY RejectTargetType, PairFields DEF RejectAdd
<1>2. PICK x \in RejectIndex : EntryUsed(l2, x) /\ EntryPair(l2, x) = q
  BY DEF Listed
<1>3. CASE x = o
  BY <1>1, <1>2, <1>3, PairFields DEF EntryPair, RejectList
<1>4. CASE x # o
  <2>1. l2[x] = l[x]
    BY <1>1, <1>4 DEF RejectList
  <2> QED BY <1>2, <2>1 DEF Listed, EntryUsed, EntryPair
<1> QED BY <1>3, <1>4

(* The pairs added last are listed, as many as the list has entries: if one *)
(* of them were not, every entry would hold a younger pair.                 *)
LEMMA LatestListed ==
  ASSUME NEW l, NEW n, NEW age, NEW s, ListInv(l, n, age, s), IsFiniteSet(UasIds),
         NEW pair \in RejectPairs, age[pair] <= RejectTtl, ~Listed(l, pair)
  PROVE  /\ IsFiniteSet({q \in RejectPairs : age[q] <= age[pair]})
         /\ Cardinality({q \in RejectPairs : age[q] <= age[pair]}) > RejectSlots
<1> DEFINE S == {q \in RejectPairs : age[q] <= age[pair]}
           T == S \ {pair}
           f == [x \in RejectIndex |-> EntryPair(l, x)]
<1>1. IsFiniteSet(S)
  <2>1. IsFiniteSet(OdidTs)
    BY RejectAssumption, FS_Interval DEF OdidTs
  <2>2. IsFiniteSet(RejectPairs)
    BY <2>1, FS_Product DEF RejectPairs
  <2> QED BY <2>2, FS_Subset
<1>2. pair \in S
  BY DEF ListInv, ListTyped
<1>3. IsFiniteSet(T) /\ Cardinality(T) = Cardinality(S) - 1
  BY <1>1, <1>2, FS_RemoveElement
<1>4. \A x \in RejectIndex : EntryUsed(l, x) /\ EntryPair(l, x) \in T
  BY DEF ListInv, Outlived, EntryDated, Listed
<1>5. f \in Injection(RejectIndex, T)
  BY <1>4 DEF Injection, IsInjective, ListInv, OneEach
<1>6. Cardinality(RejectIndex) = RejectSlots
  BY RejectAssumption, FS_Interval DEF RejectIndex
<1>7. RejectSlots <= Cardinality(T)
  BY <1>3, <1>5, <1>6, FS_Injection
<1>8. Cardinality(S) \in Nat
  BY <1>1, FS_CardinalityType
<1> QED BY <1>1, <1>3, <1>7, <1>8, RejectAssumption
==============================================================================
