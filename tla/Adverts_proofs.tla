---------------------------- MODULE Adverts_proofs ---------------------------
(***************************************************************************)
(* Attributed, for any drones, any tables and both trees.  It is not       *)
(* inductive: what the air shows next is decided when a pass works out the *)
(* messages of a slot.  AttributionInv adds what is still to be sent: the  *)
(* messages of one drone, its Basic ID only in front, and once that is     *)
(* sent the air showed it, or it is known to have missed it.               *)
(***************************************************************************)
EXTENDS Adverts, TLAPS

(* Messages of d other than its Basic ID. *)
Details(q, d) ==
  q \in Seq(Message) /\ \A i \in DOMAIN q : q[i].of = d /\ q[i].kind # "basic"

(* The Basic ID of d and some details. *)
Complete(q, d) ==
  /\ q \in Seq(Message) /\ q # <<>>
  /\ q[1] = Basic(d)
  /\ \A i \in DOMAIN q : q[i].of = d /\ (i > 1 => q[i].kind # "basic")

TodoInv ==
  \/ \E d \in Drones \cup {Node} : Complete(todo, d)
  \/ \E d \in Drones \cup {Node} : Details(todo, d) /\ named \in {d, Nobody}
  \/ todo = <<>>

AttributionInv ==
  /\ table \in Seq(Slot) /\ slot \in Nat
  /\ TodoInv
  /\ Attributed

------------------------------------------------------------------------------
(* A message that is sent or left out adds details or nothing.              *)
LEMMA IfDetails ==
  ASSUME NEW b \in BOOLEAN, NEW m \in Message, m.kind # "basic"
  PROVE  Details(If(b, m), m.of)
BY DEF If, Details

LEMMA DetailsConcat ==
  ASSUME NEW d, NEW p, NEW q, Details(p, d), Details(q, d)
  PROVE  Details(p \o q, d)
<1>1. p \o q \in Seq(Message)
  BY DEF Details
<1>2. ASSUME NEW i \in DOMAIN (p \o q)
      PROVE  (p \o q)[i].of = d /\ (p \o q)[i].kind # "basic"
  <2>1. CASE i <= Len(p)
    BY <2>1 DEF Details
  <2>2. CASE i > Len(p)
    <3>1. i - Len(p) \in DOMAIN q /\ (p \o q)[i] = q[i - Len(p)]
      BY <2>2 DEF Details
    <3> QED BY <3>1 DEF Details
  <2> QED BY <2>1, <2>2 DEF Details
<1> QED BY <1>1, <1>2 DEF Details

LEMMA BasicDetails ==
  ASSUME NEW d \in Drones \cup {Node}, NEW q, Details(q, d)
  PROVE  Complete(<<Basic(d)>> \o q, d)
<1>1. Basic(d) \in Message
  BY DEF Basic, Message, Kinds
<1>2. <<Basic(d)>> \o q \in Seq(Message) /\ Len(<<Basic(d)>> \o q) = 1 + Len(q)
  BY <1>1 DEF Details
<1>3. (<<Basic(d)>> \o q)[1] = Basic(d)
  BY <1>1 DEF Details
<1>4. ASSUME NEW i \in DOMAIN (<<Basic(d)>> \o q), i > 1
      PROVE  /\ (<<Basic(d)>> \o q)[i].of = d
             /\ (<<Basic(d)>> \o q)[i].kind # "basic"
  <2>1. i - 1 \in DOMAIN q /\ (<<Basic(d)>> \o q)[i] = q[i - 1]
    BY <1>1, <1>2, <1>4 DEF Details
  <2> QED BY <2>1 DEF Details
<1> QED BY <1>1, <1>2, <1>3, <1>4 DEF Complete, Basic

(* A slot's burst is complete, whatever it knows of its drone.              *)
LEMMA BurstComplete ==
  ASSUME NEW s \in Slot
  PROVE  Complete(Burst(s), s.of)
<1> DEFINE self == [of |-> s.of, kind |-> "self"]
           loc  == [of |-> s.of, kind |-> "location"]
           sys  == [of |-> s.of, kind |-> "system"]
<1>1. /\ self \in Message /\ loc \in Message /\ sys \in Message
      /\ s.of \in Drones \cup {Node}
  BY DEF Slot, Message, Kinds
<1>2. /\ Details(If(cycle = 0, self), s.of)
      /\ Details(If(s.loc, loc), s.of)
      /\ Details(If(s.sys, sys), s.of)
  BY <1>1, IfDetails DEF Slot
<1> HIDE DEF self, loc, sys
<1> DEFINE q1 == If(cycle = 0, self)  q2 == If(s.loc, loc)  q3 == If(s.sys, sys)
<1>3. Burst(s) = ((<<Basic(s.of)>> \o q1) \o q2) \o q3
  BY DEF Burst, self, loc, sys
<1>4. ((<<Basic(s.of)>> \o q1) \o q2) \o q3 = <<Basic(s.of)>> \o ((q1 \o q2) \o q3)
  <2>1. Basic(s.of) \in Message
    BY <1>1 DEF Basic, Message, Kinds
  <2>2. q1 \in Seq(Message) /\ q2 \in Seq(Message) /\ q3 \in Seq(Message)
    BY <1>2 DEF Details
  <2> QED BY <2>1, <2>2, SMTT(30) DEF If
<1>5. Details((q1 \o q2) \o q3, s.of)
  BY <1>2, DetailsConcat
<1>6. Complete(<<Basic(s.of)>> \o ((q1 \o q2) \o q3), s.of)
  <2> HIDE DEF q1, q2, q3
  <2> QED BY <1>1, <1>5, BasicDetails
<1> QED BY <1>3, <1>4, <1>6

------------------------------------------------------------------------------
LEMMA AttributionInit == Init => AttributionInv
BY DEF Init, AttributionInv, TodoInv, Attributed, Off, Message, Kinds

(* Sending one message: it is on the air, or the air is dark, or the air     *)
(* did not change.                                                          *)
LEMMA SendStep ==
  ASSUME AttributionInv, todo # <<>>, air0' \in {Head(todo), Off, air0},
         todo' = Tail(todo), Shown(Head(todo)), UNCHANGED <<table, slot>>
  PROVE  AttributionInv'
<1>1. Off \notin Message
  BY DEF Off, Message, Kinds
<1>2. CASE \E d \in Drones \cup {Node} : Complete(todo, d)
  <2>1. PICK d \in Drones \cup {Node} : Complete(todo, d)
    BY <1>2
  <2>2. Head(todo) = Basic(d)
    BY <2>1 DEF Complete
  <2>3. Details(Tail(todo), d)
    BY <2>1 DEF Complete, Details
  <2>4. named' = IF air0' = Basic(d) THEN d ELSE Nobody
    <3>1. Basic(d).kind = "basic" /\ Basic(d).of = d
      BY DEF Basic
    <3>2. Shown(Basic(d))
      BY <2>2
    <3> QED BY <3>1, <3>2 DEF Shown
  <2>5. Attributed'
    BY <1>1, <2>2, <2>4 DEF AttributionInv, Attributed, Basic
  <2> QED BY <2>3, <2>4, <2>5 DEF AttributionInv, TodoInv
<1>3. CASE \E d \in Drones \cup {Node} : Details(todo, d) /\ named \in {d, Nobody}
  <2>1. PICK d \in Drones \cup {Node} : Details(todo, d) /\ named \in {d, Nobody}
    BY <1>3
  <2>2. Head(todo).of = d /\ Head(todo).kind # "basic"
    BY <2>1 DEF Details
  <2>3. Details(Tail(todo), d)
    BY <2>1 DEF Details
  <2>4. named' = named
    BY <2>2 DEF Shown
  <2>5. Attributed'
    BY <1>1, <2>1, <2>2, <2>4 DEF AttributionInv, Attributed
  <2> QED BY <2>1, <2>3, <2>4, <2>5 DEF AttributionInv, TodoInv
<1> QED BY <1>2, <1>3 DEF AttributionInv, TodoInv

LEMMA AttributionStep == AttributionInv /\ [Next]_vars => AttributionInv'
<1> SUFFICES ASSUME AttributionInv, [Next]_vars PROVE AttributionInv'
  OBVIOUS
<1> USE DEF airVars, tableVars, outVars, bootVars, stackVars
<1>1. ASSUME UNCHANGED <<table, slot, todo, named>>, air0' \in {air0, Off}
      PROVE  AttributionInv'
  <2>1. Off \notin Message
    BY DEF Off, Message, Kinds
  <2>2. Attributed'
    BY <1>1, <2>1 DEF AttributionInv, Attributed
  <2> QED BY <1>1, <2>2 DEF AttributionInv, TodoInv
<1>2. ASSUME NEW T \in Tables, BeginPass(T) PROVE AttributionInv'
  <2>1. T \in Seq(Slot)
    BY AdvertsAssumption
  <2>2. UNCHANGED <<air0, named>>
    BY <1>2 DEF BeginPass
  <2>3. CASE T = <<>>
    BY <1>2, <2>1, <2>2, <2>3 DEF BeginPass, AttributionInv, TodoInv, Attributed
  <2>4. CASE T # <<>>
    <3>1. table' = T /\ slot' = 1 /\ todo' = Burst(T[1]) /\ T[1] \in Slot
      BY <1>2, <2>1, <2>4 DEF BeginPass
    <3>2. Complete(todo', T[1].of) /\ T[1].of \in Drones \cup {Node}
      BY <3>1, BurstComplete DEF Slot
    <3> QED BY <2>1, <2>2, <3>1, <3>2 DEF AttributionInv, TodoInv, Attributed
  <2> QED BY <2>3, <2>4
<1>3. ASSUME Dark PROVE AttributionInv'
  <2>1. Basic(Node) \in Message
    BY DEF Basic, Message, Kinds
  <2>2. Complete(<<Basic(Node)>>, Node)
    BY <2>1 DEF Complete, Basic
  <2> QED BY <1>3, <2>2 DEF Dark, AttributionInv, TodoInv, Attributed
<1>4. ASSUME NextSlot PROVE AttributionInv'
  <2>1. table[slot + 1] \in Slot /\ slot + 1 \in Nat
    BY <1>4 DEF NextSlot, AttributionInv
  <2>2. Complete(todo', table[slot + 1].of)
    BY <1>4, <2>1, BurstComplete DEF NextSlot
  <2> QED BY <1>4, <2>1, <2>2 DEF NextSlot, AttributionInv, TodoInv, Attributed, Slot
<1>5. ASSUME Emit PROVE AttributionInv'
  BY <1>5, SendStep DEF Emit, Sending
<1>6. ASSUME EmitFails PROVE AttributionInv'
  BY <1>6, SendStep DEF EmitFails, Sending
<1>7. ASSUME Quiet PROVE AttributionInv'
  BY <1>1, <1>7 DEF Quiet
<1>8. ASSUME EndPass PROVE AttributionInv'
  BY <1>1, <1>8 DEF EndPass
<1>9. ASSUME NEW t \in Tasks, DetSet(t) \/ DetSetFails(t) PROVE AttributionInv'
  BY <1>1, <1>9 DEF DetSet, DetSetFails
<1>10. ASSUME OutTake \/ OutIdle \/ Frame PROVE AttributionInv'
  BY <1>1, <1>10 DEF OutTake, OutIdle, Frame
<1>11. ASSUME HostLost \/ OnReset \/ HostSync PROVE AttributionInv'
  BY <1>1, <1>11 DEF HostLost, OnReset, HostSync
<1>12. ASSUME NEW ok \in BOOLEAN, SyncRelay(ok) \/ SyncIdentity(ok)
       PROVE  AttributionInv'
  BY <1>1, <1>12 DEF SyncRelay, SyncIdentity
<1>13. ASSUME SyncDetection \/ SyncDetectionFails \/ SyncReady PROVE AttributionInv'
  BY <1>1, <1>13 DEF SyncDetection, SyncDetectionFails, SyncReady
<1>14. ASSUME UNCHANGED vars PROVE AttributionInv'
  BY <1>1, <1>14 DEF vars
<1> QED
  BY <1>2, <1>3, <1>4, <1>5, <1>6, <1>7, <1>8, <1>9, <1>10, <1>11, <1>12, <1>13,
     <1>14 DEF Next, Host, Relay, Output, Tasks

(* On handle 0 no position or operator is ever shown as another drone's:     *)
(* whatever the tables, resets and failing commands, what is on the air is  *)
(* of the drone whose Basic ID the air showed last, unless one was missed.  *)
THEOREM BurstsAttributed == Spec => []Attributed
<1>1. AttributionInv => Attributed
  BY DEF AttributionInv
<1> QED BY AttributionInit, AttributionStep, <1>1, PTL DEF Spec
==============================================================================
