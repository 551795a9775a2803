------------------------------- MODULE RelayLoad -----------------------------
(***************************************************************************)
(* relay_task of WSW-Firmware/main/ble_relay.c against the clock.  A pass  *)
(* of its loop takes one frame from the relay queue and then spends time   *)
(* on every live slot, so with many drones the frames come faster than     *)
(* they are taken, wait in the queue and, once it is full, are dropped     *)
(* (distributor_task sends without waiting).                               *)
(*                                                                         *)
(* A tick is the 50 ms between two payloads of a burst.  Every frame names *)
(* its drone and carries a position, all slots fit, and only the rule for  *)
(* slots without frames evicts: the drones never land or freeze.           *)
(***************************************************************************)
EXTENDS Integers, Sequences, FiniteSets

CONSTANTS
  Drones,
  Depth,        \* WSD_DETECT_QUEUE_DEPTH
  Burst,        \* ticks a pass spends on one live slot
  CycleLen,     \* every so many passes a slot also sends its Self-ID
  SilentTicks,  \* maybe_evict_slot's silent_ticks
  MinPeriod,    \* a drone transmits at most this often ...
  MaxPeriod,    \* ... and at least this often
  Phase         \* ticks since each drone's last frame, at the start

ASSUME LoadAssumption ==
  /\ IsFiniteSet(Drones)
  /\ Depth \in Nat \ {0} /\ Burst \in Nat \ {0} /\ CycleLen \in Nat \ {0}
  /\ SilentTicks \in Nat
  /\ MinPeriod \in Nat \ {0} /\ MaxPeriod \in Nat /\ MinPeriod <= MaxPeriod
  /\ Phase \in [Drones -> 0 .. MaxPeriod]

VARIABLES
  queue,   \* relay_queue: the drone of each frame and how long ago it came
  merged,  \* ticks since a frame of each drone was merged; Gone without a slot
  busy,    \* ticks left of the current pass
  waited,  \* xQueueReceive has waited for a tick
  cycle,   \* cycle
  sent     \* ticks since each drone's last frame was received

loadVars == <<queue, merged, busy, waited, cycle, sent>>

Gone == -1

InitLoad ==
  /\ queue = <<>>
  /\ merged = [d \in Drones |-> Gone]
  /\ busy = 0 /\ waited = FALSE /\ cycle = 0
  /\ sent = Phase

Live(m) == {d \in Drones : m[d] # Gone}

(* What a pass that leaves the drones in live in the table takes.           *)
SelfId == IF cycle = 0 THEN 1 ELSE 0
PassTicks(live) ==
  IF live = {} THEN 1 ELSE (Burst + SelfId) * Cardinality(live)

------------------------------------------------------------------------------
(* A frame of d is decoded; the distributor drops it when the queue is full. *)
Transmit(d) ==
  /\ sent[d] >= MinPeriod
  /\ sent' = [sent EXCEPT ![d] = 0]
  /\ queue' = IF Len(queue) < Depth THEN Append(queue, [of |-> d, age |-> 0])
              ELSE queue
  /\ UNCHANGED <<merged, busy, waited, cycle>>

(* Mutant: off by one tick. *)
EvictAtLimit(m) == [d \in Drones |-> IF m[d] >= SilentTicks THEN Gone ELSE m[d]]

(* The eviction loop.                                                       *)
Evict(m) == [d \in Drones |-> IF m[d] > SilentTicks THEN Gone ELSE m[d]]

(* The rest of a pass once the table has become m: evict and broadcast.     *)
Finish(m) ==
  /\ merged' = Evict(m)
  /\ busy' = PassTicks(Live(merged'))
  /\ waited' = FALSE
  /\ cycle' = IF Live(merged') = {} THEN 0 ELSE (cycle + 1) % CycleLen
  /\ UNCHANGED sent

(* Mutant: the last frame put on the queue is taken first. *)
PassTakesLast ==
  /\ busy = 0 /\ queue # <<>>
  /\ queue' = SubSeq(queue, 1, Len(queue) - 1)
  /\ Finish([merged EXCEPT ![queue[Len(queue)].of] = 0])

(* A pass takes the first frame of the queue and merges it ...              *)
Pass ==
  /\ busy = 0 /\ queue # <<>>
  /\ queue' = Tail(queue)
  /\ Finish([merged EXCEPT ![Head(queue).of] = 0])

(* ... or has waited for one in vain.                                       *)
EmptyPass ==
  /\ busy = 0 /\ queue = <<>> /\ waited
  /\ Finish(merged)
  /\ UNCHANGED queue

(* A tick passes: not when a pass can begin, nor past a due transmission.   *)
Tick ==
  /\ busy > 0 \/ (queue = <<>> /\ ~waited)
  /\ \A d \in Drones : sent[d] < MaxPeriod
  /\ sent' = [d \in Drones |-> sent[d] + 1]
  /\ queue' = [i \in DOMAIN queue |-> [queue[i] EXCEPT !.age = @ + 1]]
  /\ merged' = [d \in Drones |-> IF merged[d] = Gone THEN Gone ELSE merged[d] + 1]
  /\ busy' = IF busy > 0 THEN busy - 1 ELSE 0
  /\ waited' = (busy = 0)
  /\ UNCHANGED cycle

NextLoad == (\E d \in Drones : Transmit(d)) \/ Pass \/ EmptyPass \/ Tick

SpecLoad == InitLoad /\ [][NextLoad]_loadVars

------------------------------------------------------------------------------
PassMax == (Burst + 1) * Cardinality(Drones)

(* A frame is merged within one pass for each frame the queue can hold: the *)
(* position on the air is never older than the depth of the queue times the *)
(* longest pass, however the drones transmit and whatever is dropped.       *)
LatencyBounded ==
  \A i \in DOMAIN queue : queue[i].age + busy <= (Depth + 1 - i) * PassMax

(* A drone whose frames keep arriving keeps its slot: the rule that frees a *)
(* slot is "no frames" (relay_policy.h), "seconds no frames -> stop"        *)
(* (nvs_config.h).                                                          *)
TransmitterKept ==
  [][\A d \in Drones : merged[d] # Gone => merged'[d] # Gone]_loadVars
==============================================================================
