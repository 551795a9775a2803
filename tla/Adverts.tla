------------------------------- MODULE Adverts -------------------------------
(***************************************************************************)
(* The advertisers next to the Pack: handle 0 with one ODID message at a   *)
(* time, handle 2 with the last detection and handle 3 with the identity   *)
(* of the node, and the LED's flag.  Three tasks work on them: relay_task  *)
(* (handle 0; on the XIAO also handle 2), output_task (handle 2) and the   *)
(* NimBLE host task, whose on_reset and on_sync lose the instances and     *)
(* configure them again.  The two source trees differ in what an idle      *)
(* relay does: board says which one runs.                                  *)
(*                                                                         *)
(* The slot table is reduced to what a pass broadcasts: the live slots in  *)
(* their order, each with or without a position and an operator position.  *)
(* The stack and the controller are external, as in PackRadio: a host      *)
(* reset loses the instances while the controller keeps radiating, any     *)
(* command may fail, and a stop may or may not silence the controller.     *)
(***************************************************************************)
EXTENDS Integers, Sequences

CONSTANTS
  Drones,
  Node,       \* the node itself, in its idle beacon
  Boards,     \* the source trees to run
  Tables,     \* what the slot table may hold when a pass broadcasts
  CycleLen,   \* passes between two Self-IDs of a slot
  QueueLen    \* depth of the output queue

Nobody  == "nobody"
Kinds   == {"basic", "self", "location", "system"}
Message == [of : Drones \cup {Node}, kind : Kinds]
Off     == [of |-> Nobody, kind |-> "off"]
Slot    == [of : Drones, loc : BOOLEAN, sys : BOOLEAN]

(* What handle 2 is given: some detection, or the placeholder that blanks it. *)
Content == {"detection", "blank"}

ASSUME AdvertsAssumption ==
  /\ Node \notin Drones /\ Nobody \notin Drones \cup {Node}
  /\ Boards \subseteq {"wsw", "xiao"}
  /\ Tables \subseteq Seq(Slot)
  /\ CycleLen \in Nat \ {0} /\ QueueLen \in Nat \ {0}

VARIABLES
  board, relayMode,  \* the tree that runs, and g_config.mode
  synced, inst,      \* host stack: in sync, and the instances it holds
  detReady,          \* s_det_adv_configured
  air0, air2, air3,  \* what the controller radiates on handles 0, 2 and 3
  hostPc,            \* where the host task is
  relayPc,           \* where the relay task is
  table, slot, todo, \* its live slots, the one it is at, that one's messages
  cycle,             \* cycle
  outq,              \* frames in output_queue
  timer,             \* last_advertise_tick # 0 in output_task (XIAO)
  det,               \* what each task is about to put on handle 2
  led,               \* s_detecting (WSW)
  named,             \* history: whose Basic ID the air showed last, Nobody
                     \* when one was missed
  lost               \* history: in UART mode a blanking came to nothing

bootVars  == <<board, relayMode>>
stackVars == <<synced, inst>>
airVars   == <<air0, air2, air3>>
tableVars == <<table, slot, todo, cycle>>
outVars   == <<outq, timer>>
vars == <<board, relayMode, synced, inst, detReady, air0, air2, air3, hostPc,
          relayPc, table, slot, todo, cycle, outq, timer, det, led,
          named, lost>>

Tasks == {"relay", "output"}
None == "none"

Init ==
  /\ board \in Boards /\ relayMode \in BOOLEAN
  /\ synced = TRUE /\ inst = {} /\ detReady = FALSE
  /\ air0 = Off /\ air2 = "off" /\ air3 = FALSE
  /\ hostPc = "relay"
  /\ relayPc = "absent"
  /\ table = <<>> /\ slot = 0 /\ todo = <<>> /\ cycle = 0
  /\ outq = 0 /\ timer = FALSE
  /\ det = [t \in Tasks |-> None]
  /\ led = FALSE
  /\ named = Nobody
  /\ lost = FALSE

------------------------------------------------------------------------------
(* Host task.                                                              *)

(* The host resets itself. *)
HostLost ==
  /\ hostPc = "idle" /\ synced
  /\ synced' = FALSE /\ inst' = {}
  /\ hostPc' = "reset"
  /\ UNCHANGED <<bootVars, detReady, airVars, relayPc, tableVars, outVars, det,
                 led, named, lost>>

OnReset ==
  /\ hostPc = "reset"
  /\ detReady' = FALSE
  /\ hostPc' = "idle"
  /\ UNCHANGED <<bootVars, stackVars, airVars, relayPc, tableVars, outVars, det,
                 led, named, lost>>

(* The host is in sync again; the reset of the controller may silence it.   *)
HostSync ==
  /\ hostPc = "idle" /\ ~synced
  /\ synced' = TRUE
  /\ hostPc' = "relay"
  /\ \/ UNCHANGED airVars
     \/ air0' = Off /\ air2' = "off" /\ air3' = FALSE
  /\ UNCHANGED <<bootVars, inst, detReady, relayPc, tableVars, outVars, det,
                 led, named, lost>>

(* on_sync configures handle 0 ...                                          *)
SyncRelay(ok) ==
  /\ hostPc = "relay"
  /\ inst' = IF ok THEN inst \cup {0} ELSE inst
  /\ hostPc' = "identity"
  /\ UNCHANGED <<bootVars, synced, detReady, airVars, relayPc, tableVars,
                 outVars, det, led, named, lost>>

(* ... handle 3 with its payload: configure_id_advertiser may give up at    *)
(* the instance, the payload or the start ...                               *)
SyncIdentity(ok) ==
  /\ hostPc = "identity"
  /\ air3' = (ok \/ air3)
  /\ hostPc' = "detection"
  /\ UNCHANGED <<bootVars, stackVars, detReady, air0, air2, relayPc, tableVars,
                 outVars, det, led, named, lost>>

(* on_sync ends with spawn_relay_task_if_ready. *)
Spawn == relayPc' = IF relayMode /\ relayPc = "absent" THEN "top" ELSE relayPc

(* ... and handle 2; the flag is set once the command is through.           *)
SyncDetection ==
  /\ hostPc = "detection"
  /\ inst' = inst \cup {2}
  /\ hostPc' = "ready"
  /\ UNCHANGED <<bootVars, synced, detReady, airVars, relayPc, tableVars,
                 outVars, det, led, named, lost>>

SyncDetectionFails ==
  /\ hostPc = "detection"
  /\ hostPc' = "idle"
  /\ Spawn
  /\ UNCHANGED <<bootVars, stackVars, detReady, airVars, tableVars, outVars, det,
                 led, named, lost>>

SyncReady ==
  /\ hostPc = "ready"
  /\ detReady' = TRUE
  /\ hostPc' = "idle"
  /\ Spawn
  /\ UNCHANGED <<bootVars, stackVars, airVars, tableVars, outVars, det, led,
                 named, lost>>

------------------------------------------------------------------------------
(* ble_detection_advertise, called by task t with some content: it looks at *)
(* the flag, and only then replaces the payload.                            *)

Call(t, what) ==
  /\ det' = [det EXCEPT ![t] = IF detReady THEN what ELSE None]
  /\ lost' = (lost \/ (~relayMode /\ ~detReady /\ what = "blank"))

(* Mutant: to blank is to stop only. *)
DetSetBareStop(t) ==
  /\ det[t] # None /\ synced /\ 2 \in inst
  /\ air2' \in IF det[t] = "blank" THEN {air2, "off"} ELSE {det[t], "off"}
  /\ det' = [det EXCEPT ![t] = None]
  /\ UNCHANGED <<bootVars, stackVars, detReady, air0, air3, hostPc, relayPc,
                 tableVars, outVars, led, named, lost>>

(* The start after the set_data may fail.                                   *)
DetSet(t) ==
  /\ det[t] # None /\ synced /\ 2 \in inst
  /\ air2' \in {det[t], "off"}
  /\ det' = [det EXCEPT ![t] = None]
  /\ UNCHANGED <<bootVars, stackVars, detReady, air0, air3, hostPc, relayPc,
                 tableVars, outVars, led, named, lost>>

DetSetFails(t) ==
  /\ det[t] # None
  /\ air2' \in IF 2 \in inst THEN {air2, "off"} ELSE {air2}
  /\ det' = [det EXCEPT ![t] = None]
  /\ lost' = (lost \/ (~relayMode /\ det[t] = "blank"))
  /\ UNCHANGED <<bootVars, stackVars, detReady, air0, air3, hostPc, relayPc,
                 tableVars, outVars, led, named>>

------------------------------------------------------------------------------
(* promiscuous_cb, distributor_task and output_task.                        *)

(* A frame is decoded and, if there is room, queued for output.             *)
Frame ==
  /\ outq' = IF outq < QueueLen THEN outq + 1 ELSE outq
  /\ led' = (board = "wsw" \/ led)
  /\ UNCHANGED <<bootVars, stackVars, detReady, airVars, hostPc, relayPc,
                 tableVars, timer, det, named, lost>>

(* Once the call is over the XIAO notes the tick, whatever became of it.    *)
OutTake ==
  /\ det["output"] = None /\ outq > 0
  /\ outq' = outq - 1
  /\ Call("output", "detection")
  /\ timer' = (board = "xiao")
  /\ UNCHANGED <<bootVars, stackVars, detReady, airVars, hostPc, relayPc,
                 tableVars, led, named>>

(* XIAO: nothing to output for kAdvertiseIdleTimeout.                       *)
OutIdle ==
  /\ det["output"] = None /\ outq = 0 /\ timer
  /\ Call("output", "blank")
  /\ timer' = FALSE
  /\ UNCHANGED <<bootVars, stackVars, detReady, airVars, hostPc, relayPc,
                 tableVars, outq, led, named>>

------------------------------------------------------------------------------
(* relay_task, the broadcast of one pass.                                   *)

Basic(d) == [of |-> d, kind |-> "basic"]
If(b, m) == IF b THEN <<m>> ELSE <<>>

(* Mutant: the Basic ID is sent every CycleLen passes, like the Self-ID.    *)
BurstBasicSometimes(s) ==
  If(cycle = 0, Basic(s.of)) \o If(cycle = 0, [of |-> s.of, kind |-> "self"])
    \o If(s.loc, [of |-> s.of, kind |-> "location"])
    \o If(s.sys, [of |-> s.of, kind |-> "system"])

(* What a live slot sends on handle 0 in one pass.                          *)
Burst(s) ==
  <<Basic(s.of)>> \o If(cycle = 0, [of |-> s.of, kind |-> "self"])
    \o If(s.loc, [of |-> s.of, kind |-> "location"])
    \o If(s.sys, [of |-> s.of, kind |-> "system"])

(* Evictions and the frame of this pass have made T of the table.           *)
BeginPass(T) ==
  /\ relayPc = "top"
  /\ table' = T
  /\ \/ T = <<>> /\ slot' = 0 /\ todo' = <<>> /\ relayPc' = "quiet"
        /\ UNCHANGED led
     \/ T # <<>> /\ slot' = 1 /\ todo' = Burst(T[1]) /\ relayPc' = "burst"
        /\ led' = (board = "wsw" \/ led)
  /\ UNCHANGED <<bootVars, stackVars, detReady, airVars, hostPc, cycle, outVars,
                 det, named, lost>>

(* No live slot: handle 0 is stopped, and the XIAO blanks handle 2.         *)
Quiet ==
  /\ relayPc = "quiet"
  /\ air0' \in IF 0 \in inst THEN {air0, Off} ELSE {air0}
  /\ IF board = "xiao" THEN Call("relay", "blank") ELSE UNCHANGED <<det, lost>>
  /\ relayPc' = "dark"
  /\ UNCHANGED <<bootVars, stackVars, detReady, air2, air3, hostPc, tableVars,
                 outVars, led, named>>

(* Mutant: nobody clears the flag that frames without a slot have set.      *)
DarkFlagLeft ==
  /\ relayPc = "dark" /\ det["relay"] = None
  /\ UNCHANGED led
  /\ todo' = <<Basic(Node)>>
  /\ relayPc' = "beacon"
  /\ UNCHANGED <<bootVars, stackVars, detReady, airVars, hostPc, table, slot,
                 cycle, outVars, det, named, lost>>

(* led_set_detecting(false), on the WSW; the beacon is next.                *)
Dark ==
  /\ relayPc = "dark" /\ det["relay"] = None
  /\ led' = (board # "wsw" /\ led)
  /\ todo' = <<Basic(Node)>>
  /\ relayPc' = "beacon"
  /\ UNCHANGED <<bootVars, stackVars, detReady, airVars, hostPc, table, slot,
                 cycle, outVars, det, named, lost>>

Sending == relayPc \in {"burst", "beacon"} /\ todo # <<>>

(* History: a Basic ID was meant to be on the air now.                      *)
Shown(m) ==
  named' = IF m.kind # "basic" THEN named ELSE IF air0' = m THEN m.of ELSE Nobody

(* advertise_odid of the next message: a new payload, whose start may fail. *)
Emit ==
  /\ Sending /\ synced /\ 0 \in inst
  /\ air0' \in {Head(todo), Off}
  /\ todo' = Tail(todo)
  /\ Shown(Head(todo))
  /\ UNCHANGED <<bootVars, stackVars, detReady, air2, air3, hostPc, relayPc,
                 table, slot, cycle, outVars, det, led, lost>>

(* No buffer, or no new payload; the stop before it may have worked.        *)
EmitFails ==
  /\ Sending
  /\ air0' \in IF 0 \in inst THEN {air0, Off} ELSE {air0}
  /\ todo' = Tail(todo)
  /\ Shown(Head(todo))
  /\ UNCHANGED <<bootVars, stackVars, detReady, air2, air3, hostPc, relayPc,
                 table, slot, cycle, outVars, det, led, lost>>

NextSlot ==
  /\ relayPc = "burst" /\ todo = <<>> /\ slot < Len(table)
  /\ slot' = slot + 1
  /\ todo' = Burst(table[slot + 1])
  /\ UNCHANGED <<bootVars, stackVars, detReady, airVars, hostPc, relayPc, table,
                 cycle, outVars, det, led, named, lost>>

EndPass ==
  /\ todo = <<>>
  /\ \/ relayPc = "burst" /\ slot = Len(table) /\ cycle' = (cycle + 1) % CycleLen
     \/ relayPc = "beacon" /\ cycle' = 0
  /\ relayPc' = "top"
  /\ UNCHANGED <<bootVars, stackVars, detReady, airVars, hostPc, table, slot,
                 todo, outVars, det, led, named, lost>>

------------------------------------------------------------------------------
Host ==
  \/ OnReset \/ HostSync
  \/ \E ok \in BOOLEAN : SyncRelay(ok) \/ SyncIdentity(ok)
  \/ SyncDetection \/ SyncDetectionFails \/ SyncReady

Relay ==
  \/ \E T \in Tables : BeginPass(T)
  \/ Quiet \/ Dark \/ Emit \/ EmitFails \/ NextSlot \/ EndPass
  \/ DetSet("relay") \/ DetSetFails("relay")

Output == OutTake \/ OutIdle \/ DetSet("output") \/ DetSetFails("output")

Next == HostLost \/ Host \/ Relay \/ Output \/ Frame

(* The three tasks are scheduled for ever; a host out of sync retries.      *)
Spec ==
  /\ Init /\ [][Next]_vars
  /\ WF_vars(Host) /\ WF_vars(Relay) /\ WF_vars(Output)

------------------------------------------------------------------------------
(* "Locations arriving at the phone on handle 0 will always have an          *)
(* immediately-preceding basic_id from the same slot" (relay_task): what is *)
(* on the air belongs to the drone whose Basic ID the air showed last.  The *)
(* code does not look at the result of a write, so this holds for bursts    *)
(* whose Basic ID was not missed.                                           *)
Attributed ==
  air0 \in Message /\ air0.kind # "basic" => named \in {air0.of, Nobody}

(* From some time on no command that could work fails, and no host resets.  *)
Calm ==
  <>[][~ ( \/ HostLost
           \/ 0 \in inst /\ synced /\ EmitFails
           \/ \E t \in Tasks : detReady /\ 2 \in inst /\ synced /\ DetSetFails(t)
           \/ Emit /\ air0' = Off )]_vars

Silence == <>[][~Frame]_vars
Ready(h) == synced /\ h \in inst

(* Once no drone is live, the beacon of the node is on handle 0 for good and *)
(* the LED stops flashing, also for frames that found no slot: presence in   *)
(* "both states" (encode_bridge_beacon).                                    *)
IdleShown ==
  Calm /\ Silence /\ <>[](Ready(0) /\ table = <<>> /\ relayPc # "absent")
    => /\ []<>(air0 = Basic(Node))
       /\ <>[](air0 \in {Basic(Node), Off} /\ ~led)

(* The XIAO takes the last detection off the air once its drone is gone:     *)
(* without that it "would broadcast forever" (output_task).  In UART mode   *)
(* there is a single attempt, which a host reset can bring to nothing.      *)
DetectionGone ==
  Calm /\ Silence /\ <>[](Ready(2) /\ detReady /\ board = "xiao" /\ table = <<>>)
    => <>[](air2 # "detection") \/ <>lost
==============================================================================
