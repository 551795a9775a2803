------------------------------ MODULE PackRadio ------------------------------
(***************************************************************************)
(* The Pack advertiser, handle 1, of WSW-Firmware/main/ble_relay.c.  Two   *)
(* tasks work on it: relay_task, which runs the watchdog and writes the    *)
(* payloads, and the NimBLE host task, which calls on_reset and on_sync.   *)
(* They share s_pack_adv_configured without a lock, and every call into    *)
(* the host stack may block, so the host task can run between any two      *)
(* steps of the relay task.                                                *)
(*                                                                         *)
(* The stack and the controller are external; they do what the code and    *)
(* its comments rely on: a host reset loses the instance while the         *)
(* controller keeps radiating, only a set_data or a remove of a known      *)
(* instance changes what is on the air, and any command may fail.          *)
(***************************************************************************)
EXTENDS RelayPolicy

CONSTANTS
  MaxGap,   \* most ticks one pass of the relay loop takes
  Plans     \* what the slot table may ask a pass to broadcast

(* A pass with no live slot writes the idle placeholder; otherwise it       *)
(* writes one Pack per live slot with a valid location, possibly none.      *)
Plan == [live : BOOLEAN, packs : SUBSET UasIds]
IdlePlan == [live |-> FALSE, packs |-> {}]

ASSUME PackAssumption ==
  /\ MaxGap \in Nat \ {0}
  /\ Plans \subseteq Plan
  /\ \A p \in Plans : ~p.live => p = IdlePlan
  /\ "off" \notin UasIds /\ "idle" \notin UasIds

(* The longest a fault of the Pack path lasts before the chip restarts.     *)
Patience == StaleWriteTicks + RestartTicks + 2 * MaxGap

(* The history variables count up to just beyond Patience. *)
UpTo(n) == IF n <= Patience THEN n ELSE Patience + 1

VARIABLES
  synced, inst,   \* host stack: in sync, and holding the Pack instance
  onAir,          \* what the controller radiates on handle 1
  configured,     \* s_pack_adv_configured
  health,         \* s_pack_health
  now,            \* tick count of this pass
  plan, todo,     \* this pass's broadcast, and the Packs not written yet
  relayPc,        \* where the relay task is
  hostPc,         \* where the host task is
  failFor,        \* history: ticks the current streak of failed writes lasts
  stray           \* history: ticks the air has shown a drone not in plan

stackVars == <<synced, inst>>
taskVars == <<now, plan, todo>>
historyVars == <<failFor, stray>>
packVars == <<synced, inst, onAir, configured, health, now, plan, todo,
              relayPc, hostPc, failFor, stray>>

Init ==
  /\ synced = TRUE /\ inst = FALSE /\ configured = FALSE
  /\ onAir = "off"
  /\ health = RadioFresh
  /\ now = 0
  /\ plan = IdlePlan /\ todo = {}
  /\ relayPc = "unborn"
  /\ hostPc = "configure"
  /\ failFor = Unset /\ stray = 0

------------------------------------------------------------------------------
(* Host task.                                                              *)

(* The host resets itself: sync and instances are gone.                    *)
HostLost ==
  /\ hostPc = "idle" /\ synced
  /\ synced' = FALSE /\ inst' = FALSE
  /\ hostPc' = "reset"
  /\ UNCHANGED <<onAir, configured, health, taskVars, relayPc, historyVars>>

(* reset_cb: on_reset. *)
OnReset ==
  /\ hostPc = "reset"
  /\ configured' = FALSE
  /\ hostPc' = "idle"
  /\ UNCHANGED <<stackVars, onAir, health, taskVars, relayPc, historyVars>>

(* The host is back in sync and calls on_sync. *)
HostSync ==
  /\ hostPc = "idle" /\ ~synced
  /\ synced' = TRUE
  /\ hostPc' = "configure"
  /\ onAir' \in {onAir, "off"}
  /\ UNCHANGED <<inst, configured, health, taskVars, relayPc, historyVars>>

(* on_sync ends with spawn_relay_task_if_ready. *)
Spawn == relayPc' = IF relayPc = "unborn" THEN "top" ELSE relayPc

(* configure_pack_advertiser, called by on_sync: the command, then the flag. *)
SyncConfigure ==
  /\ hostPc = "configure"
  /\ inst' = TRUE
  /\ hostPc' = "confirm"
  /\ UNCHANGED <<synced, onAir, configured, health, taskVars, relayPc, historyVars>>

SyncConfigureFails ==
  /\ hostPc = "configure"
  /\ hostPc' = "idle"
  /\ Spawn
  /\ UNCHANGED <<stackVars, onAir, configured, health, taskVars, historyVars>>

SyncConfirm ==
  /\ hostPc = "confirm"
  /\ configured' = TRUE
  /\ hostPc' = "idle"
  /\ Spawn
  /\ UNCHANGED <<stackVars, onAir, health, taskVars, historyVars>>

------------------------------------------------------------------------------
(* Relay task.                                                             *)

(* A pass begins k ticks after the last; the slot table yields its plan.    *)
BeginPass(p, k) ==
  /\ relayPc = "top"
  /\ now' = Later(now, k)
  /\ plan' = p
  /\ todo' = IF p.live THEN p.packs ELSE {"idle"}
  /\ relayPc' = "watchdog"
  /\ failFor' = IF failFor = Unset THEN Unset ELSE UpTo(failFor + k)
  /\ stray' = IF onAir \in UasIds \ plan.packs THEN UpTo(stray + k) ELSE 0
  /\ UNCHANGED <<stackVars, onAir, configured, health, hostPc>>

Watchdog ==
  /\ relayPc = "watchdog"
  /\ health' = RadioAssess(health, configured, now)
  /\ relayPc' = CASE RadioAction(health, configured, now) = "ok" -> "write"
                  [] RadioAction(health, configured, now) = "reconfigure" -> "remove"
                  [] RadioAction(health, configured, now) = "restart" -> "restart"
  /\ UNCHANGED <<stackVars, onAir, configured, taskVars, hostPc, historyVars>>

(* reconfigure_pack_advertiser: remove the instance, if the host has it.    *)
Remove ==
  /\ relayPc = "remove" /\ inst /\ synced
  /\ inst' = FALSE /\ onAir' = "off"
  /\ relayPc' = "configure"
  /\ UNCHANGED <<synced, configured, health, taskVars, hostPc, historyVars>>

RemoveFails ==
  /\ relayPc = "remove"
  /\ relayPc' = "configure"
  /\ UNCHANGED <<stackVars, onAir, configured, health, taskVars, hostPc, historyVars>>

(* Its flag is cleared and the instance configured again ...               *)
Configure ==
  /\ relayPc = "configure" /\ synced
  /\ configured' = FALSE
  /\ inst' = TRUE
  /\ relayPc' = "confirm"
  /\ UNCHANGED <<synced, onAir, health, taskVars, hostPc, historyVars>>

ConfigureFails ==
  /\ relayPc = "configure"
  /\ configured' = FALSE
  /\ health' = RadioNoteReconfigure(health, now)
  /\ relayPc' = "write"
  /\ UNCHANGED <<stackVars, onAir, taskVars, hostPc, historyVars>>

(* ... and only then is the flag set: a host reset may have come between.   *)
Confirm ==
  /\ relayPc = "confirm"
  /\ configured' = TRUE
  /\ health' = RadioNoteReconfigure(health, now)
  /\ relayPc' = "write"
  /\ UNCHANGED <<stackVars, onAir, taskVars, hostPc, historyVars>>

(* advertise_pack of one payload of the plan, and rp_radio_note_write.  A   *)
(* set_data that succeeds counts, even if the start after it fails.         *)
Write(c) ==
  /\ relayPc = "write" /\ c \in todo
  /\ configured /\ inst /\ synced
  /\ onAir' \in {c, "off"}
  /\ todo' = todo \ {c}
  /\ health' = RadioNoteWrite(health, TRUE, now)
  /\ failFor' = Unset
  /\ UNCHANGED <<stackVars, configured, now, plan, relayPc, hostPc, stray>>

WriteFails(c) ==
  /\ relayPc = "write" /\ c \in todo
  /\ todo' = todo \ {c}
  /\ health' = RadioNoteWrite(health, FALSE, now)
  /\ failFor' = IF failFor = Unset THEN 0 ELSE failFor
  /\ UNCHANGED <<stackVars, onAir, configured, now, plan, relayPc, hostPc, stray>>

EndPass ==
  /\ relayPc = "write" /\ todo = {}
  /\ relayPc' = "top"
  /\ UNCHANGED <<stackVars, onAir, configured, health, taskVars, hostPc, historyVars>>

(* esp_restart: the chip comes up as after power-on. *)
Restart ==
  /\ relayPc = "restart"
  /\ synced' = TRUE /\ inst' = FALSE /\ configured' = FALSE
  /\ onAir' = "off"
  /\ health' = RadioFresh
  /\ now' = 0
  /\ plan' = IdlePlan /\ todo' = {}
  /\ relayPc' = "unborn"
  /\ hostPc' = "configure"
  /\ failFor' = Unset /\ stray' = 0

Payloads == UasIds \cup {"idle"}
Gaps == 1 .. MaxGap

Host == OnReset \/ HostSync \/ SyncConfigure \/ SyncConfigureFails \/ SyncConfirm

Relay ==
  \/ \E p \in Plans, k \in Gaps : BeginPass(p, k)
  \/ Watchdog
  \/ Remove \/ RemoveFails
  \/ Configure \/ ConfigureFails \/ Confirm
  \/ \E c \in Payloads : Write(c) \/ WriteFails(c)
  \/ EndPass
  \/ Restart

Next == HostLost \/ Host \/ Relay

(* Both tasks are scheduled for ever; a host that lost sync retries it.     *)
Spec == Init /\ [][Next]_packVars /\ WF_packVars(Host) /\ WF_packVars(Relay)

------------------------------------------------------------------------------
(* A streak of failed Pack writes ends within Patience: a write succeeds or *)
(* the chip restarts.  Whatever the resets of the host do to the configured *)
(* flag in the meantime, and wherever the tick counter wraps.               *)
FailureBounded == failFor <= Patience

(* The controller never shows a drone the slot table has let go for longer  *)
(* than Patience: the incident of relay_policy.h, one cached Pack on the    *)
(* air for half an hour, does not repeat.                                   *)
StrayBounded == stray <= Patience

(* Once the host stops resetting and its commands succeed, the Pack         *)
(* instance comes back and stays, with the flag the writes depend on, as    *)
(* long as there is something to write: a pass without a payload attempts   *)
(* nothing and so notices nothing.                                          *)
Fails ==
  \/ SyncConfigureFails \/ ConfigureFails \/ (inst /\ RemoveFails)
  \/ \E c \in Payloads : configured /\ inst /\ synced /\ WriteFails(c)

RadioRecovers ==
  <>[][~HostLost /\ ~(synced /\ Fails)]_packVars /\ []<>(todo # {})
    => <>[](configured /\ inst /\ synced)
==============================================================================
