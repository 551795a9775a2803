------------------------------- MODULE AppMain -------------------------------
(***************************************************************************)
(* app_main of WSW-Firmware/main/main.c: the queues, the Wi-Fi scanner     *)
(* with the portal's access point (WifiScanner), the relay (RelayStart),   *)
(* and the timer that commits the running image a minute later.  app_main  *)
(* goes through them one after the other, while the tasks they start and   *)
(* the phones that find the access point already do as they like.          *)
(***************************************************************************)
EXTENDS WifiScanner

VARIABLES
  relayMode, inited, relayRunning, created, synced, tasks, relayPc,
  failed,    \* as in RelayStart
  stage,     \* where app_main is
  timer      \* the OTA validate timer

relayVars == <<relayMode, inited, relayRunning, created, synced, tasks,
               relayPc, failed>>
bootVars == <<scannerVars, relayVars, stage, timer>>

Relay == INSTANCE RelayStart WITH running <- relayRunning, pc <- relayPc

BootInit ==
  /\ Init
  /\ Relay!Init
  /\ stage = "queues"
  /\ timer = "none"

------------------------------------------------------------------------------
(* app_main.                                                               *)

(* When a queue cannot be created the node halts. *)
CreateQueues ==
  /\ stage = "queues"
  /\ stage' \in {"scanner", "halt"}
  /\ UNCHANGED <<scannerVars, relayVars, timer>>

StartScanner ==
  /\ stage = "scanner"
  /\ Main
  /\ stage' = IF mainPc' = "done" THEN "ble" ELSE stage
  /\ UNCHANGED <<relayVars, timer>>

(* A relay that cannot be initialised or started is only logged. *)
StartRelay ==
  /\ stage = "ble"
  /\ Relay!Main \/ Relay!InitPortFails \/ Relay!SpawnFails("main")
  /\ stage' = IF relayPc'["main"] = "forever" THEN "arm" ELSE stage
  /\ UNCHANGED <<scannerVars, timer>>

(* Mutant: the timer is armed only in relay mode. *)
ArmTimerRelayMode ==
  /\ stage = "arm"
  /\ stage' = "loop"
  /\ timer' = IF relayMode THEN "armed" ELSE "none"
  /\ UNCHANGED <<scannerVars, relayVars>>

ArmTimer ==
  /\ stage = "arm"
  /\ stage' = "loop"
  /\ timer' = "armed"
  /\ UNCHANGED <<scannerVars, relayVars>>

(* esp_timer_create fails: the image stays pending. *)
ArmTimerFails ==
  /\ stage = "arm"
  /\ stage' = "loop"
  /\ timer' = "failed"
  /\ UNCHANGED <<scannerVars, relayVars>>

MainTask == CreateQueues \/ StartScanner \/ StartRelay \/ ArmTimer

------------------------------------------------------------------------------
(* Everyone else.                                                          *)

(* ota_mark_valid_cb, in the timer task. *)
MarkValid ==
  /\ timer = "armed"
  /\ timer' = "fired"
  /\ UNCHANGED <<scannerVars, relayVars, stage>>

RadioTasks == Handler \/ Hop

ScannerTasks ==
  /\ RadioTasks \/ Associate \/ Disassociate
  /\ UNCHANGED <<relayVars, stage, timer>>

HostTask ==
  /\ Relay!Host \/ Relay!OnReset \/ Relay!SpawnFails("host")
  /\ UNCHANGED <<scannerVars, stage, timer>>

BootNext == MainTask \/ ArmTimerFails \/ MarkValid \/ ScannerTasks \/ HostTask

(* Every task is scheduled, and the host keeps trying to sync. *)
BootSpec ==
  /\ BootInit /\ [][BootNext]_bootVars
  /\ WF_bootVars(MainTask) /\ WF_bootVars(MarkValid)
  /\ WF_bootVars(ScannerTasks /\ Handler) /\ WF_bootVars(ScannerTasks /\ Hop)
  /\ WF_bootVars(HostTask /\ Relay!Host)

------------------------------------------------------------------------------
BootTypeOK ==
  /\ ScannerTypeOK
  /\ Relay!StartTypeOK
  /\ stage \in {"queues", "scanner", "ble", "arm", "loop", "halt"}
  /\ timer \in {"none", "armed", "fired", "failed"}

(* A node in UART mode has no relay task (RelayStart).                      *)
RelayOnlyInRelayMode == Relay!RelayOnlyInRelayMode

(* Whichever of ble_relay_start and the first sync comes first, and however *)
(* they interleave with the scanner and the portal, a node in relay mode    *)
(* ends up with a relay task.  Only a failing call can prevent it.          *)
RelayStarts == <>(relayMode => tasks > 0 \/ failed \/ stage = "halt")

(* A node that comes up, in either mode, commits its image, whatever        *)
(* becomes of relay, portal and host: it is not rolled back for want of a   *)
(* sync or a client.                                                        *)
ImageCommitted == <>(timer \in {"fired", "failed"} \/ stage = "halt")
==============================================================================
