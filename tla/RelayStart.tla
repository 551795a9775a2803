------------------------------ MODULE RelayStart -----------------------------
(***************************************************************************)
(* How the relay task of WSW-Firmware/main/ble_relay.c comes to life.  Two *)
(* tasks may spawn it: app_main, in ble_relay_start, if the NimBLE host    *)
(* has synced by then, and the host task itself, at the end of on_sync.    *)
(* They share s_running and s_task_created without a lock, and either may  *)
(* be preempted between reading one and acting on it.  The host (external) *)
(* syncs when it likes and may reset and sync again.                       *)
(***************************************************************************)
EXTENDS Integers

Callers == {"main", "host"}

VARIABLES
  relayMode,   \* g_config.mode == WSD_MODE_RELAY, fixed at boot
  inited,      \* s_inited
  running,     \* s_running
  created,     \* s_task_created
  synced,      \* what ble_hs_synced() returns
  tasks,       \* relay tasks that have been created
  pc,          \* where app_main and the host task are
  failed       \* history: initialising or creating a task failed

startVars == <<relayMode, inited, running, created, synced, tasks, pc, failed>>

Init ==
  /\ relayMode \in BOOLEAN
  /\ inited = FALSE /\ running = FALSE /\ created = FALSE /\ synced = FALSE
  /\ tasks = 0
  /\ pc = [main |-> "init", host |-> "absent"]
  /\ failed = FALSE

Goto(c, from, to) == pc[c] = from /\ pc' = [pc EXCEPT ![c] = to]

------------------------------------------------------------------------------
(* spawn_relay_task_if_ready, called by c, which goes on at Done(c).        *)

Done(c) == IF c = "main" THEN "forever" ELSE "idle"

(* Mutant: without looking at s_running.                                    *)
SpawnCheckCreatedOnly(c) ==
  /\ Goto(c, "spawn", IF created THEN Done(c) ELSE "create")
  /\ UNCHANGED <<relayMode, inited, running, created, synced, tasks, failed>>

SpawnCheck(c) ==
  /\ Goto(c, "spawn", IF ~running \/ created THEN Done(c) ELSE "create")
  /\ UNCHANGED <<relayMode, inited, running, created, synced, tasks, failed>>

SpawnCreate(c) ==
  /\ Goto(c, "create", "mark")
  /\ tasks' = tasks + 1
  /\ UNCHANGED <<relayMode, inited, running, created, synced, failed>>

SpawnFails(c) ==
  /\ Goto(c, "create", Done(c))
  /\ failed' = TRUE
  /\ UNCHANGED <<relayMode, inited, running, created, synced, tasks>>

SpawnMark(c) ==
  /\ Goto(c, "mark", Done(c))
  /\ created' = TRUE
  /\ UNCHANGED <<relayMode, inited, running, synced, tasks, failed>>

Spawn(c) == SpawnCheck(c) \/ SpawnCreate(c) \/ SpawnMark(c)

------------------------------------------------------------------------------
(* app_main: ble_relay_init, then ble_relay_start in relay mode.            *)

(* nimble_port_freertos_init starts the host task before s_inited is set.   *)
InitPort ==
  /\ Goto("main", "init", "inited")
  /\ UNCHANGED <<relayMode, inited, running, created, synced, tasks, failed>>

InitPortFails ==
  /\ Goto("main", "init", "forever")
  /\ failed' = TRUE
  /\ UNCHANGED <<relayMode, inited, running, created, synced, tasks>>

HostStarts ==
  /\ pc["main"] # "init" /\ Goto("host", "absent", "idle")
  /\ UNCHANGED <<relayMode, inited, running, created, synced, tasks, failed>>

Inited ==
  /\ Goto("main", "inited", IF relayMode THEN "start" ELSE "forever")
  /\ inited' = TRUE
  /\ UNCHANGED <<relayMode, running, created, synced, tasks, failed>>

(* Mutant: s_running is only set once the host was found to be synced.      *)
StartRunningSyncedOnly ==
  /\ Goto("main", "start", "check")
  /\ inited
  /\ running' = synced
  /\ UNCHANGED <<relayMode, inited, created, synced, tasks, failed>>

StartRunning ==
  /\ Goto("main", "start", "check")
  /\ inited
  /\ running' = TRUE
  /\ UNCHANGED <<relayMode, inited, created, synced, tasks, failed>>

StartCheck ==
  /\ Goto("main", "check", IF synced THEN "spawn" ELSE "forever")
  /\ UNCHANGED <<relayMode, inited, running, created, synced, tasks, failed>>

Main == InitPort \/ Inited \/ StartRunning \/ StartCheck \/ Spawn("main")

------------------------------------------------------------------------------
(* The host task: on_sync configures the advertisers, which blocks on the   *)
(* controller, and then spawns; on_reset leaves the relay task alone.       *)

HostSync ==
  /\ ~synced /\ Goto("host", "idle", "on_sync")
  /\ synced' = TRUE
  /\ UNCHANGED <<relayMode, inited, running, created, tasks, failed>>

OnSync ==
  /\ Goto("host", "on_sync", "spawn")
  /\ UNCHANGED <<relayMode, inited, running, created, synced, tasks, failed>>

OnReset ==
  /\ synced /\ pc["host"] = "idle"
  /\ synced' = FALSE
  /\ UNCHANGED <<relayMode, inited, running, created, tasks, pc, failed>>

Host == HostStarts \/ HostSync \/ OnSync \/ Spawn("host")

------------------------------------------------------------------------------
StartTypeOK ==
  /\ relayMode \in BOOLEAN /\ inited \in BOOLEAN /\ running \in BOOLEAN
  /\ created \in BOOLEAN /\ synced \in BOOLEAN /\ failed \in BOOLEAN
  /\ tasks \in 0 .. 2
  /\ pc["main"] \in {"init", "inited", "start", "check", "spawn", "create",
                     "mark", "forever"}
  /\ pc["host"] \in {"absent", "idle", "on_sync", "spawn", "create", "mark"}

(* However the host syncs and resets, a node in UART mode has no relay      *)
(* task: "If relay mode is disabled, this is a no-op" (on_sync).            *)
RelayOnlyInRelayMode == tasks > 0 => relayMode /\ running
==============================================================================
