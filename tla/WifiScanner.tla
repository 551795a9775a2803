----------------------------- MODULE WifiScanner -----------------------------
(***************************************************************************)
(* The channel hopper of WSW-Firmware/main/wifi_scanner.c and the soft AP  *)
(* of the config portal, which share one radio.  Three tasks take part:    *)
(* app_main runs wifi_scanner_start, the event task runs ap_event_handler  *)
(* for one event at a time, and the hop task tunes the radio.  Stations    *)
(* associate with the AP and leave whenever they like once it is up.       *)
(*                                                                         *)
(* wifi_scanner_pause waits half a second, longer than one dwell of the    *)
(* hop task, before it tunes to the AP's channel.  The wait is modelled by *)
(* what has happened when it is over: see Waited.                          *)
(***************************************************************************)
EXTENDS Integers, Sequences

CONSTANTS
  ChStart, ChStop,   \* g_config.ch_2g_start, g_config.ch_2g_stop
  ApChannel,         \* WSD_AP_CHANNEL
  MaxStations,       \* max_connection of the AP
  MaxEvents          \* bound on the events posted and not yet handled

ASSUME ScannerAssumption ==
  /\ ChStart \in Nat /\ ChStop \in Nat \ {0}
  /\ MaxStations \in Nat \ {0} /\ MaxEvents \in Nat \ {0}

VARIABLES
  running, paused,   \* s_running, s_paused
  staCount,          \* s_ap_sta_count
  channel, promisc,  \* the radio: its channel, and promiscuous reception
  stations, events,  \* stations associated with the AP, events not handled
  mainPc, evtPc,     \* where app_main and the event task are
  hopPc, hopCh,      \* where the hop task is, and the channel it tunes next
  early              \* history: an event was handled before the start was over

apVars == <<stations, events>>
radioVars == <<channel, promisc>>
hopVars == <<hopPc, hopCh>>
scannerVars == <<running, paused, staCount, radioVars, apVars, mainPc, evtPc,
                 hopVars, early>>

(* The range the hop task clamps its configuration to. *)
ChMax == IF ChStop > 13 THEN 13 ELSE ChStop

(* Mutant: the start of the range is taken as it is. *)
ChMinUnclamped == ChStart

ChMin == LET low == IF ChStart < 1 THEN 1 ELSE ChStart
         IN  IF low > ChMax THEN ChMax ELSE low

Init ==
  /\ running = FALSE /\ paused = FALSE /\ staCount = 0
  /\ channel = ApChannel /\ promisc = FALSE
  /\ stations = 0 /\ events = <<>>
  /\ mainPc = "init" /\ evtPc = "idle"
  /\ hopPc = "absent" /\ hopCh = ChMin
  /\ early = FALSE

------------------------------------------------------------------------------
(* wifi_scanner_start, in app_main.                                         *)

MainStep(from, to) == mainPc = from /\ mainPc' = to

(* esp_wifi_start: from here on the AP is up and stations may associate.    *)
StartWifi ==
  /\ MainStep("init", "portal")
  /\ UNCHANGED <<running, paused, staCount, radioVars, apVars, evtPc, hopVars, early>>

EnablePromiscuous ==
  /\ MainStep("portal", "promiscuous")
  /\ promisc' = TRUE
  /\ UNCHANGED <<running, paused, staCount, channel, apVars, evtPc, hopVars, early>>

SetRunning ==
  /\ MainStep("promiscuous", "running")
  /\ running' = TRUE
  /\ UNCHANGED <<paused, staCount, radioVars, apVars, evtPc, hopVars, early>>

ClearPaused ==
  /\ MainStep("running", "cleared")
  /\ paused' = FALSE
  /\ UNCHANGED <<running, staCount, radioVars, apVars, evtPc, hopVars, early>>

(* The result of xTaskCreate is not looked at. *)
SpawnHop ==
  /\ MainStep("cleared", "done")
  /\ hopPc' \in {"look", "absent"}
  /\ UNCHANGED <<running, paused, staCount, radioVars, apVars, evtPc, hopCh, early>>

Main == StartWifi \/ EnablePromiscuous \/ SetRunning \/ ClearPaused \/ SpawnHop

------------------------------------------------------------------------------
(* Stations (external): the driver posts an event for each change.          *)

Associate ==
  /\ mainPc # "init" /\ stations < MaxStations /\ Len(events) < MaxEvents
  /\ stations' = stations + 1
  /\ events' = Append(events, "join")
  /\ UNCHANGED <<running, paused, staCount, radioVars, mainPc, evtPc, hopVars, early>>

Disassociate ==
  /\ stations > 0 /\ Len(events) < MaxEvents
  /\ stations' = stations - 1
  /\ events' = Append(events, "leave")
  /\ UNCHANGED <<running, paused, staCount, radioVars, mainPc, evtPc, hopVars, early>>

------------------------------------------------------------------------------
(* ap_event_handler, in the event task.                                     *)

Take(kind) ==
  /\ evtPc = "idle" /\ events # <<>> /\ Head(events) = kind
  /\ events' = Tail(events)
  /\ early' = IF mainPc = "done" THEN early ELSE TRUE
  /\ UNCHANGED <<stations, running, radioVars, mainPc, hopVars>>

(* A join; the first one pauses the scanner, unless it is not running yet.  *)
Joined ==
  /\ Take("join")
  /\ staCount' = staCount + 1
  /\ IF staCount = 0 /\ running /\ ~paused
     THEN paused' = TRUE /\ evtPc' = "pausing"
     ELSE UNCHANGED <<paused, evtPc>>

(* The hop task has seen s_paused, if it is still set, and app_main is past *)
(* the assignments that end wifi_scanner_start.                             *)
Waited ==
  /\ paused => hopPc \in {"wait", "absent"}
  /\ mainPc \notin {"running", "cleared"}

(* Mutant: the radio is pinned without waiting for the hop task.            *)
PinAtOnce ==
  /\ evtPc = "pausing"
  /\ promisc' = FALSE
  /\ channel' = ApChannel
  /\ evtPc' = "idle"
  /\ UNCHANGED <<running, paused, staCount, apVars, mainPc, hopVars, early>>

(* The radio is pinned to the AP's channel. *)
Pin ==
  /\ evtPc = "pausing" /\ Waited
  /\ promisc' = FALSE
  /\ channel' = ApChannel
  /\ evtPc' = "idle"
  /\ UNCHANGED <<running, paused, staCount, apVars, mainPc, hopVars, early>>

(* A leave; when none is left the scanner resumes, if it is paused.         *)
Left ==
  /\ Take("leave")
  /\ staCount' = IF staCount > 0 THEN staCount - 1 ELSE 0
  /\ evtPc' = IF staCount' = 0 /\ running /\ paused THEN "resuming" ELSE "idle"
  /\ UNCHANGED paused

(* Mutant: the scanner resumes without promiscuous reception.               *)
ResumeDeaf ==
  /\ evtPc = "resuming"
  /\ paused' = FALSE
  /\ evtPc' = "idle"
  /\ UNCHANGED <<running, staCount, channel, promisc, apVars, mainPc, hopVars, early>>

Resume ==
  /\ evtPc = "resuming"
  /\ promisc' = TRUE
  /\ paused' = FALSE
  /\ evtPc' = "idle"
  /\ UNCHANGED <<running, staCount, channel, apVars, mainPc, hopVars, early>>

Handler == Joined \/ Pin \/ Left \/ Resume

------------------------------------------------------------------------------
(* channel_hop_task.                                                        *)

HopLook ==
  /\ hopPc \in {"look", "wait"}
  /\ hopPc' = IF paused THEN "wait" ELSE "tune"
  /\ UNCHANGED <<running, paused, staCount, radioVars, apVars, mainPc, evtPc, hopCh, early>>

HopTune ==
  /\ hopPc = "tune"
  /\ channel' = hopCh
  /\ hopPc' = "dwell"
  /\ UNCHANGED <<running, paused, staCount, promisc, apVars, mainPc, evtPc, hopCh, early>>

HopNext ==
  /\ hopPc = "dwell"
  /\ hopCh' = IF hopCh + 1 > ChMax THEN ChMin ELSE hopCh + 1
  /\ hopPc' = "look"
  /\ UNCHANGED <<running, paused, staCount, radioVars, apVars, mainPc, evtPc, early>>

Hop == HopLook \/ HopTune \/ HopNext

------------------------------------------------------------------------------
ScannerTypeOK ==
  /\ running \in BOOLEAN /\ paused \in BOOLEAN /\ promisc \in BOOLEAN /\ early \in BOOLEAN
  /\ staCount \in 0 .. MaxStations /\ stations \in 0 .. MaxStations
  /\ channel \in 1 .. 13 \cup {ApChannel}
  /\ hopCh \in 1 .. 13
  /\ events \in Seq({"join", "leave"}) /\ Len(events) <= MaxEvents
  /\ mainPc \in {"init", "portal", "promiscuous", "running", "cleared", "done"}
  /\ evtPc \in {"idle", "pausing", "resuming"}
  /\ hopPc \in {"absent", "look", "wait", "tune", "dwell"}

(* The handler is done with what was posted and a client is on the portal.  *)
Serving == mainPc = "done" /\ events = <<>> /\ evtPc = "idle" /\ stations > 0

Pinned == channel = ApChannel /\ hopPc # "tune" /\ paused

(* "While any client is associated with the config AP, the radio must stay  *)
(* pinned to WSD_AP_CHANNEL" (wifi_scanner.c): through any sequence of      *)
(* joins and leaves, however they interleave with the hop task, once the    *)
(* scanner has been started without a client.                               *)
PortalPinned == Serving /\ ~early => Pinned

(* The same of a client that finds the AP while wifi_scanner_start is still *)
(* under way.                                                               *)
PinnedWhileServed == Serving => Pinned

(* When the last client has left for good the scanner is back: hopping, and *)
(* receiving, whatever joins and leaves were queued before.                 *)
ScanResumes ==
  <>[](mainPc = "done" /\ stations = 0) => <>[](early \/ (promisc /\ ~paused))
==============================================================================
