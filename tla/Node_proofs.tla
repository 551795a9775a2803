------------------------------ MODULE Node_proofs -----------------------------
(***************************************************************************)
(* What is proved of a node as a whole: of its boot (AppMain), where       *)
(* app_main, the NimBLE host, the event task and the hop task interleave,  *)
(* and of the relay task against the clock (RelayLoad).                    *)
(***************************************************************************)
EXTENDS AppMain, RelayLoad, FiniteSetTheorems, WellFoundedInduction, TLAPS

------------------------------------------------------------------------------
(* The relay task at boot.  Whoever is between creating the task and        *)
(* setting s_task_created accounts for one of the tasks there are.          *)

Labels == {"init", "inited", "start", "check", "spawn", "create", "mark",
           "forever", "absent", "idle", "on_sync"}

At(c, label) == IF relayPc[c] = label THEN 1 ELSE 0
Count(label) == At("main", label) + At("host", label)

Counted ==
  /\ ~created => tasks = Count("mark")
  /\ created => tasks + Count("create") <= 2

(* Who may be where: all that follows from s_running, which only            *)
(* ble_relay_start sets, and only in relay mode.                            *)
Allowed ==
  /\ relayRunning => relayMode
  /\ tasks > 0 => relayRunning
  /\ \A c \in Relay!Callers : relayPc[c] \in {"create", "mark"} => relayRunning
  /\ relayPc["main"] \in {"start", "check", "spawn", "create", "mark"} => relayMode

RelayInv ==
  /\ Relay!StartTypeOK
  /\ relayPc \in [Relay!Callers -> Labels]
  /\ Counted
  /\ Allowed

RelayStep == Relay!Main \/ Relay!Host \/ Relay!OnReset \/ Relay!InitPortFails
             \/ \E c \in Relay!Callers : Relay!SpawnFails(c)

LEMMA RelayBegins == Relay!Init => RelayInv
<1> SUFFICES ASSUME Relay!Init PROVE RelayInv
  OBVIOUS
<1>1. relayPc = [c \in Relay!Callers |-> IF c = "main" THEN "init" ELSE "absent"]
  BY DEF Relay!Init, Relay!Callers
<1>2. relayPc["main"] = "init" /\ relayPc["host"] = "absent"
  BY <1>1 DEF Relay!Callers
<1>3. relayPc \in [Relay!Callers -> Labels]
  BY <1>1 DEF Labels
<1>4. Relay!StartTypeOK
  <2>1. relayMode \in BOOLEAN /\ inited = FALSE /\ relayRunning = FALSE
        /\ created = FALSE /\ synced = FALSE /\ failed = FALSE
    BY DEF Relay!Init
  <2>2. tasks \in 0 .. 2
    BY DEF Relay!Init
  <2> QED
    BY <1>2, <2>1, <2>2, Zenon DEF Relay!StartTypeOK
<1>5. Counted
  BY <1>2 DEF Relay!Init, Counted, Count, At
<1>6. Allowed
  BY <1>2 DEF Relay!Init, Allowed, Relay!Callers
<1> QED
  BY <1>3, <1>4, <1>5, <1>6 DEF RelayInv

LEMMA RelayGoesOn ==
  ASSUME RelayInv, RelayStep
  PROVE  RelayInv'
<1> USE DEF RelayInv, Relay!StartTypeOK, Relay!Callers, Labels, Counted, Count,
            At, Allowed, Relay!Goto, Relay!Done
<1>1. CASE \E c \in Relay!Callers : Relay!SpawnCheck(c)
  BY <1>1 DEF Relay!SpawnCheck
<1>2. CASE \E c \in Relay!Callers : Relay!SpawnCreate(c)
  BY <1>2 DEF Relay!SpawnCreate
<1>3. CASE \E c \in Relay!Callers : Relay!SpawnFails(c)
  BY <1>3 DEF Relay!SpawnFails
<1>4. CASE \E c \in Relay!Callers : Relay!SpawnMark(c)
  BY <1>4 DEF Relay!SpawnMark
<1>5. CASE Relay!InitPort
  BY <1>5 DEF Relay!InitPort
<1>6. CASE Relay!InitPortFails
  BY <1>6 DEF Relay!InitPortFails
<1>7. CASE Relay!Inited
  BY <1>7 DEF Relay!Inited
<1>8. CASE Relay!StartRunning
  BY <1>8 DEF Relay!StartRunning
<1>9. CASE Relay!StartCheck
  BY <1>9 DEF Relay!StartCheck
<1>10. CASE Relay!HostStarts
  BY <1>10 DEF Relay!HostStarts
<1>11. CASE Relay!HostSync
  BY <1>11 DEF Relay!HostSync
<1>12. CASE Relay!OnSync
  BY <1>12 DEF Relay!OnSync
<1>13. CASE Relay!OnReset
  BY <1>13 DEF Relay!OnReset
<1> QED
  BY <1>1, <1>2, <1>3, <1>4, <1>5, <1>6, <1>7, <1>8, <1>9, <1>10, <1>11, <1>12, <1>13
     DEF RelayStep, Relay!Main, Relay!Host, Relay!Spawn

------------------------------------------------------------------------------
(* The events that are queued lead from the number of clients the handler   *)
(* believes in to the number there is, through numbers the portal can have. *)

Kinds == {"join", "leave"}
Moved(n, kind) == IF kind = "join" THEN n + 1 ELSE n - 1

Path(from, queued, to) ==
  \E level \in [0 .. Len(queued) -> 0 .. MaxStations] :
    /\ level[0] = from /\ level[Len(queued)] = to
    /\ \A k \in 1 .. Len(queued) : level[k] = Moved(level[k - 1], queued[k])

LEMMA PathEmpty ==
  ASSUME NEW a, NEW b
  PROVE  /\ Path(a, <<>>, b) => a = b
         /\ a \in 0 .. MaxStations => Path(a, <<>>, a)
<1>1. ASSUME a \in 0 .. MaxStations PROVE Path(a, <<>>, a)
  <2> DEFINE level == [k \in 0 .. 0 |-> a]
  <2>1. level \in [0 .. Len(<<>>) -> 0 .. MaxStations]
    BY <1>1
  <2>2. level[0] = a /\ level[Len(<<>>)] = a
    OBVIOUS
  <2>3. \A k \in 1 .. Len(<<>>) : FALSE
    OBVIOUS
  <2> HIDE DEF level
  <2> QED
    BY <2>1, <2>2, <2>3 DEF Path
<1> QED
  BY <1>1 DEF Path

LEMMA PathTake ==
  ASSUME NEW q \in Seq(Kinds), q # <<>>, NEW a, NEW b, Path(a, q, b)
  PROVE  /\ a \in 0 .. MaxStations /\ Moved(a, Head(q)) \in 0 .. MaxStations
         /\ Path(Moved(a, Head(q)), Tail(q), b)
<1>1. Len(q) \in Nat /\ Len(q) > 0 /\ Len(Tail(q)) = Len(q) - 1
      /\ \A k \in 1 .. Len(q) - 1 : Tail(q)[k] = q[k + 1]
  OBVIOUS
<1>2. PICK level \in [0 .. Len(q) -> 0 .. MaxStations] :
        /\ level[0] = a /\ level[Len(q)] = b
        /\ \A k \in 1 .. Len(q) : level[k] = Moved(level[k - 1], q[k])
  BY DEF Path
<1>3. a = level[0] /\ Moved(a, Head(q)) = level[1]
  BY <1>1, <1>2
<1> DEFINE next == [k \in 0 .. Len(q) - 1 |-> level[k + 1]]
<1>4. next \in [0 .. Len(Tail(q)) -> 0 .. MaxStations]
  BY <1>1, <1>2
<1>5. next[0] = Moved(a, Head(q)) /\ next[Len(Tail(q))] = b
  BY <1>1, <1>2, <1>3
<1>6. ASSUME NEW k \in 1 .. Len(Tail(q)) PROVE next[k] = Moved(next[k - 1], Tail(q)[k])
  <2>1. k + 1 \in 1 .. Len(q) /\ (k + 1) - 1 = k
    BY <1>1
  <2>2. next[k] = level[k + 1] /\ next[k - 1] = level[k] /\ Tail(q)[k] = q[k + 1]
    BY <1>1
  <2>3. level[k + 1] = Moved(level[(k + 1) - 1], q[k + 1])
    BY <1>2, <2>1
  <2> QED
    BY <2>1, <2>2, <2>3
<1>7. Path(Moved(a, Head(q)), Tail(q), b)
  BY <1>4, <1>5, <1>6 DEF Path
<1> QED
  BY <1>1, <1>2, <1>3, <1>7

LEMMA PathPost ==
  ASSUME NEW q \in Seq(Kinds), NEW kind \in Kinds, NEW a, NEW b, Path(a, q, b),
         Moved(b, kind) \in 0 .. MaxStations
  PROVE  Path(a, Append(q, kind), Moved(b, kind))
<1> DEFINE longer == Append(q, kind)
<1>1. Len(q) \in Nat /\ Len(longer) = Len(q) + 1 /\ longer[Len(q) + 1] = kind
      /\ \A k \in 1 .. Len(q) : longer[k] = q[k]
  OBVIOUS
<1>2. PICK level \in [0 .. Len(q) -> 0 .. MaxStations] :
        /\ level[0] = a /\ level[Len(q)] = b
        /\ \A k \in 1 .. Len(q) : level[k] = Moved(level[k - 1], q[k])
  BY DEF Path
<1> DEFINE next == [k \in 0 .. Len(q) + 1 |->
                      IF k = Len(q) + 1 THEN Moved(b, kind) ELSE level[k]]
<1>3. next \in [0 .. Len(longer) -> 0 .. MaxStations]
  BY <1>1, <1>2
<1>4. next[0] = a /\ next[Len(longer)] = Moved(b, kind)
  BY <1>1, <1>2
<1>5. ASSUME NEW k \in 1 .. Len(longer) PROVE next[k] = Moved(next[k - 1], longer[k])
  <2>1. CASE k = Len(q) + 1
    <3>1. k - 1 = Len(q) /\ next[k - 1] = level[Len(q)] /\ next[k] = Moved(b, kind)
      BY <1>1, <2>1
    <3> QED
      BY <1>1, <1>2, <2>1, <3>1
  <2>2. CASE k \in 1 .. Len(q)
    <3>1. next[k] = level[k] /\ next[k - 1] = level[k - 1] /\ longer[k] = q[k]
      BY <1>1, <2>2
    <3> QED
      BY <1>2, <2>2, <3>1
  <2> QED
    BY <1>1, <2>1, <2>2
<1> HIDE DEF next, longer
<1>6. Path(a, longer, Moved(b, kind))
  BY <1>3, <1>4, <1>5 DEF Path
<1> QED
  BY <1>6 DEF longer

------------------------------------------------------------------------------
(* The scanner.  Unless an event came before the start was over, what the   *)
(* handler believes is what it has done to the radio.                       *)

Settled ==
  ~early =>
    IF mainPc # "done"
    THEN /\ staCount = 0 /\ evtPc = "idle" /\ ~paused
         /\ mainPc \in {"running", "cleared"} => running
    ELSE /\ running
         /\ evtPc = "idle" => (paused <=> staCount > 0)
         /\ evtPc = "pausing" => paused /\ staCount > 0
         /\ evtPc = "resuming" => paused /\ staCount = 0
         /\ evtPc = "idle" /\ paused =>
              channel = ApChannel /\ hopPc \in {"wait", "absent"}

ScannerInv ==
  /\ ScannerTypeOK
  /\ Path(staCount, events, stations)
  /\ Settled

ScannerStep == Main \/ Handler \/ Hop \/ Associate \/ Disassociate

LEMMA ChannelRange ==
  /\ ChMax \in 1 .. 13 /\ ChMin \in 1 .. ChMax
BY ScannerAssumption DEF ChMax, ChMin

LEMMA ScannerBegins == Init => ScannerInv
<1> SUFFICES ASSUME Init PROVE ScannerInv
  OBVIOUS
<1>1. ScannerTypeOK
  <2>1. hopCh \in 1 .. 13
    BY ChannelRange DEF Init
  <2>2. running = FALSE /\ paused = FALSE /\ promisc = FALSE /\ early = FALSE
    BY DEF Init
  <2>3. running \in BOOLEAN /\ paused \in BOOLEAN /\ promisc \in BOOLEAN /\ early \in BOOLEAN
    BY <2>2, Zenon
  <2>4. staCount \in 0 .. MaxStations /\ stations \in 0 .. MaxStations
        /\ Len(events) <= MaxEvents
    BY ScannerAssumption DEF Init
  <2> QED
    BY <2>1, <2>3, <2>4 DEF Init, ScannerTypeOK
<1>2. Path(staCount, events, stations)
  BY PathEmpty, ScannerAssumption DEF Init
<1> QED
  BY <1>1, <1>2 DEF ScannerInv, Settled, Init

LEMMA MainGoesOn ==
  ASSUME ScannerInv, Main
  PROVE  ScannerInv'
<1> USE DEF ScannerInv, Settled, MainStep, apVars, radioVars, hopVars, ScannerTypeOK
<1>1. CASE StartWifi
  BY <1>1 DEF StartWifi
<1>2. CASE EnablePromiscuous
  BY <1>2 DEF EnablePromiscuous
<1>3. CASE SetRunning
  BY <1>3 DEF SetRunning
<1>4. CASE ClearPaused
  BY <1>4 DEF ClearPaused
<1>5. CASE SpawnHop
  BY <1>5 DEF SpawnHop
<1> QED
  BY <1>1, <1>2, <1>3, <1>4, <1>5 DEF Main

LEMMA HopGoesOn ==
  ASSUME ScannerInv, Hop
  PROVE  ScannerInv'
<1> USE DEF ScannerInv, Settled, apVars, radioVars, hopVars, ScannerTypeOK
<1>1. CASE HopLook
  BY <1>1 DEF HopLook
<1>2. CASE HopTune
  BY <1>2 DEF HopTune
<1>3. CASE HopNext
  BY <1>3, ChannelRange DEF HopNext
<1> QED
  BY <1>1, <1>2, <1>3 DEF Hop

LEMMA StationsGoOn ==
  ASSUME ScannerInv, Associate \/ Disassociate
  PROVE  ScannerInv'
<1> USE DEF ScannerInv, Settled, apVars, radioVars, hopVars, ScannerTypeOK, Kinds
<1>1. CASE Associate
  <2>1. Path(staCount, Append(events, "join"), stations + 1)
    BY <1>1, PathPost, ScannerAssumption DEF Associate, Moved
  <2> QED
    BY <1>1, <2>1, ScannerAssumption DEF Associate
<1>2. CASE Disassociate
  <2>1. Path(staCount, Append(events, "leave"), stations - 1)
    BY <1>2, PathPost, ScannerAssumption DEF Disassociate, Moved
  <2> QED
    BY <1>2, <2>1, ScannerAssumption DEF Disassociate
<1> QED
  BY <1>1, <1>2

LEMMA HandlerGoesOn ==
  ASSUME ScannerInv, Handler
  PROVE  ScannerInv'
<1> USE DEF ScannerInv, apVars, radioVars, hopVars, ScannerTypeOK, Kinds
<1>1. CASE Joined
  <2>1. Path(staCount + 1, Tail(events), stations) /\ staCount + 1 \in 0 .. MaxStations
    BY <1>1, PathTake DEF Joined, Take, Moved
  <2>2. Tail(events) \in Seq(Kinds) /\ Len(Tail(events)) <= MaxEvents
    BY <1>1, ScannerAssumption DEF Joined, Take
  <2>3. ScannerTypeOK'
    BY <1>1, <2>1, <2>2 DEF Joined, Take
  <2>4. Settled'
    BY <1>1 DEF Joined, Take, Settled
  <2> QED
    BY <1>1, <2>1, <2>3, <2>4 DEF Joined, Take
<1>2. CASE Left
  <2>1. Path(staCount - 1, Tail(events), stations) /\ staCount - 1 \in 0 .. MaxStations
    BY <1>2, PathTake DEF Left, Take, Moved
  <2>2. Tail(events) \in Seq(Kinds) /\ Len(Tail(events)) <= MaxEvents
    BY <1>2, ScannerAssumption DEF Left, Take
  <2>3. staCount' = staCount - 1 /\ events' = Tail(events) /\ UNCHANGED stations
    BY <1>2, <2>1, ScannerAssumption DEF Left, Take
  <2>4. ScannerTypeOK'
    BY <1>2, <2>1, <2>2, <2>3 DEF Left, Take
  <2>5. Settled'
    BY <1>2, <2>1, <2>3 DEF Left, Take, Settled
  <2> QED
    BY <2>1, <2>3, <2>4, <2>5
<1>3. CASE Pin
  BY <1>3 DEF Pin, Waited, Settled
<1>4. CASE Resume
  <2>1. ScannerTypeOK'
    BY <1>4 DEF Resume
  <2>2. Settled'
    BY <1>4 DEF Resume, Settled
  <2> QED
    BY <1>4, <2>1, <2>2 DEF Resume
<1> QED
  BY <1>1, <1>2, <1>3, <1>4 DEF Handler

LEMMA ScannerRests == ScannerInv /\ UNCHANGED scannerVars => ScannerInv'
BY DEF scannerVars, apVars, radioVars, hopVars, ScannerInv, ScannerTypeOK, Settled, Path

LEMMA RelayRests == RelayInv /\ UNCHANGED relayVars => RelayInv'
BY DEF relayVars, RelayInv, Relay!StartTypeOK, Counted, Count, At, Allowed

------------------------------------------------------------------------------
(* The boot: app_main's own state says no more than where it is, so the two *)
(* invariants hold side by side.                                            *)

Stages ==
  /\ stage \in {"queues", "scanner", "ble", "arm", "loop", "halt"}
  /\ timer \in {"none", "armed", "fired", "failed"}

BootInv == ScannerInv /\ RelayInv /\ Stages

LEMMA BootBegins == BootInit => BootInv
BY ScannerBegins, RelayBegins DEF BootInit, BootInv, Stages

LEMMA BootGoesOn == BootInv /\ [BootNext]_bootVars => BootInv'
<1> SUFFICES ASSUME BootInv, [BootNext]_bootVars PROVE BootInv'
  OBVIOUS
<1> USE DEF BootInv, Stages
<1>1. CASE CreateQueues
  BY <1>1, ScannerRests, RelayRests DEF CreateQueues
<1>2. CASE StartScanner
  <2>1. ScannerInv'
    BY <1>2, MainGoesOn DEF StartScanner
  <2> QED
    BY <1>2, <2>1, RelayRests DEF StartScanner
<1>3. CASE StartRelay
  <2>1. RelayStep
    BY <1>3 DEF StartRelay, RelayStep, Relay!Callers
  <2> QED
    BY <1>3, <2>1, RelayGoesOn, ScannerRests DEF StartRelay
<1>4. CASE ArmTimer \/ ArmTimerFails
  BY <1>4, ScannerRests, RelayRests DEF ArmTimer, ArmTimerFails
<1>5. CASE MarkValid
  BY <1>5, ScannerRests, RelayRests DEF MarkValid
<1>6. CASE ScannerTasks
  <2>1. ScannerInv'
    BY <1>6, HandlerGoesOn, HopGoesOn, StationsGoOn DEF ScannerTasks, RadioTasks
  <2> QED
    BY <1>6, <2>1, RelayRests DEF ScannerTasks
<1>7. CASE HostTask
  <2>1. RelayStep
    BY <1>7 DEF HostTask, RelayStep, Relay!Callers
  <2> QED
    BY <1>7, <2>1, RelayGoesOn, ScannerRests DEF HostTask
<1>8. CASE UNCHANGED bootVars
  BY <1>8, ScannerRests, RelayRests DEF bootVars
<1> QED
  BY <1>1, <1>2, <1>3, <1>4, <1>5, <1>6, <1>7, <1>8 DEF BootNext, MainTask

LEMMA BootHolds == BootSpec => []BootInv
BY BootBegins, BootGoesOn, PTL DEF BootSpec

(* The types, which hold two bounds no guard of the code states: at most    *)
(* two relay tasks are ever created, and ap_event_handler's count of        *)
(* clients never leaves what the portal can have.                           *)
THEOREM BootTyped == BootSpec => []BootTypeOK
<1>1. BootInv => BootTypeOK
  BY DEF BootInv, BootTypeOK, ScannerInv, RelayInv, Stages
<1> QED
  BY <1>1, BootHolds, PTL

(* However app_main and the host task interleave in ble_relay_start and     *)
(* on_sync, a node in UART mode never has a relay task.                     *)
THEOREM RelayOnlyWanted == BootSpec => []RelayOnlyInRelayMode
<1>1. BootInv => RelayOnlyInRelayMode
  BY DEF BootInv, RelayInv, Allowed, RelayOnlyInRelayMode, Relay!RelayOnlyInRelayMode
<1> QED
  BY <1>1, BootHolds, PTL

(* For every range of channels, number of clients and length of the event   *)
(* queue: while a client is on the portal and the handler has caught up,    *)
(* the radio is on the portal's channel, unless an event was handled before *)
(* wifi_scanner_start was over.                                             *)
THEOREM PortalStaysPinned == BootSpec => []PortalPinned
<1>1. ASSUME BootInv PROVE PortalPinned
  <2> SUFFICES ASSUME Serving, ~early PROVE Pinned
    BY DEF PortalPinned
  <2>1. staCount = stations
    BY <1>1, PathEmpty DEF BootInv, ScannerInv, Serving
  <2> QED
    BY <1>1, <2>1 DEF BootInv, ScannerInv, ScannerTypeOK, Settled, Serving, Pinned
<1> QED
  BY <1>1, BootHolds, PTL

------------------------------------------------------------------------------
(* The relay task under load.                                               *)

Entries == [of : Drones, age : Nat]
DroneCount == Cardinality(Drones)

LoadTypeOK ==
  /\ queue \in Seq(Entries)
  /\ merged \in [Drones -> Nat \cup {Gone}]
  /\ busy \in Nat /\ cycle \in Nat
  /\ sent \in [Drones -> Nat]
  /\ Drones # {} => busy <= PassMax

(* A queue of at most capacity frames, each of which has the pass under way *)
(* and the passes of the frames before it to wait for.                      *)
Waits(capacity) ==
  /\ Len(queue) <= capacity
  /\ \A i \in 1 .. Len(queue) : queue[i].age + busy <= (capacity + 1 - i) * PassMax

LEMMA Product ==
  ASSUME NEW a \in Nat, NEW b \in Nat, NEW c \in Nat, NEW d \in Nat, a <= c, b <= d
  PROVE  a * b \in Nat /\ a * b <= c * d
<1>1. a * b <= c * b
  OBVIOUS
<1>2. c * b <= c * d
  OBVIOUS
<1> QED
  BY <1>1, <1>2

LEMMA PassMaxType == PassMax \in Nat /\ DroneCount \in Nat
BY LoadAssumption, FS_CardinalityType DEF PassMax, DroneCount

LEMMA PassFits ==
  ASSUME NEW live \in SUBSET Drones, Drones # {}
  PROVE  PassTicks(live) \in Nat /\ PassTicks(live) <= PassMax
<1>1. IsFiniteSet(live) /\ Cardinality(live) <= Cardinality(Drones)
  BY LoadAssumption, FS_Subset
<1>2. Cardinality(live) \in Nat /\ Cardinality(Drones) \in Nat /\ Cardinality(Drones) # 0
  BY <1>1, LoadAssumption, FS_CardinalityType, FS_EmptySet
<1>3. Burst + SelfId \in Nat /\ Burst + SelfId <= Burst + 1 /\ Burst + 1 \in Nat
  BY LoadAssumption DEF SelfId
<1>4. (Burst + SelfId) * Cardinality(live) \in Nat
      /\ (Burst + SelfId) * Cardinality(live) <= (Burst + 1) * Cardinality(Drones)
  BY <1>1, <1>2, <1>3, Product
<1>5. 1 * 1 <= (Burst + 1) * Cardinality(Drones)
  BY <1>2, <1>3, LoadAssumption, Product
<1> QED
  BY <1>4, <1>5 DEF PassTicks, PassMax

LEMMA LoadBegins ==
  ASSUME InitLoad, NEW capacity \in Nat
  PROVE  LoadTypeOK /\ Waits(capacity)
BY LoadAssumption, PassMaxType DEF InitLoad, LoadTypeOK, Waits, Entries, Gone

(* What a pass does to the clock, whatever it has merged.                   *)
LEMMA FinishFits ==
  ASSUME LoadTypeOK, NEW m \in [Drones -> Nat \cup {Gone}], Finish(m)
  PROVE  /\ merged' \in [Drones -> Nat \cup {Gone}] /\ busy' \in Nat /\ cycle' \in Nat
         /\ sent' = sent
         /\ Drones # {} => busy' <= PassMax
<1>1. merged' \in [Drones -> Nat \cup {Gone}]
  BY DEF Finish, Evict, Gone
<1>2. Live(merged') \in SUBSET Drones
  BY DEF Live
<1>3. busy' \in Nat /\ (Drones # {} => busy' <= PassMax)
  BY <1>2, PassFits DEF Finish, PassTicks
<1>4. cycle' \in Nat
  BY LoadAssumption DEF Finish, LoadTypeOK
<1> QED
  BY <1>1, <1>3, <1>4 DEF Finish

LEMMA LoadTransmit ==
  ASSUME LoadTypeOK, NEW d \in Drones, Transmit(d)
  PROVE  LoadTypeOK'
<1>1. [of |-> d, age |-> 0] \in Entries
  BY DEF Entries
<1>2. queue' \in Seq(Entries)
  BY <1>1 DEF LoadTypeOK, Transmit
<1>3. sent' \in [Drones -> Nat]
  BY DEF LoadTypeOK, Transmit
<1> QED
  BY <1>2, <1>3 DEF LoadTypeOK, Transmit, PassMax

LEMMA LoadPass ==
  ASSUME LoadTypeOK, Pass \/ EmptyPass
  PROVE  LoadTypeOK'
<1>1. CASE Pass
  <2>1. Head(queue) \in Entries /\ Tail(queue) \in Seq(Entries)
    BY <1>1 DEF Pass, LoadTypeOK
  <2>2. [merged EXCEPT ![Head(queue).of] = 0] \in [Drones -> Nat \cup {Gone}]
    BY <2>1 DEF LoadTypeOK, Entries
  <2> QED
    BY <1>1, <2>1, <2>2, FinishFits DEF Pass, LoadTypeOK, PassMax
<1>2. CASE EmptyPass
  <2>1. merged \in [Drones -> Nat \cup {Gone}]
    BY DEF LoadTypeOK
  <2> QED
    BY <1>2, <2>1, FinishFits DEF EmptyPass, LoadTypeOK, PassMax
<1> QED
  BY <1>1, <1>2

LEMMA TickQueue ==
  ASSUME LoadTypeOK, Tick
  PROVE  /\ queue' \in Seq(Entries) /\ Len(queue') = Len(queue)
         /\ \A i \in 1 .. Len(queue) :
              queue'[i].of = queue[i].of /\ queue'[i].age = queue[i].age + 1
<1>1. Len(queue) \in Nat /\ DOMAIN queue = 1 .. Len(queue)
      /\ \A i \in 1 .. Len(queue) : queue[i] \in Entries
  BY DEF LoadTypeOK
<1>2. queue' = [i \in 1 .. Len(queue) |-> [queue[i] EXCEPT !.age = @ + 1]]
  BY <1>1 DEF Tick
<1>3. \A i \in 1 .. Len(queue) : [queue[i] EXCEPT !.age = @ + 1] \in Entries
  BY <1>1 DEF Entries
<1>4. queue' \in Seq(Entries) /\ Len(queue') = Len(queue)
  BY <1>1, <1>2, <1>3
<1> QED
  BY <1>1, <1>2, <1>4 DEF Entries

LEMMA LoadTick ==
  ASSUME LoadTypeOK, Tick
  PROVE  LoadTypeOK'
<1>1. merged' \in [Drones -> Nat \cup {Gone}] /\ sent' \in [Drones -> Nat]
  BY DEF Tick, LoadTypeOK, Gone
<1>2. busy' \in Nat /\ (Drones # {} => busy' <= PassMax)
  BY PassMaxType DEF Tick, LoadTypeOK
<1>3. cycle' \in Nat /\ PassMax' = PassMax
  BY DEF Tick, LoadTypeOK, PassMax
<1> QED
  BY <1>1, <1>2, <1>3, TickQueue DEF LoadTypeOK

LEMMA LoadGoesOn == LoadTypeOK /\ [NextLoad]_loadVars => LoadTypeOK'
<1> SUFFICES ASSUME LoadTypeOK, [NextLoad]_loadVars PROVE LoadTypeOK'
  OBVIOUS
<1>1. CASE UNCHANGED loadVars
  BY <1>1 DEF loadVars, LoadTypeOK, PassMax
<1> QED
  BY <1>1, LoadTransmit, LoadPass, LoadTick DEF NextLoad

(* One place further in the queue is one pass more to wait.                 *)
LEMMA OnePassMore ==
  ASSUME NEW n \in Nat, NEW p \in Nat
  PROVE  (n + 1) * p = n * p + p /\ n * p \in Nat /\ p <= (n + 1) * p
<1>1. (n + 1) * p = n * p + p
  OBVIOUS
<1>2. n * p \in Nat
  OBVIOUS
<1> QED
  BY <1>1, <1>2

LEMMA WaitTransmit ==
  ASSUME LoadTypeOK, NEW capacity \in Nat, Waits(capacity), NEW d \in Drones, Transmit(d),
         Len(queue) < Depth => Len(queue) < capacity
  PROVE  Waits(capacity)'
<1>1. busy' = busy /\ PassMax' = PassMax
  BY DEF Transmit, PassMax
<1>2. CASE Len(queue) < Depth
  <2>1. queue' = Append(queue, [of |-> d, age |-> 0])
    BY <1>2 DEF Transmit
  <2>2. Len(queue') = Len(queue) + 1 /\ Len(queue') <= capacity /\ Len(queue) \in Nat
    BY <1>2, <2>1 DEF LoadTypeOK
  <2>3. ASSUME NEW i \in 1 .. Len(queue')
        PROVE  queue'[i].age + busy' <= (capacity + 1 - i) * PassMax
    <3>1. CASE i \in 1 .. Len(queue)
      <4>1. queue'[i] = queue[i]
        BY <2>1, <3>1 DEF LoadTypeOK
      <4> QED
        BY <1>1, <3>1, <4>1 DEF Waits
    <3>2. CASE i = Len(queue) + 1
      <4>1. queue'[i].age = 0
        BY <2>1, <3>2 DEF LoadTypeOK
      <4>2. capacity - i \in Nat /\ capacity + 1 - i = (capacity - i) + 1
        BY <2>2, <3>2
      <4>3. PassMax <= (capacity + 1 - i) * PassMax
        BY <4>2, OnePassMore, PassMaxType
      <4>4. busy' \in Nat /\ busy' <= PassMax
        BY <1>1 DEF LoadTypeOK
      <4>5. (capacity + 1 - i) * PassMax \in Int
        BY <4>2, PassMaxType
      <4> QED
        BY <4>1, <4>3, <4>4, <4>5, PassMaxType
    <3> QED
      BY <2>2, <3>1, <3>2
  <2> QED
    BY <1>1, <2>2, <2>3 DEF Waits
<1>3. CASE ~(Len(queue) < Depth)
  BY <1>1, <1>3 DEF Transmit, Waits
<1> QED
  BY <1>2, <1>3

LEMMA WaitPass ==
  ASSUME LoadTypeOK, NEW capacity \in Nat, Waits(capacity), Pass \/ EmptyPass
  PROVE  Waits(capacity)'
<1>1. CASE Pass
  <2>1. busy = 0 /\ queue # <<>> /\ queue' = Tail(queue)
    BY <1>1 DEF Pass
  <2>2. Len(queue) \in Nat /\ Len(queue') = Len(queue) - 1
        /\ \A i \in 1 .. Len(queue') : queue'[i] = queue[i + 1] /\ i + 1 \in 1 .. Len(queue)
    BY <2>1 DEF LoadTypeOK
  <2>3. Head(queue).of \in Drones
    <3>1. Head(queue) \in Entries
      BY <2>1 DEF LoadTypeOK
    <3> QED
      BY <3>1 DEF Entries
  <2>4. busy' \in Nat /\ busy' <= PassMax
    <3>1. [merged EXCEPT ![Head(queue).of] = 0] \in [Drones -> Nat \cup {Gone}]
      BY DEF LoadTypeOK
    <3> QED
      BY <1>1, <2>3, <3>1, FinishFits DEF Pass
  <2>5. ASSUME NEW i \in 1 .. Len(queue')
        PROVE  queue'[i].age + busy' <= (capacity + 1 - i) * PassMax
    <3>1. queue[i + 1].age + busy <= (capacity + 1 - (i + 1)) * PassMax
      BY <2>2 DEF Waits
    <3>2. capacity - i \in Nat /\ capacity + 1 - (i + 1) = capacity - i
          /\ capacity + 1 - i = (capacity - i) + 1
      BY <2>2 DEF Waits
    <3>3. (capacity + 1 - i) * PassMax = (capacity - i) * PassMax + PassMax
          /\ (capacity - i) * PassMax \in Nat
      BY <3>2, OnePassMore, PassMaxType
    <3>4. queue'[i].age \in Nat /\ queue'[i].age <= (capacity - i) * PassMax
      <4>1. queue[i + 1] \in Entries
        BY <2>2 DEF LoadTypeOK
      <4>2. queue[i + 1].age \in Nat
        BY <4>1 DEF Entries
      <4> QED
        BY <2>1, <2>2, <3>1, <3>2, <4>2
    <3> QED
      BY <2>4, <3>3, <3>4, PassMaxType
  <2> QED
    BY <2>2, <2>5 DEF Waits, PassMax
<1>2. CASE EmptyPass
  BY <1>2 DEF EmptyPass, Waits
<1> QED
  BY <1>1, <1>2

LEMMA WaitTick ==
  ASSUME LoadTypeOK, NEW capacity \in Nat, Waits(capacity), Tick
  PROVE  Waits(capacity)'
<1>1. CASE queue = <<>>
  BY <1>1, TickQueue DEF Waits
<1>2. CASE queue # <<>>
  <2>1. busy > 0 /\ busy' = busy - 1
    BY <1>2 DEF Tick
  <2>2. ASSUME NEW i \in 1 .. Len(queue)
        PROVE  queue'[i].age + busy' = queue[i].age + busy
    <3>1. queue[i] \in Entries
      BY DEF LoadTypeOK
    <3>2. queue[i].age \in Nat
      BY <3>1 DEF Entries
    <3>3. queue'[i].age = queue[i].age + 1
      BY TickQueue
    <3> QED
      BY <2>1, <3>2, <3>3 DEF LoadTypeOK
  <2> QED
    BY <2>2, TickQueue DEF Waits, PassMax
<1> QED
  BY <1>1, <1>2

(* For every number of drones, depth of the queue and burst, and however    *)
(* the drones transmit: a frame that is on the queue is merged within one   *)
(* pass for each place the queue has.  What overload costs is dropped       *)
(* frames, never an ever older position.                                    *)
THEOREM LatencyStaysBounded == SpecLoad => []LatencyBounded
<1>1. Depth \in Nat
  BY LoadAssumption
<1>2. InitLoad => LoadTypeOK /\ Waits(Depth)
  BY <1>1, LoadBegins
<1>3. LoadTypeOK /\ Waits(Depth) /\ [NextLoad]_loadVars => (LoadTypeOK /\ Waits(Depth))'
  <2> SUFFICES ASSUME LoadTypeOK, Waits(Depth), [NextLoad]_loadVars
               PROVE  (LoadTypeOK /\ Waits(Depth))'
    OBVIOUS
  <2>1. CASE UNCHANGED loadVars
    BY <2>1, LoadGoesOn DEF loadVars, Waits, PassMax
  <2> QED
    BY <1>1, <2>1, LoadGoesOn, WaitTransmit, WaitPass, WaitTick DEF NextLoad
<1>4. LoadTypeOK /\ Waits(Depth) => LatencyBounded
  BY DEF LoadTypeOK, Waits, LatencyBounded
<1> QED
  BY <1>2, <1>3, <1>4, PTL DEF SpecLoad

------------------------------------------------------------------------------
(* How much of the table can be in use.  Every slot that was merged after   *)
(* another has spent a pass on all the drones that were in the table by     *)
(* then, so the oldest of n slots is older than passes of 1, 2, .. n - 1    *)
(* slots; and what is older than SilentTicks is evicted.                    *)

Size(t) == Cardinality(Live(t))

(* The drones merged after d, and how many they are. *)
Newer(t, d) == {x \in Live(t) \ {d} : t[x] <= t[d]}
Rank(t, d)  == Cardinality(Newer(t, d))

(* Twice the slots of the passes since d was merged, without and with the   *)
(* pass under way: twice the sum of n - a, n - a + 1, .. up to n - 1 or n.  *)
Since(a, n) == a * (2 * n - a - 1)
Until(a, n) == (a + 1) * (2 * n - a)

Apart(t) == \A d \in Live(t) : Burst * Since(Rank(t, d), Size(t)) <= 2 * t[d]

Spread(t, b) == \A d \in Live(t) : Burst * Until(Rank(t, d), Size(t)) <= 2 * (t[d] + b)

FewInUse(t) == Burst * (Size(t) * (Size(t) - 1)) <= 2 * SilentTicks

TableInv == LoadTypeOK /\ Spread(merged, busy) /\ FewInUse(merged)

Ages == [Drones -> Nat \cup {Gone}]

LEMMA LiveType ==
  ASSUME NEW t \in Ages
  PROVE  /\ IsFiniteSet(Live(t)) /\ Size(t) \in Nat /\ Burst \in Nat \ {0} /\ SilentTicks \in Nat
         /\ \A d \in Live(t) : t[d] \in Nat /\ d \in Drones
<1>1. IsFiniteSet(Live(t))
  BY LoadAssumption, FS_Subset DEF Live
<1> QED
  BY <1>1, LoadAssumption, FS_CardinalityType DEF Live, Ages, Gone, Size

LEMMA RankType ==
  ASSUME NEW t \in Ages, NEW d \in Live(t)
  PROVE  /\ IsFiniteSet(Newer(t, d)) /\ Rank(t, d) \in Nat
         /\ Rank(t, d) + 1 <= Size(t)
<1>1. IsFiniteSet(Live(t)) /\ Cardinality(Live(t)) \in Nat
  BY LiveType DEF Size
<1>2. /\ IsFiniteSet(Live(t) \ {d})
      /\ Cardinality(Live(t) \ {d}) = Cardinality(Live(t)) - 1
  BY <1>1, FS_RemoveElement
<1>3. Newer(t, d) \subseteq Live(t) \ {d}
  BY DEF Newer
<1>4. IsFiniteSet(Newer(t, d)) /\ Cardinality(Newer(t, d)) <= Cardinality(Live(t) \ {d})
  BY <1>2, <1>3, FS_Subset
<1>5. Cardinality(Newer(t, d)) \in Nat
  BY <1>4, FS_CardinalityType
<1> QED
  BY <1>1, <1>2, <1>4, <1>5 DEF Rank, Size

(* Since and Until are products of natural numbers. *)
LEMMA Products ==
  ASSUME NEW a \in Nat, NEW n \in Nat, a + 1 <= n
  PROVE  /\ 2 * n - a - 1 \in Nat /\ 2 * n - a \in Nat
         /\ Since(a, n) \in Nat /\ Until(a, n) \in Nat
         /\ Until(a, n) = Since(a, n) + 2 * n
<1>1. 2 * n - a - 1 \in Nat /\ 2 * n - a \in Nat
  OBVIOUS
<1>2. Since(a, n) \in Nat /\ Until(a, n) \in Nat
  BY <1>1, Product DEF Since, Until
<1>3. (a + 1) * (2 * n - a) = a * (2 * n - a) + (2 * n - a)
  BY <1>1
<1>4. a * (2 * n - a) = a * (2 * n - a - 1) + a
  BY <1>1
<1>5. a * (2 * n - a) \in Nat
  BY <1>1, Product
<1> QED
  BY <1>1, <1>2, <1>3, <1>4, <1>5 DEF Since, Until

LEMMA Scaled ==
  ASSUME NEW x \in Nat, NEW y \in Nat, x <= y
  PROVE  Burst * x \in Nat /\ Burst * y \in Nat /\ Burst * x <= Burst * y
BY LoadAssumption, Product

(* When a pass ends, every slot has seen it. *)
LEMMA SpreadApart ==
  ASSUME NEW t \in Ages, Spread(t, 0)
  PROVE  Apart(t) /\ \A d \in Live(t) : t[d] > 0
<1> SUFFICES ASSUME NEW d \in Live(t)
             PROVE  Burst * Since(Rank(t, d), Size(t)) <= 2 * t[d] /\ t[d] > 0
  BY DEF Apart
<1> DEFINE a == Rank(t, d)
           n == Size(t)
<1>1. a \in Nat /\ n \in Nat /\ a + 1 <= n /\ t[d] \in Nat /\ Burst \in Nat \ {0}
  BY RankType, LiveType
<1> HIDE DEF a, n
<1>2. Since(a, n) \in Nat /\ Until(a, n) \in Nat /\ Until(a, n) = Since(a, n) + 2 * n
  BY <1>1, Products
<1>3. Burst * Since(a, n) <= Burst * Until(a, n) /\ Burst * Since(a, n) \in Nat
      /\ Burst * Until(a, n) \in Nat
  BY <1>1, <1>2, Scaled
<1>4. Burst * 1 <= Burst * Until(a, n)
  BY <1>1, <1>2, Scaled
<1>5. Burst * Until(a, n) <= 2 * t[d]
  BY <1>1 DEF Spread, a, n
<1> QED
  BY <1>1, <1>3, <1>4, <1>5 DEF a, n

(* A frame of e is merged.  For a drone that was newer than e, e is one     *)
(* newer drone more; if e is new, there is one slot more as well.           *)
LEMMA MergeApart ==
  ASSUME NEW t \in Ages, Spread(t, 0), NEW e \in Drones,
         NEW m, m = [t EXCEPT ![e] = 0]
  PROVE  m \in Ages /\ Apart(m)
<1>1. m \in Ages /\ \A x \in Drones : m[x] = IF x = e THEN 0 ELSE t[x]
  BY DEF Ages
<1>2. \A x \in Live(t) : t[x] \in Nat /\ t[x] > 0 /\ x \in Drones
  BY SpreadApart, LiveType
<1>3. Live(m) = Live(t) \cup {e}
  BY <1>1 DEF Live, Gone
<1>4. /\ IsFiniteSet(Live(t)) /\ Size(t) \in Nat
      /\ Size(m) = IF e \in Live(t) THEN Size(t) ELSE Size(t) + 1
  BY <1>3, LiveType, FS_AddElement DEF Size
<1> SUFFICES ASSUME NEW d \in Live(m)
             PROVE  Burst * Since(Rank(m, d), Size(m)) <= 2 * m[d]
  BY <1>1 DEF Apart
<1>5. CASE d = e
  <2>1. Newer(m, e) = {}
    <3>1. m[e] = 0
      BY <1>1
    <3>2. ASSUME NEW x \in Live(m) \ {e} PROVE ~(m[x] <= 0)
      <4>1. x \in Live(t)
        BY <1>3, <3>2
      <4>2. t[x] \in Nat /\ t[x] > 0 /\ m[x] = t[x]
        BY <1>1, <1>2, <3>2, <4>1
      <4> QED
        BY <4>2
    <3> QED
      BY <3>1, <3>2 DEF Newer
  <2>2. Rank(m, d) = 0
    BY <1>5, <2>1, FS_EmptySet DEF Rank
  <2>3. Size(m) \in Nat /\ Burst \in Nat
    BY <1>1, LiveType
  <2>4. Since(0, Size(m)) = 0
    BY <2>3 DEF Since
  <2>5. m[d] = 0
    BY <1>1, <1>5
  <2> QED
    BY <2>2, <2>3, <2>4, <2>5
<1>6. CASE d # e
  <2>1. d \in Live(t) /\ m[d] = t[d] /\ t[d] \in Nat /\ t[d] > 0
    BY <1>1, <1>2, <1>3, <1>6
  <2>2. Newer(m, d) = Newer(t, d) \cup {e}
    <3>1. m[e] <= t[d] /\ e # d
      BY <1>1, <1>6, <2>1
    <3>2. \A x \in Live(t) \ {e} : m[x] = t[x]
      BY <1>1, <1>2
    <3>3. ASSUME NEW x PROVE x \in Newer(m, d) <=> x \in Newer(t, d) \cup {e}
      <4>1. CASE x = e
        BY <1>3, <2>1, <3>1, <4>1 DEF Newer
      <4>2. CASE x # e
        <5>1. x \in Live(m) <=> x \in Live(t)
          BY <1>3, <4>2
        <5> QED
          BY <2>1, <3>2, <4>2, <5>1 DEF Newer
      <4> QED
        BY <4>1, <4>2
    <3> QED
      BY <3>3
  <2> DEFINE a == Rank(t, d)
             n == Size(t)
             c == Rank(m, d)
             k == Size(m)
  <2>3. a \in Nat /\ n \in Nat /\ a + 1 <= n
    BY <2>1, RankType, LiveType
  <2>4. c = IF e \in Newer(t, d) THEN a ELSE a + 1
    BY <2>1, <2>2, RankType, FS_AddElement DEF Rank
  <2>5. e \in Newer(t, d) => e \in Live(t)
    BY DEF Newer
  <2>6. k = IF e \in Live(t) THEN n ELSE n + 1
    BY <1>4
  <2>7. Burst * Until(a, n) <= 2 * t[d]
    <3>1. Burst * Until(a, n) <= 2 * (t[d] + 0)
      BY <2>1 DEF Spread
    <3> QED
      BY <2>1, <3>1
  <2>8. c \in Nat /\ k \in Nat /\ c + 1 <= k
    BY <1>1, RankType, LiveType
  <2> HIDE DEF a, n, c, k
  <2>9. c <= a + 1 /\ 2 * k - c - 1 <= 2 * n - a
    BY <2>3, <2>4, <2>5, <2>6
  <2>10. Since(c, k) \in Nat /\ Until(a, n) \in Nat /\ Since(c, k) <= Until(a, n)
    <3>1. 2 * k - c - 1 \in Nat /\ 2 * n - a \in Nat /\ a + 1 \in Nat
      BY <2>3, <2>8
    <3>2. c * (2 * k - c - 1) <= (a + 1) * (2 * n - a)
      BY <2>8, <2>9, <3>1, Product
    <3> QED
      BY <2>3, <2>8, <3>2, Products DEF Since, Until
  <2>11. Burst * Since(c, k) <= Burst * Until(a, n) /\ Burst * Since(c, k) \in Nat
         /\ Burst * Until(a, n) \in Nat
    BY <2>10, Scaled
  <2>12. Burst * Since(c, k) <= 2 * t[d]
    BY <2>1, <2>7, <2>11
  <2> QED
    BY <2>1, <2>12 DEF c, k
<1> QED
  BY <1>5, <1>6

(* Eviction takes older drones than any that stays. *)
LEMMA EvictApart ==
  ASSUME NEW m \in Ages, Apart(m)
  PROVE  /\ Evict(m) \in Ages /\ Apart(Evict(m))
         /\ \A d \in Live(Evict(m)) : Evict(m)[d] <= SilentTicks
<1> DEFINE t == Evict(m)
<1>1. /\ t \in Ages
      /\ \A x \in Drones : t[x] = IF m[x] > SilentTicks THEN Gone ELSE m[x]
  BY DEF Evict, Ages, Gone
<1>2. \A x : x \in Live(t) <=> x \in Live(m) /\ m[x] <= SilentTicks
  <2>1. \A x \in Drones : m[x] \in Nat \cup {Gone}
    BY DEF Ages
  <2> QED
    BY <1>1, <2>1, LoadAssumption DEF Live, Gone
<1>3. \A x \in Live(t) : t[x] = m[x] /\ m[x] \in Nat
  BY <1>1, <1>2, LiveType DEF Live
<1> HIDE DEF t
<1>4. Size(t) <= Size(m) /\ Size(t) \in Nat /\ Size(m) \in Nat
  <2>1. Live(t) \subseteq Live(m) /\ IsFiniteSet(Live(m))
    BY <1>2, LiveType
  <2> QED
    BY <1>1, <2>1, FS_Subset, LiveType DEF Size
<1>5. ASSUME NEW d \in Live(t)
      PROVE  Burst * Since(Rank(t, d), Size(t)) <= 2 * t[d]
  <2>1. d \in Live(m) /\ m[d] \in Nat /\ m[d] <= SilentTicks /\ t[d] = m[d]
    BY <1>2, <1>3
  <2>2. Newer(t, d) = Newer(m, d)
    <3>1. \A x \in Live(m) : m[x] \in Nat
      BY LiveType
    <3>2. \A x : x \in Live(t) /\ t[x] <= t[d] <=> x \in Live(m) /\ m[x] <= m[d]
      BY <1>2, <1>3, <2>1, <3>1, LoadAssumption
    <3> QED
      BY <3>2 DEF Newer
  <2> DEFINE a == Rank(t, d)
             n == Size(m)
             k == Size(t)
  <2>3. a = Rank(m, d)
    BY <2>2 DEF Rank
  <2>4. a \in Nat /\ a + 1 <= k
    BY <1>1, RankType
  <2>5. Burst * Since(a, n) <= 2 * m[d]
    BY <2>1, <2>3 DEF Apart
  <2> HIDE DEF a, n, k
  <2>6. k \in Nat /\ n \in Nat /\ k <= n
    BY <1>4 DEF k, n
  <2>7. Since(a, k) \in Nat /\ Since(a, n) \in Nat /\ Since(a, k) <= Since(a, n)
    <3>1. 2 * k - a - 1 \in Nat /\ 2 * n - a - 1 \in Nat /\ 2 * k - a - 1 <= 2 * n - a - 1
      BY <2>4, <2>6
    <3>2. a * (2 * k - a - 1) <= a * (2 * n - a - 1)
      BY <2>4, <3>1, Product
    <3> QED
      BY <2>4, <2>6, <3>2, Products DEF Since
  <2>8. Burst * Since(a, k) <= Burst * Since(a, n) /\ Burst * Since(a, k) \in Nat
        /\ Burst * Since(a, n) \in Nat
    BY <2>7, Scaled
  <2>9. Burst * Since(a, k) <= 2 * m[d]
    BY <2>1, <2>5, <2>8
  <2> QED
    BY <2>1, <2>9 DEF a, k
<1> QED
  BY <1>1, <1>2, <1>3, <1>5 DEF Apart, t

(* The pass that begins is as long as there are slots. *)
LEMMA PassSpread ==
  ASSUME NEW t \in Ages, Apart(t), NEW b \in Nat, b >= Burst * Size(t)
  PROVE  Spread(t, b)
<1> SUFFICES ASSUME NEW d \in Live(t)
             PROVE  Burst * Until(Rank(t, d), Size(t)) <= 2 * (t[d] + b)
  BY DEF Spread
<1> DEFINE a == Rank(t, d)
           n == Size(t)
<1>1. a \in Nat /\ n \in Nat /\ a + 1 <= n /\ t[d] \in Nat /\ Burst \in Nat
  BY RankType, LiveType
<1>2. Burst * Since(a, n) <= 2 * t[d] /\ b >= Burst * n
  BY DEF Apart
<1> HIDE DEF a, n
<1>3. Since(a, n) \in Nat /\ Until(a, n) = Since(a, n) + 2 * n
  BY <1>1, Products
<1>4. Burst * Until(a, n) = Burst * Since(a, n) + 2 * (Burst * n)
  BY <1>1, <1>3
<1>5. Burst * Since(a, n) \in Nat /\ Burst * n \in Nat
  BY <1>1, <1>3, Scaled
<1>6. Burst * Until(a, n) <= 2 * (t[d] + b)
  BY <1>1, <1>2, <1>4, <1>5
<1> QED
  BY <1>6 DEF a, n

(* The drone that was merged first. *)
LEMMA Oldest ==
  ASSUME NEW t \in Ages, Live(t) # {}, \A d \in Live(t) : t[d] <= SilentTicks
  PROVE  \E d \in Live(t) : \A x \in Live(t) : t[x] <= t[d]
<1> DEFINE R == OpToRel(<, Nat)
           S == {SilentTicks - t[d] : d \in Live(t)}
<1>1. IsWellFoundedOn(R, Nat)
  BY NatLessThanWellFounded
<1>2. \A d \in Live(t) : t[d] \in Nat /\ SilentTicks - t[d] \in Nat
  BY LiveType
<1>3. S \subseteq Nat /\ S # {}
  BY <1>2
<1>4. \A i, j \in Nat : <<j, i>> \in R <=> j < i
  BY DEF OpToRel
<1>5. PICK i \in S : \A j \in S : ~(<<j, i>> \in R)
  BY <1>1, <1>3, WFMin
<1>6. \A j \in S : ~(j < i)
  BY <1>3, <1>4, <1>5
<1>7. PICK d \in Live(t) : i = SilentTicks - t[d]
  BY <1>5
<1>8. ASSUME NEW x \in Live(t) PROVE t[x] <= t[d]
  <2>1. SilentTicks - t[x] \in S
    OBVIOUS
  <2>2. ~(SilentTicks - t[x] < SilentTicks - t[d])
    BY <1>6, <1>7, <2>1
  <2> QED
    BY <1>2, <2>2, LiveType
<1> QED
  BY <1>8

LEMMA ApartFew ==
  ASSUME NEW t \in Ages, Apart(t), \A d \in Live(t) : t[d] <= SilentTicks
  PROVE  FewInUse(t)
<1>1. Size(t) \in Nat /\ Burst \in Nat /\ SilentTicks \in Nat
  BY LiveType
<1>2. CASE Live(t) = {}
  <2>1. Size(t) = 0
    BY <1>2, FS_EmptySet DEF Size
  <2> QED
    BY <1>1, <2>1 DEF FewInUse
<1>3. CASE Live(t) # {}
  <2>1. PICK d \in Live(t) : \A x \in Live(t) : t[x] <= t[d]
    BY <1>3, Oldest
  <2>2. Newer(t, d) = Live(t) \ {d}
    BY <2>1 DEF Newer
  <2>3. Rank(t, d) = Size(t) - 1
    BY <2>2, LiveType, FS_RemoveElement DEF Rank, Size
  <2>4. Rank(t, d) + 1 <= Size(t) /\ Rank(t, d) \in Nat
    BY RankType
  <2>5. Since(Rank(t, d), Size(t)) = Size(t) * (Size(t) - 1)
    <3>1. 2 * Size(t) - Rank(t, d) - 1 = Size(t)
      BY <1>1, <2>3
    <3>2. Since(Rank(t, d), Size(t)) = (Size(t) - 1) * Size(t)
      BY <2>3, <3>1 DEF Since
    <3> QED
      BY <1>1, <3>2
  <2>6. Burst * (Size(t) * (Size(t) - 1)) <= 2 * t[d]
    BY <2>5 DEF Apart
  <2>7. t[d] \in Nat /\ t[d] <= SilentTicks
    BY LiveType
  <2>8. Size(t) * (Size(t) - 1) \in Nat
    BY <1>1, <2>3, <2>4, Product
  <2>9. Burst * (Size(t) * (Size(t) - 1)) \in Nat
    BY <2>8, Scaled
  <2> QED
    BY <1>1, <2>6, <2>7, <2>9 DEF FewInUse
<1> QED
  BY <1>2, <1>3

(* A pass, of a frame or of none. *)
LEMMA FinishFew ==
  ASSUME LoadTypeOK, NEW m \in Ages, Apart(m), Finish(m)
  PROVE  Spread(merged', busy') /\ FewInUse(merged')
<1>1. merged' = Evict(m) /\ busy' = PassTicks(Live(merged'))
  BY DEF Finish
<1>2. merged' \in Ages /\ Apart(merged') /\ \A d \in Live(merged') : merged'[d] <= SilentTicks
  BY <1>1, EvictApart
<1>3. Size(merged') \in Nat /\ Burst \in Nat
  BY <1>2, LiveType
<1>4. CASE Live(merged') = {}
  BY <1>2, <1>4, ApartFew DEF Spread
<1>5. CASE Live(merged') # {}
  <2>1. busy' = (Burst + SelfId) * Size(merged')
    BY <1>1, <1>5 DEF PassTicks, Size
  <2>2. Burst + SelfId \in Nat /\ Burst <= Burst + SelfId
    BY <1>3 DEF SelfId
  <2>3. busy' \in Nat /\ Burst * Size(merged') <= busy'
    BY <1>3, <2>1, <2>2, Product
  <2> QED
    BY <1>2, <2>3, PassSpread, ApartFew
<1> QED
  BY <1>4, <1>5

LEMMA TableTick ==
  ASSUME TableInv, Tick
  PROVE  Spread(merged', busy') /\ FewInUse(merged')
<1>1. merged \in Ages /\ merged' \in Ages /\ busy \in Nat
  BY DEF TableInv, LoadTypeOK, Tick, Ages, Gone
<1>2. \A d \in Live(merged) : merged[d] \in Nat /\ d \in Drones
  BY <1>1, LiveType
<1>3. \A d \in Drones : merged'[d] = IF merged[d] = Gone THEN Gone ELSE merged[d] + 1
  BY DEF Tick
<1>4. Live(merged') = Live(merged)
  BY <1>2, <1>3 DEF Live, Gone
<1>5. \A d \in Live(merged) : merged'[d] = merged[d] + 1
  BY <1>2, <1>3 DEF Live
<1>6. ASSUME NEW d \in Live(merged) PROVE Newer(merged', d) = Newer(merged, d)
  <2>1. \A x \in Live(merged) : merged'[x] <= merged'[d] <=> merged[x] <= merged[d]
    BY <1>2, <1>5
  <2> QED
    BY <1>4, <2>1 DEF Newer
<1>7. ASSUME NEW d \in Live(merged)
      PROVE  Burst * Until(Rank(merged', d), Size(merged')) <= 2 * (merged'[d] + busy')
  <2>1. Rank(merged', d) = Rank(merged, d) /\ Size(merged') = Size(merged)
    BY <1>4, <1>6 DEF Rank, Size
  <2>2. busy' \in Nat /\ merged[d] \in Nat /\ merged[d] + busy <= merged'[d] + busy'
    <3>1. busy' = IF busy > 0 THEN busy - 1 ELSE 0
      BY DEF Tick
    <3>2. merged'[d] = merged[d] + 1 /\ merged[d] \in Nat
      BY <1>2, <1>5
    <3> QED
      BY <1>1, <3>1, <3>2
  <2>3. Burst * Until(Rank(merged, d), Size(merged)) <= 2 * (merged[d] + busy)
    BY DEF TableInv, Spread
  <2>4. Burst * Until(Rank(merged, d), Size(merged)) \in Nat
    <3> DEFINE a == Rank(merged, d)
               n == Size(merged)
    <3>1. a \in Nat /\ n \in Nat /\ a + 1 <= n
      BY <1>1, RankType, LiveType
    <3> HIDE DEF a, n
    <3>2. Until(a, n) \in Nat
      BY <3>1, Products
    <3> QED
      BY <3>2, Scaled DEF a, n
  <2> QED
    BY <1>1, <1>2, <1>5, <2>1, <2>2, <2>3, <2>4
<1>8. Size(merged') = Size(merged)
  BY <1>4 DEF Size
<1> QED
  BY <1>4, <1>7, <1>8 DEF Spread, FewInUse, TableInv

LEMMA TableGoesOn == TableInv /\ [NextLoad]_loadVars => TableInv'
<1> SUFFICES ASSUME TableInv, [NextLoad]_loadVars PROVE TableInv'
  OBVIOUS
<1>1. LoadTypeOK /\ LoadTypeOK' /\ merged \in Ages
  BY LoadGoesOn DEF TableInv, LoadTypeOK, Ages
<1>2. CASE UNCHANGED <<merged, busy>>
  BY <1>1, <1>2 DEF TableInv
<1>3. CASE Pass
  <2>1. busy = 0 /\ Spread(merged, 0) /\ queue # <<>>
    BY <1>3 DEF Pass, TableInv
  <2>2. Head(queue) \in Entries
    BY <1>1, <2>1 DEF LoadTypeOK
  <2>3. Head(queue).of \in Drones
    BY <2>2 DEF Entries
  <2> DEFINE m == [merged EXCEPT ![Head(queue).of] = 0]
  <2>4. m \in Ages /\ Apart(m)
    BY <1>1, <2>1, <2>3, MergeApart
  <2>5. Finish(m)
    BY <1>3 DEF Pass
  <2> HIDE DEF m
  <2> QED
    BY <1>1, <2>4, <2>5, FinishFew DEF TableInv
<1>4. CASE EmptyPass
  <2>1. Apart(merged) /\ Finish(merged)
    BY <1>1, <1>4, SpreadApart DEF EmptyPass, TableInv
  <2> QED
    BY <1>1, <2>1, FinishFew DEF TableInv
<1>5. CASE Tick
  BY <1>1, <1>5, TableTick DEF TableInv
<1> QED
  BY <1>2, <1>3, <1>4, <1>5 DEF NextLoad, Transmit, loadVars

(* For every number of drones, depth of the queue and burst, however the    *)
(* drones transmit and whatever overflows: of n slots in use the oldest has *)
(* waited for n (n - 1) / 2 bursts, so that many fit into the silent time.  *)
(* With the bursts of three ticks and the silent time of 300 of the code    *)
(* that is 14 drones, of the 32 the table is built for.                     *)
THEOREM TableNeverFills == SpecLoad => []FewInUse(merged)
<1>1. InitLoad => TableInv
  <2> SUFFICES ASSUME InitLoad PROVE TableInv
    OBVIOUS
  <2>1. LoadTypeOK /\ merged \in Ages
    BY LoadBegins DEF LoadTypeOK, Ages
  <2>2. Live(merged) = {}
    BY DEF InitLoad, Live
  <2> QED
    BY <2>1, <2>2, ApartFew DEF TableInv, Spread, Apart
<1>2. TableInv => FewInUse(merged)
  BY DEF TableInv
<1> QED
  BY <1>1, <1>2, TableGoesOn, PTL DEF SpecLoad
==============================================================================
