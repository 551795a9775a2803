--------------------------- MODULE PackRadio_proofs ---------------------------
(***************************************************************************)
(* The watchdog of the Pack advertiser keeps faults short, for any limits  *)
(* whose sum fits the tick counter, any plans of the slot table and any    *)
(* interleaving with the host task.                                        *)
(*                                                                         *)
(* Three clocks run beside each other: the streak of failed writes         *)
(* (failFor, and failingSince in the code), the time the watchdog has      *)
(* found the path unhealthy (unhealthySince), and the time the air is      *)
(* wrong (stray).  A pass moves all by the same ticks.  The watchdog sees  *)
(* a streak at the latest one pass after it has become stale, and          *)
(* restarts at the latest one pass after RestartTicks; a wrong air implies *)
(* a streak at least as old.                                               *)
(***************************************************************************)
EXTENDS PackRadio, RelayPolicy_proofs

Unhealthy == Since(health.unhealthySince, now)

(* The streak is as old as the code's stamp says. *)
StreakStamped ==
  /\ failFor = Unset <=> health.failingSince = Unset
  /\ failFor # Unset => failFor = Since(health.failingSince, now)

(* Before the watchdog looks, both clocks may be a pass beyond their limits. *)
Looking ==
  relayPc = "watchdog" =>
    /\ health.unhealthySince # Unset => Unhealthy <= RestartTicks + MaxGap
    /\ failFor > StaleWriteTicks + MaxGap =>
         /\ health.unhealthySince # Unset
         /\ failFor <= StaleWriteTicks + MaxGap + Unhealthy

(* After it has looked, a stale streak has started the second clock, and     *)
(* that one has not run out.                                                *)
Looked ==
  relayPc \notin {"watchdog", "restart"} =>
    /\ health.unhealthySince # Unset => Unhealthy <= RestartTicks
    /\ failFor > StaleWriteTicks =>
         /\ health.unhealthySince # Unset
         /\ failFor <= StaleWriteTicks + MaxGap + Unhealthy

FailureInv ==
  /\ health \in RadioHealth /\ now \in Tick
  /\ failFor \in Nat \cup {Unset} /\ failFor <= Patience
  /\ StreakStamped
  /\ Looking
  /\ Looked

LEMMA Limits ==
  /\ StaleWriteTicks \in Nat /\ RestartTicks \in Nat
  /\ MaxGap \in Nat \ {0} /\ Patience \in Nat
  /\ TickMod \in Nat \ {0}
BY RadioAssumption, PackAssumption, TickAssumption DEF Patience

LEMMA FreshHealth ==
  ASSUME health = RadioFresh, now = 0, failFor = Unset, relayPc = "unborn"
  PROVE  FailureInv
<1>1. RadioFresh \in RadioHealth /\ 0 \in Tick
  BY Limits DEF RadioFresh, RadioHealth, Stamp, Tick
<1>2. /\ health.failingSince = Unset /\ health.unhealthySince = Unset
      /\ relayPc # "watchdog"
  BY DEF RadioFresh
<1>3. failFor <= Patience /\ ~(failFor > StaleWriteTicks)
  BY Limits DEF Unset
<1> QED BY <1>1, <1>2, <1>3 DEF FailureInv, StreakStamped, Looking, Looked

LEMMA FailureInit == Init => FailureInv
BY FreshHealth DEF Init

(* Steps that leave the clocks alone and do not call the watchdog.          *)
LEMMA FailureStill ==
  ASSUME FailureInv, UNCHANGED <<health, now, failFor>>,
         relayPc' # "watchdog" \/ relayPc' = relayPc,
         relayPc' # "restart" => relayPc \notin {"watchdog", "restart"} \/ relayPc' = relayPc
  PROVE  FailureInv'
BY DEF FailureInv, StreakStamped, Looking, Looked, Unhealthy

(* Passing time moves both clocks by the same ticks. *)
LEMMA FailureBegin ==
  ASSUME FailureInv, Patience < TickMod, NEW p \in Plans, NEW k \in Gaps, BeginPass(p, k)
  PROVE  FailureInv'
<1>1. /\ relayPc = "top" /\ relayPc' = "watchdog" /\ now' = Later(now, k)
      /\ health' = health
      /\ failFor' = IF failFor = Unset THEN Unset ELSE UpTo(failFor + k)
  BY DEF BeginPass
<1>2. k \in Nat /\ k <= MaxGap /\ k < TickMod
  BY Limits DEF Gaps, Patience
<1>3. now' \in Tick
  BY <1>1, <1>2, LaterType DEF FailureInv
<1>4. health \in RadioHealth /\ health.failingSince \in Stamp /\ health.unhealthySince \in Stamp
  BY DEF FailureInv, RadioHealth
<1>5. /\ health.unhealthySince # Unset => Unhealthy <= RestartTicks
      /\ failFor > StaleWriteTicks =>
           /\ health.unhealthySince # Unset
           /\ failFor <= StaleWriteTicks + MaxGap + Unhealthy
  BY <1>1 DEF FailureInv, Looked
<1>6. Unhealthy \in Nat
  BY <1>4, SinceType, Limits DEF Unhealthy, FailureInv
<1>7. ASSUME health.unhealthySince # Unset
      PROVE  Unhealthy' = Unhealthy + k /\ Unhealthy' <= RestartTicks + MaxGap
  <2>1. health.unhealthySince \in Tick
    BY <1>4, <1>7 DEF Stamp
  <2>2. Unhealthy + k < TickMod /\ Unhealthy + k <= RestartTicks + MaxGap
    BY <1>2, <1>5, <1>6, <1>7, Limits DEF Patience
  <2>3. Since(health.unhealthySince, Later(now, k)) = Unhealthy + k
    BY <1>2, <2>1, <2>2, SinceLater DEF Unhealthy, FailureInv
  <2> QED BY <1>1, <2>2, <2>3 DEF Unhealthy
<1>8. CASE failFor = Unset
  <2>1. failFor' = Unset /\ failFor' <= Patience /\ ~(failFor' > StaleWriteTicks + MaxGap)
    BY <1>1, <1>8, Limits DEF Unset
  <2>2. health.failingSince = Unset
    BY <1>8 DEF FailureInv, StreakStamped
  <2> QED BY <1>1, <1>3, <1>4, <1>7, <2>1, <2>2
          DEF FailureInv, StreakStamped, Looking, Looked
<1>9. CASE failFor # Unset
  <2>1. failFor \in Nat /\ health.failingSince # Unset
        /\ failFor = Since(health.failingSince, now)
    BY <1>9 DEF FailureInv, StreakStamped
  <2>2. failFor + k <= Patience /\ failFor + k < TickMod
    BY <1>2, <1>5, <1>6, <2>1, Limits DEF Patience
  <2>3. failFor' = failFor + k
    BY <1>1, <1>9, <2>2 DEF UpTo
  <2>4. Since(health.failingSince, now') = failFor'
    <3>1. health.failingSince \in Tick
      BY <1>4, <2>1 DEF Stamp
    <3> QED BY <1>1, <1>2, <2>1, <2>2, <2>3, <3>1, SinceLater DEF FailureInv
  <2>5. failFor' > StaleWriteTicks + MaxGap =>
          /\ health.unhealthySince # Unset
          /\ failFor' <= StaleWriteTicks + MaxGap + Unhealthy'
    BY <1>2, <1>5, <1>6, <1>7, <2>1, <2>3, Limits
  <2>6. failFor' \in Nat /\ failFor' # Unset
    BY <1>2, <2>1, <2>3 DEF Unset
  <2> QED BY <1>1, <1>3, <1>4, <1>7, <2>1, <2>2, <2>3, <2>4, <2>5, <2>6
          DEF FailureInv, StreakStamped, Looking, Looked
<1> QED BY <1>8, <1>9

(* The watchdog starts the second clock for a stale streak, and goes on only *)
(* while that clock has not run out.                                        *)
LEMMA FailureWatchdog ==
  ASSUME FailureInv, Watchdog
  PROVE  FailureInv'
<1>1. /\ relayPc = "watchdog" /\ relayPc' \in {"write", "remove", "restart"}
      /\ health' = RadioAssess(health, configured, now)
      /\ now' = now /\ failFor' = failFor
  BY DEF Watchdog, taskVars, historyVars, RadioAction
<1>2. /\ health \in RadioHealth /\ now \in Tick
      /\ health.failingSince \in Stamp /\ health.unhealthySince \in Stamp
  BY DEF FailureInv, RadioHealth
<1>3. health' \in RadioHealth /\ health'.failingSince = health.failingSince
  BY <1>1, <1>2 DEF RadioAssess, RadioHealth, Stamp
<1>4. StreakStamped'
  BY <1>1, <1>3 DEF FailureInv, StreakStamped
<1>5. /\ health.unhealthySince # Unset => Unhealthy <= RestartTicks + MaxGap
      /\ failFor > StaleWriteTicks + MaxGap =>
           /\ health.unhealthySince # Unset
           /\ failFor <= StaleWriteTicks + MaxGap + Unhealthy
  BY <1>1 DEF FailureInv, Looking
<1>6. CASE relayPc' = "restart"
  BY <1>1, <1>3, <1>4, <1>6 DEF FailureInv, Looking, Looked
<1>7. CASE relayPc' # "restart"
  <2>1. RadioHealthy(health, configured, now) \/ Since(health'.unhealthySince, now) <= RestartTicks
    <3>1. RadioAction(health, configured, now) # "restart"
      BY <1>7 DEF Watchdog
    <3>2. Since(health'.unhealthySince, now) \in Nat
      BY <1>2, <1>3, SinceType, Limits DEF RadioHealth
    <3> QED BY <1>1, <3>1, <3>2, Limits DEF RadioAction
  <2>2. CASE RadioHealthy(health, configured, now)
    <3>1. health'.unhealthySince = Unset
      BY <1>1, <1>2, <2>2 DEF RadioAssess, RadioHealth
    <3>2. ~(failFor > StaleWriteTicks)
      BY <2>2, Limits DEF RadioHealthy, Overdue, FailureInv, StreakStamped, Unset
    <3> QED BY <1>1, <1>2, <1>3, <1>4, <3>1, <3>2 DEF FailureInv, Looking, Looked
  <2>3. CASE ~RadioHealthy(health, configured, now)
    <3>1. health'.unhealthySince = IF health.unhealthySince = Unset THEN now
                                   ELSE health.unhealthySince
      BY <1>1, <1>2, <2>3 DEF RadioAssess, RadioHealth
    <3>2. health'.unhealthySince # Unset
      BY <1>2, <3>1 DEF Tick, Unset
    <3>3. Unhealthy' = Since(health'.unhealthySince, now)
      BY <1>1 DEF Unhealthy
    <3>4. Unhealthy' \in Nat
      BY <1>2, <1>3, <3>3, SinceType, Limits DEF RadioHealth
    <3>5. failFor > StaleWriteTicks => failFor <= StaleWriteTicks + MaxGap + Unhealthy'
      <4>1. failFor > StaleWriteTicks + MaxGap => Unhealthy' = Unhealthy
        BY <1>5, <3>1, <3>3 DEF Unhealthy
      <4>2. failFor \in Int
        BY DEF FailureInv, Unset
      <4>3. CASE failFor > StaleWriteTicks + MaxGap
        BY <1>5, <4>1, <4>3
      <4>4. CASE ~(failFor > StaleWriteTicks + MaxGap)
        <5>1. \A x \in Int, u \in Nat :
                x > StaleWriteTicks + MaxGap \/ x <= StaleWriteTicks + MaxGap + u
          BY Limits
        <5> QED BY <3>4, <4>2, <4>4, <5>1
      <4> QED BY <4>3, <4>4
    <3>6. Since(health'.unhealthySince, now) <= RestartTicks
      BY <2>1, <2>3
    <3>7. Unhealthy' <= RestartTicks
      BY <3>3, <3>6
    <3>8. Looking' /\ Looked'
      BY <1>1, <3>2, <3>5, <3>7 DEF Looking, Looked
    <3> QED BY <1>1, <1>2, <1>3, <1>4, <3>8 DEF FailureInv
  <2> QED BY <2>2, <2>3
<1> QED BY <1>6, <1>7

(* A reconfigure only notes its tick. *)
LEMMA FailureNoted ==
  ASSUME FailureInv, health' = RadioNoteReconfigure(health, now),
         UNCHANGED <<now, failFor>>,
         relayPc \notin {"watchdog", "restart"}, relayPc' = "write"
  PROVE  FailureInv'
<1>1. /\ health' \in RadioHealth
      /\ health'.failingSince = health.failingSince
      /\ health'.unhealthySince = health.unhealthySince
  BY DEF FailureInv, RadioNoteReconfigure, RadioHealth, Stamp
<1>2. Unhealthy' = Unhealthy
  BY <1>1 DEF Unhealthy
<1> QED BY <1>1, <1>2 DEF FailureInv, StreakStamped, Looking, Looked

LEMMA FailureWrite ==
  ASSUME FailureInv, NEW c \in Payloads, Write(c)
  PROVE  FailureInv'
<1>1. /\ relayPc = "write" /\ relayPc' = "write" /\ now' = now /\ failFor' = Unset
      /\ health' = [health EXCEPT !.failingSince = Unset]
  BY DEF Write, RadioNoteWrite
<1>2. /\ health' \in RadioHealth /\ health'.failingSince = Unset
      /\ health'.unhealthySince = health.unhealthySince
  BY <1>1 DEF FailureInv, RadioHealth, Stamp
<1>3. Unhealthy' = Unhealthy
  BY <1>1, <1>2 DEF Unhealthy
<1>4. failFor' <= Patience /\ ~(failFor' > StaleWriteTicks)
  BY <1>1, Limits DEF Unset
<1> QED BY <1>1, <1>2, <1>3, <1>4 DEF FailureInv, StreakStamped, Looking, Looked

LEMMA FailureWriteFails ==
  ASSUME FailureInv, NEW c \in Payloads, WriteFails(c)
  PROVE  FailureInv'
<1>1. /\ relayPc = "write" /\ relayPc' = "write" /\ now' = now
      /\ failFor' = (IF failFor = Unset THEN 0 ELSE failFor)
      /\ health' = RadioNoteWrite(health, FALSE, now)
  BY DEF WriteFails
<1>2. CASE failFor # Unset
  <2>1. health' = health /\ failFor' = failFor
    BY <1>1, <1>2 DEF FailureInv, StreakStamped, RadioNoteWrite
  <2> QED BY <1>1, <2>1, FailureStill
<1>3. CASE failFor = Unset
  <2>1. /\ health' \in RadioHealth /\ health'.failingSince = now
        /\ health'.unhealthySince = health.unhealthySince
    BY <1>1, <1>3 DEF FailureInv, StreakStamped, RadioNoteWrite, RadioHealth, Stamp
  <2>2. Unhealthy' = Unhealthy
    BY <1>1, <2>1 DEF Unhealthy
  <2>3. failFor' = 0 /\ 0 <= Patience /\ ~(0 > StaleWriteTicks) /\ 0 # Unset /\ now # Unset
    BY <1>1, <1>3, Limits DEF Unset, FailureInv, Tick
  <2>4. Since(now, now) = 0
    BY SinceSelf DEF FailureInv
  <2>5. StreakStamped'
    BY <1>1, <2>1, <2>3, <2>4 DEF StreakStamped
  <2>6. Looking' /\ Looked'
    <3>1. health.unhealthySince # Unset => Unhealthy <= RestartTicks
      BY <1>1 DEF FailureInv, Looked
    <3>2. ~(failFor' > StaleWriteTicks)
      BY <2>3
    <3> QED BY <1>1, <2>1, <2>2, <3>1, <3>2 DEF Looking, Looked
  <2>7. now' \in Tick /\ failFor' \in Nat \cup {Unset} /\ failFor' <= Patience
    BY <1>1, <2>3 DEF FailureInv
  <2> QED BY <2>1, <2>5, <2>6, <2>7 DEF FailureInv
<1> QED BY <1>2, <1>3

LEMMA FailureStep ==
  ASSUME Patience < TickMod
  PROVE  FailureInv /\ [Next]_packVars => FailureInv'
<1> SUFFICES ASSUME FailureInv, [Next]_packVars PROVE FailureInv'
  OBVIOUS
<1> USE DEF taskVars, historyVars, stackVars
<1>1. CASE HostLost \/ Host
  BY <1>1, FailureStill DEF HostLost, Host, OnReset, HostSync, SyncConfigure,
       SyncConfigureFails, SyncConfirm, Spawn
<1>2. ASSUME NEW p \in Plans, NEW k \in Gaps, BeginPass(p, k)
      PROVE  FailureInv'
  BY <1>2, FailureBegin
<1>3. CASE Watchdog
  BY <1>3, FailureWatchdog
<1>4. CASE Remove \/ RemoveFails \/ Configure \/ EndPass
  BY <1>4, FailureStill DEF Remove, RemoveFails, Configure, EndPass
<1>5. CASE ConfigureFails \/ Confirm
  BY <1>5, FailureNoted DEF ConfigureFails, Confirm
<1>6. ASSUME NEW c \in Payloads, Write(c) \/ WriteFails(c)
      PROVE  FailureInv'
  BY <1>6, FailureWrite, FailureWriteFails
<1>7. CASE Restart
  <2>1. health' = RadioFresh /\ now' = 0 /\ failFor' = Unset /\ relayPc' = "unborn"
    BY <1>7 DEF Restart
  <2>2. RadioFresh \in RadioHealth /\ 0 \in Tick
    BY Limits DEF RadioFresh, RadioHealth, Stamp, Tick
  <2>3. health'.failingSince = Unset /\ health'.unhealthySince = Unset
    BY <2>1 DEF RadioFresh
  <2>4. failFor' <= Patience /\ ~(failFor' > StaleWriteTicks)
    BY <2>1, Limits DEF Unset
  <2> QED BY <2>1, <2>2, <2>3, <2>4 DEF FailureInv, StreakStamped, Looking, Looked
<1>8. CASE UNCHANGED packVars
  BY <1>8, FailureStill DEF packVars
<1> QED BY <1>1, <1>2, <1>3, <1>4, <1>5, <1>6, <1>7, <1>8 DEF Next, Relay

LEMMA FailureAlways ==
  ASSUME Patience < TickMod
  PROVE  Spec => []FailureInv
BY FailureInit, FailureStep, PTL DEF Spec

(* No streak of failed writes outlasts Patience, whatever the host task     *)
(* does to the flag, whatever commands fail and wherever the ticks wrap:    *)
(* a write succeeds or the chip restarts.                                   *)
THEOREM FailuresEnd ==
  ASSUME Patience < TickMod
  PROVE  Spec => []FailureBounded
<1>1. FailureInv => FailureBounded
  BY DEF FailureInv, FailureBounded
<1> QED BY <1>1, FailureAlways, PTL

------------------------------------------------------------------------------
(* The air.                                                                 *)

(* The controller shows a drone that this pass does not broadcast. *)
Astray == onAir \in UasIds \ plan.packs

(* It does so only while writes fail, and for no longer than they have.     *)
StrayInv ==
  /\ stray \in Nat /\ stray <= Patience
  /\ todo \subseteq plan.packs \cup {"idle"}
  /\ relayPc \in {"top", "unborn"} => todo = {}
  /\ relayPc = "unborn" => onAir = "off"
  /\ Astray /\ todo = {} => failFor # Unset
  /\ Astray /\ stray > 0 => failFor # Unset /\ stray <= failFor

LEMMA StrayInit == Init => StrayInv
<1> SUFFICES ASSUME Init PROVE StrayInv
  OBVIOUS
<1>1. ~Astray
  BY PackAssumption DEF Init, Astray
<1> QED BY <1>1, Limits DEF Init, StrayInv, IdlePlan

(* Steps of the relay or the host task that write no payload. *)
LEMMA StrayStill ==
  ASSUME StrayInv, UNCHANGED <<plan, todo, failFor, stray>>,
         onAir' \in {onAir, "off"},
         relayPc' \in {"top", "unborn"} => todo = {},
         relayPc' = "unborn" => relayPc = "unborn"
  PROVE  StrayInv'
<1>1. Astray' => Astray
  BY PackAssumption DEF Astray
<1> QED BY <1>1 DEF StrayInv

LEMMA StrayBegin ==
  ASSUME StrayInv, FailureInv, FailureInv', NEW p \in Plans, p.live => p.packs # {},
         NEW k \in Gaps, BeginPass(p, k)
  PROVE  StrayInv'
<1>1. /\ relayPc = "top" /\ relayPc' = "watchdog" /\ plan' = p /\ onAir' = onAir
      /\ todo' = (IF p.live THEN p.packs ELSE {"idle"})
      /\ failFor' = (IF failFor = Unset THEN Unset ELSE UpTo(failFor + k))
      /\ stray' = (IF Astray THEN UpTo(stray + k) ELSE 0)
  BY DEF BeginPass, Astray
<1>2. k \in Nat \ {0}
  BY PackAssumption DEF Gaps
<1>3. todo' # {} /\ todo' \subseteq plan'.packs \cup {"idle"}
  BY <1>1
<1>4. CASE ~Astray
  BY <1>1, <1>3, <1>4, Limits DEF StrayInv
<1>5. CASE Astray
  <2>1. failFor \in Nat /\ stray <= failFor /\ stray \in Nat
    BY <1>1, <1>5 DEF StrayInv, FailureInv, Unset
  <2>2. failFor' = UpTo(failFor + k) /\ failFor' <= Patience
    BY <1>1, <2>1 DEF FailureInv, Unset
  <2>3. failFor' = failFor + k
    BY <1>2, <2>1, <2>2, Limits DEF UpTo
  <2>4. stray' = stray + k
    BY <1>1, <1>2, <1>5, <2>1, <2>2, <2>3, Limits DEF UpTo
  <2>5. stray' <= failFor' /\ stray' <= Patience /\ stray' \in Nat /\ failFor' # Unset
    BY <1>2, <2>1, <2>2, <2>3, <2>4, Limits DEF Unset
  <2> QED BY <1>1, <1>3, <2>5 DEF StrayInv
<1> QED BY <1>4, <1>5

LEMMA StrayWrite ==
  ASSUME StrayInv, NEW c \in Payloads, Write(c)
  PROVE  StrayInv'
<1>1. /\ relayPc' = "write" /\ plan' = plan /\ stray' = stray /\ todo' \subseteq todo
      /\ onAir' \in {c, "off"} /\ c \in todo
  BY DEF Write
<1>2. ~Astray'
  BY <1>1, PackAssumption DEF StrayInv, Astray
<1> QED BY <1>1, <1>2 DEF StrayInv

LEMMA StrayWriteFails ==
  ASSUME StrayInv, FailureInv, NEW c \in Payloads, WriteFails(c)
  PROVE  StrayInv'
<1>1. /\ relayPc' = "write" /\ plan' = plan /\ stray' = stray /\ todo' \subseteq todo
      /\ onAir' = onAir /\ failFor' = (IF failFor = Unset THEN 0 ELSE failFor)
  BY DEF WriteFails
<1>2. failFor' # Unset /\ Astray' = Astray
  BY <1>1 DEF Unset, Astray
<1> QED BY <1>1, <1>2 DEF StrayInv

LEMMA StrayStep ==
  ASSUME \A p \in Plans : p.live => p.packs # {}
  PROVE  StrayInv /\ FailureInv /\ FailureInv' /\ [Next]_packVars => StrayInv'
<1> SUFFICES ASSUME StrayInv, FailureInv, FailureInv', [Next]_packVars
             PROVE  StrayInv'
  OBVIOUS
<1> USE DEF taskVars, historyVars, stackVars
<1>1. CASE HostLost \/ OnReset \/ HostSync \/ SyncConfigure
  BY <1>1, StrayStill DEF HostLost, OnReset, HostSync, SyncConfigure, StrayInv
<1>2. CASE SyncConfigureFails \/ SyncConfirm
  <2>1. relayPc' \in {relayPc, "top"} /\ (relayPc' # relayPc => relayPc = "unborn")
    BY <1>2 DEF SyncConfigureFails, SyncConfirm, Spawn
  <2> QED BY <1>2, <2>1, StrayStill DEF SyncConfigureFails, SyncConfirm, StrayInv
<1>3. ASSUME NEW p \in Plans, NEW k \in Gaps, BeginPass(p, k)
      PROVE  StrayInv'
  BY <1>3, StrayBegin
<1>4. CASE Watchdog
  <2>1. relayPc' \in {"write", "remove", "restart"}
    BY <1>4 DEF Watchdog, RadioAction
  <2> QED BY <1>4, <2>1, StrayStill DEF Watchdog
<1>5. CASE Remove \/ RemoveFails \/ Configure \/ ConfigureFails \/ Confirm
  BY <1>5, StrayStill DEF Remove, RemoveFails, Configure, ConfigureFails, Confirm
<1>6. ASSUME NEW c \in Payloads, Write(c) \/ WriteFails(c)
      PROVE  StrayInv'
  BY <1>6, StrayWrite, StrayWriteFails
<1>7. CASE EndPass
  BY <1>7, StrayStill DEF EndPass
<1>8. CASE Restart
  <2>1. /\ onAir' = "off" /\ plan' = IdlePlan /\ todo' = {} /\ stray' = 0
        /\ relayPc' = "unborn"
    BY <1>8 DEF Restart
  <2>2. ~Astray'
    BY <2>1, PackAssumption DEF Astray
  <2> QED BY <2>1, <2>2, Limits DEF StrayInv
<1>9. CASE UNCHANGED packVars
  BY <1>9, StrayStill DEF packVars, StrayInv
<1> QED BY <1>1, <1>2, <1>3, <1>4, <1>5, <1>6, <1>7, <1>8, <1>9 DEF Next, Host, Relay

(* The air never shows a drone the table has let go for longer than         *)
(* Patience, as long as every pass with a live slot has a Pack to write.    *)
THEOREM StraysEnd ==
  ASSUME Patience < TickMod, \A p \in Plans : p.live => p.packs # {}
  PROVE  Spec => []StrayBounded
<1>1. StrayInv /\ FailureInv /\ FailureInv' /\ [Next]_packVars => StrayInv'
  BY StrayStep
<1>2. Spec => []StrayInv
  BY <1>1, StrayInit, FailureAlways, PTL DEF Spec
<1>3. StrayInv => StrayBounded
  BY DEF StrayInv, StrayBounded
<1> QED BY <1>2, <1>3, PTL
==============================================================================
