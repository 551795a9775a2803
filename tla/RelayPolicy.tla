----------------------------- MODULE RelayPolicy -----------------------------
(***************************************************************************)
(* The pure logic of WSW-Firmware/main/relay_policy.c: when a drone slot   *)
(* is evicted, which frames the reject list refuses, and when the Pack     *)
(* watchdog reconfigures the advertiser or restarts the chip.              *)
(*                                                                         *)
(* Ticks are the 32-bit counters of FreeRTOS, so they live in              *)
(* 0..TickMod-1 and wrap.  A C flag `has_x' with its tick `x' is one       *)
(* field here, which is Unset while the flag is false: the code never      *)
(* reads a tick whose flag is false.                                       *)
(***************************************************************************)
EXTENDS Integers

CONSTANTS
  TickMod,          \* number of tick values, 2^32 on the target
  UasIds,           \* non-empty UAS ids
  Blank,            \* the empty UAS id
  LandTicks,        \* grace after touching down
  SilentTicks,      \* no airborne location, or no frame at all
  FrozenTicks,      \* the same ODID timestamp still arriving
  TsMax,            \* last valid ODID location timestamp, 36000
  RejectSlots,      \* capacity of the reject list, 8
  RejectTtl,        \* life of a reject entry
  StaleWriteTicks,  \* Pack writes failing this long are stuck
  RestartTicks,     \* unhealthy this long restarts the chip
  RetryTicks        \* spacing of reconfigure attempts

ASSUME TickAssumption ==
  /\ TickMod \in Nat \ {0}
  /\ LandTicks \in Nat /\ SilentTicks \in Nat /\ FrozenTicks \in Nat

ASSUME RejectAssumption ==
  /\ Blank \notin UasIds
  /\ TsMax \in Nat /\ RejectSlots \in Nat \ {0} /\ RejectTtl \in Nat

ASSUME RadioAssumption ==
  StaleWriteTicks \in Nat /\ RestartTicks \in Nat /\ RetryTicks \in Nat

Tick  == 0 .. (TickMod - 1)
Unset == -1
Stamp == Tick \cup {Unset}       \* a tick with its `has' flag

(* Mutant: a signed comparison that takes a wrapped stamp for a recent one. *)
SinceSaturating(then, now) == IF then <= now THEN now - then ELSE 0

(* Unsigned subtraction: the ticks elapsed from then to now. *)
Since(then, now) == IF then <= now THEN now - then ELSE now - then + TickMod

(* The tick k ticks after t. *)
Later(t, k) == IF t + k < TickMod THEN t + k ELSE t + k - TickMod

(* True when the stamp is set and more than limit ticks lie behind it. *)
Overdue(stamp, now, limit) == stamp # Unset /\ Since(stamp, now) > limit

------------------------------------------------------------------------------
(* Slot timing: rp_slot_timing_t.  ts is the last valid ODID timestamp,    *)
(* tsChanged when it last changed, tsSeen the latest frame carrying it.    *)

OdidTs == 0 .. TsMax

Timing == [lastAny : Stamp, lastAir : Stamp, firstGnd : Stamp,
           ts : OdidTs \cup {Unset}, tsChanged : Stamp, tsSeen : Stamp]

NoTiming == [lastAny |-> Unset, lastAir |-> Unset, firstGnd |-> Unset,
             ts |-> Unset, tsChanged |-> Unset, tsSeen |-> Unset]

NoteFrame(t, now) == [t EXCEPT !.lastAny = now]

NoteAirborneState(t, airborne, everAirborne, now) ==
  IF airborne
  THEN [t EXCEPT !.lastAir = now, !.firstGnd = Unset]
  ELSE IF everAirborne /\ t.firstGnd = Unset
       THEN [t EXCEPT !.firstGnd = now]
       ELSE t

NoteLocationTs(t, ts, now) ==
  IF ts \notin OdidTs
  THEN [t EXCEPT !.ts = Unset, !.tsChanged = Unset, !.tsSeen = Unset]
  ELSE [t EXCEPT !.ts = ts,
                 !.tsChanged = IF t.ts = ts THEN @ ELSE now,
                 !.tsSeen = now]

Frozen(t) == t.ts # Unset /\ Since(t.tsChanged, t.tsSeen) > FrozenTicks

CheckEvict(t, now) ==
  IF Overdue(t.firstGnd, now, LandTicks) THEN "landed"
  ELSE IF Overdue(t.lastAir, now, SilentTicks) THEN "silent"
  ELSE IF Overdue(t.lastAny, now, SilentTicks) THEN "no_frames"
  ELSE IF Frozen(t) THEN "frozen"
  ELSE "keep"

------------------------------------------------------------------------------
(* Reject list: rp_reject_list_t.  at is Unset while the entry is unused.  *)

RejectIndex == 1 .. RejectSlots

RejectEntry == [id : UasIds \cup {Blank}, ts : OdidTs \cup {Unset}, at : Stamp]
RejectList  == [RejectIndex -> RejectEntry]

NoEntry == [id |-> Blank, ts |-> Unset, at |-> Unset]
NoRejects == [i \in RejectIndex |-> NoEntry]

Listable(id, ts) == id # Blank /\ ts \in OdidTs

(* Mutant: entries do not expire. *)
EntryLiveForever(e, now) == e.at # Unset

(* Mutant: an entry expires a tick early. *)
EntryLiveShort(e, now) == e.at # Unset /\ Since(e.at, now) < RejectTtl

EntryLive(e, now) == e.at # Unset /\ Since(e.at, now) <= RejectTtl

EntryMatches(e, id, ts) == e.at # Unset /\ e.id = id /\ e.ts = ts

RejectContains(l, id, ts, now) ==
  /\ Listable(id, ts)
  /\ \E i \in RejectIndex : EntryLive(l[i], now) /\ EntryMatches(l[i], id, ts)

First(S) == CHOOSE i \in S : \A j \in S : i <= j

(* First entry none is older than: the loop replaces on strictly older. *)
OldestEntry(l, now) ==
  First({i \in RejectIndex :
           \A j \in RejectIndex : Since(l[j].at, now) <= Since(l[i].at, now)})

(* Mutant: a second entry for a pair that has one already. *)
RejectTargetNoRefresh(l, id, ts, now) ==
  LET dead == {i \in RejectIndex : ~EntryLive(l[i], now)}
  IN  IF dead # {} THEN First(dead) ELSE OldestEntry(l, now)

(* Mutant: a full list always gives up its first entry. *)
RejectTargetFirst(l, id, ts, now) ==
  LET same == {i \in RejectIndex : EntryMatches(l[i], id, ts)}
      dead == {i \in RejectIndex : ~EntryLive(l[i], now)}
  IN  IF same # {} THEN First(same)
      ELSE IF dead # {} THEN First(dead)
      ELSE First(RejectIndex)

(* The entry rp_reject_add writes: refresh, else a dead one, else oldest. *)
RejectTarget(l, id, ts, now) ==
  LET same == {i \in RejectIndex : EntryMatches(l[i], id, ts)}
      dead == {i \in RejectIndex : ~EntryLive(l[i], now)}
  IN  IF same # {} THEN First(same)
      ELSE IF dead # {} THEN First(dead)
      ELSE OldestEntry(l, now)

RejectAdd(l, id, ts, now) ==
  IF Listable(id, ts)
  THEN [l EXCEPT ![RejectTarget(l, id, ts, now)] =
          [id |-> id, ts |-> ts, at |-> now]]
  ELSE l

------------------------------------------------------------------------------
(* Pack advertiser health: rp_radio_health_t. *)

RadioHealth == [failingSince : Stamp, unhealthySince : Stamp, reconfigAt : Stamp]

RadioFresh == [failingSince |-> Unset, unhealthySince |-> Unset,
               reconfigAt |-> Unset]

(* Mutant: every failed write restarts the clock of the streak. *)
RadioNoteWriteLatest(h, ok, now) ==
  [h EXCEPT !.failingSince = IF ok THEN Unset ELSE now]

RadioNoteWrite(h, ok, now) ==
  IF ok THEN [h EXCEPT !.failingSince = Unset]
  ELSE IF h.failingSince = Unset THEN [h EXCEPT !.failingSince = now]
  ELSE h

(* Mutant: the configured flag is believed whatever the writes say. *)
RadioHealthyByFlag(h, configured, now) == configured

RadioHealthy(h, configured, now) ==
  configured /\ ~Overdue(h.failingSince, now, StaleWriteTicks)

(* rp_radio_check both updates the health record and returns an action. *)
RadioAssess(h, configured, now) ==
  IF RadioHealthy(h, configured, now) THEN [h EXCEPT !.unhealthySince = Unset]
  ELSE IF h.unhealthySince = Unset THEN [h EXCEPT !.unhealthySince = now]
  ELSE h

RadioAction(h, configured, now) ==
  LET since == RadioAssess(h, configured, now).unhealthySince
  IN  IF RadioHealthy(h, configured, now) THEN "ok"
      ELSE IF Since(since, now) > RestartTicks THEN "restart"
      ELSE IF h.reconfigAt # Unset /\ Since(h.reconfigAt, now) < RetryTicks
           THEN "ok"
      ELSE "reconfigure"

(* Mutant: an attempt to reconfigure counts as recovery. *)
RadioNoteReconfigureResets(h, now) ==
  [h EXCEPT !.reconfigAt = now, !.unhealthySince = Unset]

RadioNoteReconfigure(h, now) == [h EXCEPT !.reconfigAt = now]
==============================================================================
