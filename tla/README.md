# A verification project for the Westshore Watch X1 firmware

The firmware (`src/WSW-Firmware`, ESP32-C5, FreeRTOS) listens for Open Drone ID
frames on Wi-Fi and rebroadcasts them over Bluetooth LE, so that a phone near
the node sees drones the node hears. This directory holds TLA+ models of its
control logic, TLC configurations that check them on small instances, and
TLAPS proofs of what matters most.

All paths below are relative to `src/WSW-Firmware/main/` unless they say
otherwise. `src/XIAO-C5-Firmware` is an older variant of the same program; its
portal, DNS server, updates, configuration and decoder are the same files byte
for byte.

## 1. Inventory

| Part | State | Operations | Modelled in |
|---|---|---|---|
| Relay policy (`relay_policy.c`) | none of its own: pure functions on slot timings, the reject list, the radio health record | note a frame / airborne state / timestamp, eviction verdict, add to and look up the reject list, note a write or a reconfigure, watchdog verdict | `RelayPolicy`, `RejectList` |
| Slot table (`ble_relay.c`, first half of `relay_task`) | `s_slots`, `s_reject` | attribute a frame to a slot, displace the stalest, merge, keep an operator position, evict | `RelaySlots`, `RelayHistory`; operator positions in `XiaoSlots` |
| Pack advertiser, handle 1 (`ble_relay.c`, second half of `relay_task`, `on_sync`, `on_reset`) | `s_pack_adv_configured`, `s_pack_health`; the instance in the host stack; what the controller radiates | configure, write a payload, watchdog, remove and reconfigure, restart, host reset and resync | `PackRadio`, `BleRelay`, `RelayPromise` |
| Boot and relay start-up (`app_main`, `ble_relay_init`, `ble_relay_start`, `spawn_relay_task_if_ready`) | `s_inited`, `s_running`, `s_task_created`, the validate timer | create the queues, start scanner and portal, initialise and start the relay, arm the timer; first sync, later resyncs | `AppMain`, `RelayStart` |
| Queues (`main.c` distributor, relay queue) and the time a pass takes | three queues of 32 detections | fan out without waiting; one frame per pass | `RelayLoad` (the relay queue) |
| Wi-Fi scanner and portal AP (`wifi_scanner.c`) | `s_running`, `s_paused`, `s_ap_sta_count`, the radio's channel and promiscuous mode | start, hop, pause on first client, resume on last; find the payload in a frame | `WifiScanner`, `AppMain`, `OdidParser` |
| Legacy, detection and identity advertisers (handles 0, 2, 3; `ble_relay.c`, `output.c`) | `s_relay_adv_configured`, `s_det_adv_configured`, the cycle counter, the XIAO's idle timer | burst of a slot, idle beacon, identity, advertise a detection, blank it | `Adverts` |
| ODID decoder (`odid_decoder.c`) | none | take a Pack apart, dispatch on the type, decode fields | `OdidParser`, `OdidCodec` |
| ODID encoder (`ble_relay.c:120-312`) | none | encode a Location, a System | `OdidCodec` |
| JSON output (`output.c`) | two buffers | escape, format a line and a compact text, drain the queue | `JsonOutput`, `Adverts` |
| Configuration store and portal (`nvs_config.c`, `config_server.c`) | `g_config`, NVS keys, the page a browser holds | load, save, factory reset, reboot, render | `ConfigStore` |
| OTA (`ota_handler.c`, `main.c` validate timer) | parser state, partitions, otadata | receive, parse, write, check, set boot, restart, commit after 60 s, roll back | `OtaUpdate` |
| Captive DNS (`dns_server.c`) | none | answer the first question of a datagram | `CaptiveDns` |
| Status LED (`led.c`) | pattern and a detecting flag | set by several tasks | the flag in `Adverts` |
| BLE scanner (`ble_scanner.c`) | - | compiled, never started by `app_main` | no |
| XIAO-C5 slot table and advertisers | slots with tick 0 as "never", no reject list, no watchdog | as above | `XiaoSlots`, `Adverts` |

How they interact: the promiscuous callback of the Wi-Fi driver decodes a frame
and puts it on the raw queue; `distributor_task` copies it to the output and the
relay queue, dropping it where the queue is full; `relay_task` takes one frame
per pass of its loop, attributes it to a slot, evicts, runs the Pack watchdog
and writes one burst per live slot. The NimBLE host task calls `on_reset` and
`on_sync` whenever the stack loses or regains its controller, and shares flags
with `relay_task` and `app_main` without a lock. The event task pauses and
resumes the channel hopper as phones join and leave the config portal, which
shares the one radio with the scanner.

What is hard here: ticks wrap; two tasks and a controller disagree about
whether an advertising instance exists; any stack command may fail; handlers
run long after the event they are about; a slot table that is full, and frames
that do not say whose they are; forms that arrive in pieces; power that goes
between two writes to flash; lengths and counts inside a frame that are the
sender's word. `PROJECT.json` lists each hazard at its line.

What makes each part correct, in a sentence: a slot is one drone's and holds
only that drone's data, a silent drone leaves it in time whatever the tick
counter does, a frozen (id, timestamp) does not come back while its entry lives;
the air does not show a drone that is gone, and a broken advertiser is recovered
or the chip restarted in bounded time; the relay task starts in relay mode and
only there, and the image is committed; the radio stays with the portal while it
is served and goes back to scanning after; a configuration that was saved is
found again, and a form or a save that fails does not cost the API key; what an
upload writes is the file, and wherever the power goes there is an image to
boot. A Pack says the same to the node and, sent again, to a phone; nothing
beyond a frame is read; a position on handle 0 stands behind the Basic ID it
belongs to; a text fits its buffer whatever a drone puts in it.

## 2. The modules

**RelayPolicy** is `relay_policy.c` as operators. Ticks live in `0..TickMod-1`
and `Since` is the unsigned subtraction of the C code, so wrapping is modelled,
not assumed away (`TickMod` is 2^32 on the target and 6 to 10 in the runs, so
that the counter wraps many times). A C pair "flag and tick" is one field that is
`Unset` while the flag is false; no code path reads the tick without the flag.
`rp_radio_check` updates and returns, hence two operators, `RadioAssess` and
`RadioAction`. Loops that stop at the first match become `First`.

**RejectList** makes the list a state machine: pairs are added in any order,
time passes, and `age` remembers when each was really added.

**RelaySlots** is the slot half of `relay_task`. `Receive` is a whole pass up to
the eviction loop: both reject checks, `resolve_slot` (`Owner` says which slot,
`Resolved` what is left in it), `merge_into_slot` and the airborne bookkeeping.
`EvictSlot` is one round of the eviction loop, `maybe_evict_slot`; the loop is
split there so that `BleRelay` can interleave the host task. A location is cut
down to what the code branches on (airborne or not, its timestamp) and the drone
it is about. A location that fails `LOC_VALID` is no location. The Self-ID is left
out, and so is the operator position with its fallback `sys_saved`, which no
branch of this half reads; the code of the latter is that of the XIAO, and
`XiaoSlots` has it.

**RelayHistory** runs the same actions next to history variables: two that do not
wrap, `quiet`, how long each slot has really been without a frame, and `banned`,
how long ago each pair was really evicted as frozen, and `turned`, whether the
tick counter has come round yet.

**XiaoSlots** is the slot table of the XIAO tree. A slot keeps plain ticks, 0
for never, and the stalest is the one with the least tick that is not above
`now`; a claim that finds none is written through a null pointer (`Panic`: the
node starts again, with an empty table and from tick 0). `Merge` is the chain of
`merge_into_slot`: fields, the check of the coordinates, the fallback to the
drone's own position, the saved position put in where none came. A System is
whose it is and where it comes from. The module shows by refinement that the
table is that of `RelaySlots`: `Translated` turns a tick 0 into an unset field,
with the reject list and the frozen rule switched off every step is one of
`Wsw!NextSlots`, over any number of turns of the counter, unless it is `Misled`.
That names the two cases where the older code really differs: a pass that works
with tick 0, the restart after a panic among them, and a displacement while some
slot has a tick from before the wrap. Claims of free slots, merges, evictions and
all later steps are not excused.

**PackRadio** is handle 1. Its steps are the calls into the host stack, because
each may block and let the host task in. The stack and the controller are
external and do what the code's comments rely on: a reset loses the instance but
the controller keeps radiating; only a successful write or remove changes what is
on the air; any command may fail at any time. A write counts as successful when
`set_data` succeeds, as in `advertise_pack`, even if the `start` after it fails
(then handle 1 is off). `Patience` = StaleWriteTicks + RestartTicks +
2 MaxGap is the longest a fault lasts.

**BleRelay** composes the two: the last round of the eviction loop begins a radio
pass with the plan the table yields, payloads go out in slot order, the host task
interferes in the radio half, and `esp_restart` forgets everything.
**RelayPromise** is the abstract specification a phone cares about: a drone is
put on the air only while it is heard, and is off the air a bounded time after it
falls silent. `BleRelay!KeepsPromise` is the refinement (air is `onAir`, silence
is `unheard`).

**Adverts** is handles 0, 2 and 3 of both trees; `board` says which runs. The
slot table is cut down to what a pass broadcasts, `BeginPass` chooses any of
`Tables`, so evictions and new drones happen between any two passes. `Burst` is
the order of `relay_task`'s writes for one slot, `Emit` and `EmitFails` are
`advertise_odid`, one message at a time, with the host task and the output task
in between. `ble_detection_advertise` is split where it can be overtaken: `Call`
looks at the flag, `DetSet` and `DetSetFails` replace the payload. On the XIAO,
`Quiet` and `OutIdle` blank handle 2, from two tasks. `named` remembers the last
Basic ID that was really on the air, `lost` that the single attempt a UART node
makes came to nothing.

**OdidParser** takes a frame's bytes: `Begin` and `Element` are `promiscuous_cb`
and `parse_beacon_ies`, `Payload`, `Message` and `PackDone` are
`odid_parse_pack`, `Single` is `odid_parse_message` of the whole payload. A
detection records, by message type, the offset the fields were taken from.
`seen` is how far into the frame the code has looked.

**OdidCodec** is what the fields go through: `Decode` is `parse_location` and
`parse_system`, `Encode` is `encode_location` and `encode_system`, in units in
which the code's float arithmetic is exact. Positions are left out, as they go
through a 32-bit float.

**JsonOutput** keeps of a text its length and of a character how it is escaped,
which is what fixed buffers care about. The widths of the numbers are those of
the ranges the decoder can produce.

**CaptiveDns** is one datagram through `dns_task`; `Skip` is one label of
`dns_skip_qname`. The reference, `NameEnd`, is the value at 0 of a recursive
function on offsets, `NameFrom`.

**Parts** puts `OdidParser`, `OdidCodec`, `JsonOutput`, `CaptiveDns`, `RejectList`
and `ConfigStore` next to each other, each behaviour following one. They share no
state; all but the last are code that one task runs to its end.

**RelayStart** has one action per statement of `spawn_relay_task_if_ready` that
reads or writes a shared flag, for its two callers. `ble_relay_stop` has no
caller and is left out.

**WifiScanner** has the statements of `wifi_scanner_start` that matter to the
event handler, the handler's cases, pause and resume, and the hop task. The
half-second wait of `wifi_scanner_pause` is longer than a dwell; it is modelled
by what it is there for, that the hop task has seen the flag (`Waited`).

**AppMain** is `app_main`: it extends `WifiScanner`, takes an instance of
`RelayStart`, and runs their start-up one after the other while the event task,
the hop task, the host task, the timer and phones already do as they like. It
halts where the code halts. `wifi_scanner_start` itself is taken to succeed, as
its calls abort the program when they fail; what becomes of an image that halts
or crashes is the subject of `OtaUpdate`.

**OtaUpdate** is the upload handler, otadata and the bootloader. The body of the
form is positions only: where the header ends, where the file ends, how long it
is. `acc` is then the interval from `base` to `got`, and a write appends an
interval to `image`; "the image is the file" is an equation on intervals. Every
round of the parser's loop is a step, every call may fail, and the chip may be
reset anywhere. The bootloader is external: it gives up a pending image at the
next boot, and `esp_ota_begin` refuses while the running image is pending. Files
come in four kinds: one that works, one that crashes before it is committed, one
that halts in `app_main`, and one that is no image.

**ConfigStore** has the writes of `wsd_config_save` as steps of their own, each
of which may fail, and a reboot anywhere. A boot reads the keys one by one:
`Load` takes the set of those it could not read, all of them where `nvs_open`
fails (`nvs_config.c:53-56`), and leaves each at its default, as
`wsd_config_load` does without telling anybody; `Misses` bounds these sets.
`unread` remembers them until the next save writes what memory has, and
`keyless` why memory has no API key while NVS may have one: a factory reset, or
a boot that could not read it. A form is received as its first `n` fields and
perhaps the beginning of the next, because the handler receives once. One field
of each kind is kept; a value that can be cut (`13`, a key, a serial number) has
its beginning as a value of its own. `shown` is the API key on a page that is
still open somewhere.

**RelayLoad** counts time: ticks are the 50 ms between two payloads. Slots
suffice and drones neither land nor freeze, so only the queue and the "no frames"
rule matter.

Operators whose comment begins with "Mutant" are wrong variants of the operator
below them; `PROJECT.json` names the property each of them breaks.

## 3. The runs

All bounds are constants. Two or three drones, two slots and a counter of 6 to 10
values let every rule of the table meet every other: a full table, a
displacement, a wrap within each silent window, an expired and a replaced reject
entry.

| Run | Question and answer | Bounds and why they are enough |
|---|---|---|
| `history` | Do keys stay unique, and does a slot hold only its own drone's id and position; is silence measured right across the wrap; is the displaced slot the stalest; is a rejected pair never re-armed, and does it stay out for the life of its entry? Yes, the last within one turn of the counter and as long as no more pairs are frozen than the list holds. | 3 drones, 2 slots, 4 addresses, TickMod 8, SilentTicks 1, 1 reject entry that lives 3 ticks. The first drone flies, lands, loses its time and changes its address, two freeze, the third is only a name: displacement, eviction and a stale address all occur. Assumes drones do not share addresses and a Basic ID names its drone. |
| `history_turn` | Does a pair evicted as frozen stay out (`ble_relay.c:33-34`) whatever the counter does (`relay_policy.h:7-8`)? No: an entry that expired a turn ago counts as live again and makes the list look full. | As `history`, with 2 reject entries and frames that freeze: three drones fly with one timestamp. |
| `parts` | Is a complete Pack reported as what it says; does the parser stay in the frame; does a relayed message say what the received one said; do texts fit; are DNS queries answered as asked; does the reject list refuse what it should; is a complete save found again, what can an interrupted one leave, can the key get lost, when reads and writes may fail? Yes: all but the two largest raw speeds, which come out a step lower, and the list within one turn of the counter. A complete save is found again, but for keys the boot cannot read, which NVS keeps; an interrupted one leaves a mixture of old and new, and of defaults for those; the key stays, unless a boot could not read it and a save follows. | Messages of 3 bytes instead of 25, Packs of up to three of them with right and wrong sizes and counts, nothing, a counter or a counter that looks like a Pack in front, in both vendor elements and in action frames, every frame cut after each of its bytes; lengths modulo 32. 420 messages at the ends and the corners of each field. Texts of both ends and around the buffers' margins, with each kind of character. DNS names with labels, pointers and illegal lengths, cut everywhere. 4 pairs for 2 reject entries, every starting tick. One API key, one serial number, a blacklist of two, every way to cut a form, any write may fail; a boot reads every key, none, all but the API key, or all but the count of the blacklist. The parts end, so deadlock is not checked. |
| `xiao` | Does an operator position ever cross over to another drone? Does the older slot table do what the newer does? No, and yes but for a pass at tick 0 and a displacement while a slot has a tick from before the wrap. | 3 drones, 2 slots, 3 addresses, one of them used by two drones in turn; valid, invalid and missing operator positions; a silent time of 2 and a landing time of 1, so that slots are claimed, displaced, evicted and claimed again; a counter of 8 that turns without end, so that claims in a full table find the stalest slot, the wrong one and none at all. |
| `adverts` | Is a message on handle 0 its Basic ID's; does an idle node show its beacon and a steady LED; does the XIAO take a detection off the air? Yes, under the conditions the properties name. | No drone, one, or two drones in turn; with and without position and operator; a Self-ID every second pass; a queue of 1; both trees, both modes; resets, resyncs and failures anywhere. |
| `pack` | Does a streak of failed writes, or a stray Pack, ever outlast the watchdog's patience; does the instance come back once the host is stable? No; yes. | 2 drones; resets, resyncs and failures at every step; writes stale after 1 tick, restart after 2, retry every 2; counter of 6. Every live slot has a position. |
| `ble` | Does the whole relay implement `RelayPromise`? Yes. | 2 drones, 2 slots, all limits 1 tick, counter of 6; every frame has a position. |
| `ble_stray` | Is handle 1 overwritten after an eviction (`ble_relay.c:393-395`)? Not while another live slot has no position. | As `ble`, with one drone that only sends its Basic ID. |
| `boot` | Does a node in relay mode get its task whichever of start and sync comes first, and a UART node none; is the image committed; is the radio pinned while a settled client is served, and does scanning resume? Yes, the last two if no client came during start-up. | Channels 0..3 configured (clamped), AP on 2, 2 stations, 2 queued events. Without a hop task, stations and a host the node rests, so deadlock is not checked. |
| `boot_early` | Is the radio pinned for a client that came during start-up (`wifi_scanner.c:231-233`)? No. | The same. |
| `load` | How old can a queued frame be; does a transmitting drone keep its slot? At most one longest pass per place of the queue; yes when the silent time covers the queue's delay. | 2 drones, a queue of 3 that overflows; SilentTicks 20 is the least value for which it holds. |
| `ota` | Is what an upload writes the file, does `acc` hold, is there always an image to boot, does the node come back to one that works? Yes. | Boundary of 1, pieces of up to 5 bytes, margin of 1, files of 0 to 9 bytes, `acc` of 10: every cut of every boundary, several flushes, and the least `acc` the assumption allows. |

### Fairness

`relay_task` waits with bounded timeouts only, so the radio's
steps are weakly fair; so are `output_task`, the host task (NimBLE retries its
sync for ever), `app_main`, the event task and the hop task, which FreeRTOS
schedules whenever they are ready. Nothing is assumed of drones, phones, host
resets or failures. `RadioRecovers` states its assumption itself: from some
point on no reset and no failing command. So do `IdleShown` and `DetectionGone`
of `Adverts`: `Calm` says that from some time on no command fails that could
work and no host resets, `Silence` that no more frames come. In `OtaUpdate` the
handler goes on (its receive has a time-out), a chip that is down boots, and an
image that crashes does so in the end; nothing is assumed of uploads, power or
the validate timer. `AppMain`, `PackRadio`, `Adverts` and `OtaUpdate` state
fairness; the other modules, `BleRelay` among them, are checked for safety only.

## 4. What is proved

`RelayPolicy_proofs` has the lemmas on operators (ticks add up across the wrap
below one full turn; `First` is the least; timings, list and health keep their
types; the reject list, see below). `RelaySlots_proofs` has the theorems about the
table, for any number of slots, drones, addresses, frames and ticks, from the named
assumptions `TickAssumption`, `RejectAssumption` and `SlotsAssumption`:

- `SlotsTyped`: `SlotsTypeOK` is inductive as it stands. The only step that is
  not routine is that `StalestSlot` picks a slot: it is the last one of greatest
  age, so the proof takes a maximum and then a maximum of indices, both from the
  least element of a set of naturals.
- `KeysUnique`: `SlotKeysUnique`, inductive together with the type invariant. A
  claim writes the frame's id into a slot only if no used slot has that id; a
  merge leaves the key alone; an eviction frees it.
- `RejectedNotRearmed`: the action property `NoRearm`, under the assumption that
  a frame with a Basic ID names its drone. A pair can enter a slot only through
  the timestamp of an accepted frame, which one of the two reject checks has
  looked up.
- `FrozenKeptOut`: `FrozenStaysOut`, for frames whose Basic ID, if present, is not
  blank. It joins the invariant of the reject list (`ListInv`, stated for any list
  and any record of ages, here for `rejects` and `banned`) with the table: a pair
  that is refused is carried by no slot. Within one turn and with no more young
  pairs than entries, every young pair has an entry that counts as live, so
  neither reject check lets it in.
- `PositionsOwn` and `BasicIdsOwn`: `OwnPosition` and `OwnBasicId`, for any
  assignment of addresses to drones (`home`) that the frames agree with: no two
  drones send from one address, and a frame's Basic ID and position are its
  sender's. The two are inductive only together with the address: a frame without
  a Basic ID is attributed by it, so `OwnData` says that a slot's address, id,
  Basic ID and position belong to one drone. The claim of a slot is the step that
  matters: it must leave nothing of the drone before.
- `SilenceMeasured` and `DisplacesStalest`: `QuietBounded` and
  `StalestDisplaced`, if `SilentTicks + MaxGap < TickMod` (seconds against 49
  days). The code compares wrapping stamps, `quiet` counts elapsed ticks.
  `QuietInv` says that they agree, and that every slot the eviction loop has
  passed has been silent for at most the limit. The circle closes because no age
  reaches a full turn: a slot is looked at in every pass, and none gains more than
  `MaxGap` in one.

`PackRadio_proofs` has two theorems about the watchdog of handle 1, for any
limits with `Patience < TickMod`, any plans and any interleaving with the host
task:

- `FailuresEnd`: `FailureBounded`. Three clocks run beside each other, so the
  invariant relates them: a streak of failures is as old as its stamp says
  (`StreakStamped`), before the watchdog looks both clocks may be a pass beyond
  their limits (`Looking`), after it has looked a stale streak has started the
  second one, and that has not run out (`Looked`).
- `StraysEnd`: `StrayBounded`, if every plan with a live slot has a Pack to write
  (the run `ble_stray` shows that it fails otherwise). A wrong air after a pass
  means that its writes have failed, so it is no older than the streak.

`OtaUpdate_proofs` has four theorems about firmware updates, for any sizes of
the boundary, the margin, the pieces and `acc`, and any forms, that
`OtaAssumption` allows:

- `OtaTyped`, `UploadWritesFile` and `AccNeverOverflows` follow from `UploadInv`,
  the invariant of the parser's loop. `FileWritten` alone is not inductive: it
  speaks of a body that has arrived. `Parsed` says for each parser state where
  `base` may stand, how much may be kept, and that `image` is the file up to
  `base`; `UsedUp` says what a parser that asks for the next piece has not seen
  yet. The step that needs thought is `Flush`: what is kept is longer than an end
  boundary, and an end boundary was not in it, so `got - Keep` is at most
  `form.end`.
- `AlwaysBootable` needs `BootInv` beside it: the partition otadata names is
  complete, so is the other one while an image is on trial, and an upload only
  runs on the image otadata names, once that one is not on trial. Hence the
  partition `Begin` spoils is one no boot would go to.

The last three theorems of `RelaySlots_proofs` are about the relay task as a whole,
`BleRelay`. `OnlyFreshShown` holds for any numbers of slots, drones and addresses and
any frames, if no drone is called `off` or `idle` and `SilentTicks + MaxGap` is
shorter than a turn of the counter: a Pack that comes on the air is of a drone heard
within `SilentTicks`, whatever the table evicts or displaces and the host task does
meanwhile. No run states it by that name, `Show` of `RelayPromise` has the same bound.
It follows from `TableInv`, which connects the halves:

- `PassInv`: the clock of the radio lags that of the table only while the eviction
  loop runs, by `Pending`, and then the radio waits at the top of its pass.
- `Heard`: what `unheard` says of the drone of a slot is what the slot's stamp says,
  and the slots the loop has passed were heard within `SilentTicks`.
- `PlanHeard`: the same limit carries over to the plan, which is made of the table
  when the loop is done, and `todo` has nothing that is not planned.

That what is shown is also cleared in time depends on positions: a live drone that
sends none keeps the placeholder off the air (`ble_stray`). The refinement
`RelayKeepsPromise` is `KeepsPromise` if, besides, every frame has a position (as in
run `ble`) and `Patience` is shorter than a turn of the counter. Its proof uses
`PackRadio_proofs` as it is, instantiated as `RP` for the plans a table of located
slots makes: each step of `BleRelay` is one of `RP!Next` or leaves the radio alone
(`BleRadioStep`), so its invariants of the watchdog hold here. `BleInv` is `TableInv`
with these, `Located` (every used slot has a position) and `AirHeard`: what is on the
air without being planned was heard a pass, and the ticks it has been wrong, beyond
`SilentTicks` ago. The pass is the difference between the plan and the table it was
made of.

Then each step is one of the promise's or does not concern it (`PromiseStep`):
`TakeFrame` and `NoFrame` are `Listen`, which may only happen because a wrong air is
short of `Patience` by a pass when the task is back at the queue (`StrayInTime`);
writes are `Show`, by the lemma behind `OnlyFreshShown` (`PlannedIsFresh`), or `Hide`;
a lost instance is `Hide`; a restart is `Restart`. `EvictedGoesOff` is
`EvictedOverwritten` under the same assumptions, the property `ble_stray` refutes
without positions.

`Adverts_proofs` has `BurstsAttributed`, for any drones, tables and cycle length,
and any interleaving of the three tasks. `Attributed` speaks of the air, which is
decided when a pass works out a slot's messages, so `TodoInv` adds what is still
to be sent: the messages of one drone, with the Basic ID in front and nowhere
else, or the rest of them once the air showed that Basic ID or missed it.

`Parts_proofs` has the theorems about what the runs call the parts. Two are about
the parser, for every frame, message length up to 239 and width of the length
field (`ParserAssumption`): `ParserInBounds` from `Bounds` (the payload ends with
the frame at the latest, the Pack with the payload), and `PacksParsed` from
`InPack`, the invariant of the loop over the messages. The step that needs
thought is where the Pack starts: a byte that looks like a Pack header is at
least 240, so it is no message size, and the two places a Pack may start at never
qualify together.

Two are about what leaves the node. `RelayedFaithfully` is `RelayKeeps`, for every
value of every field: one lemma per way of packing (nibbles, headings in two
halves, speeds with their multiplier, offsets), then the message as a whole.
`JsonWhole` is `JsonFits`, for all texts within the lengths of the decoder's
fields: a character adds at most two bytes, and the loop stops four short of the
end.

Three are about the reject list, for any pairs, capacity and life of an entry,
as long as the behaviour ends before the counter comes round
(`Horizon < TickMod`; beyond that see *an expired reject entry* below):
`OnlyAddedRefused` (`RefusedWasAdded`), `PairsSingle` (`OneEntryPerPair`) and, for
finitely many ids, `LatestHeld` (`LatestRefused`). Besides the ages of entries,
`ListInv` has `Outlived`: a young pair without an entry is at least as old as the
pairs of all entries, and all are in use. With one entry per pair that makes more
young pairs than the list has entries. The lemmas about `ListInv` are in
`RelayPolicy_proofs`, where the list is a parameter: the slot table cites them
too.

Four are about the configuration, for any modes, channels, keys, serial numbers,
length of the blacklist and sets of keys a boot may fail to read: `ConfigTyped`
(`ConfigTypeOK`), `SavedIsFound` (`RoundTrip`), `CutSaveMixes` (`OnlyMixtures`) and
`KeyStays` (`KeyKept`). `ConfigInv` says that memory is what a settled NVS loads as,
but for the unread keys, and that no entry is left beyond the list (`NothingLeft`,
without which a later count could bring one back); `Written` that a save which has
failed nowhere has its first writes in place; `Between` that each entry of NVS is
still the old configuration's, erased, or already the new one's. `OnlyMixtures` needs
the third, and only entry by entry: the count and the list are written apart.
`KeyAccounted` says that when NVS has a key and memory none, `keyless` names the
factory reset or the boot that took it, which is what the save that overwrites it
can be blamed on; with the factory reset alone the theorem would be false (see *a
boot that cannot read* below).

`QueriesAnswered` is `DnsAnswers`, for a datagram of any length and content. The
loop is at an offset whose name ends where the whole one does (`DnsInv`), which
needs no more of the recursive function than its equation; that a function with
this equation exists is an induction over the length (`NameUnfolds`), see below.

`XiaoSlots_proofs` has two theorems, for any drones, addresses, slots and ticks:
`OperatorsOwn` (`OwnOperator`), over any number of turns of the counter, if
frames are `Truthful`: a frame with a Basic ID tells its own drone's position
and operator, one without is from the drone that the named frames of its address
name (the frames of the run are). The saved position outlives the frames it came
from and is put in where none came, so `XiaoInv` follows a slot's address,
position, operator position and saved position together; a frame's own operator
position may be invalid until the rule that checks it, so the merge is proved
rule by rule, in the order of the code.

The other is `OlderTableImplements`: but for the `Misled` steps every step of the
XIAO's table, read as `Translated` says, is one of the WSW table without reject
list and ODID timestamps, over any number of turns. What the two make of a frame
and of a slot is the same for any ticks, so the invariant (`Rows`) is the types
alone: the merge (`MergeTyped`, at any tick but 0) and the verdict on a slot
(`SameVerdict`). Only the search for the stalest slot needs more. It is made for a
claim that displaces a drone, so where the step is not misled every slot has a tick
of the current turn, and then the last slot with the least tick (`StalestIn`: the
scan finds one) is the last with the greatest age (`SameStalest`). Each pass maps
to a pass (`ReceiveMaps`, `TimeoutMaps`, `EvictMaps`).

`Node_proofs` has five theorems about a node as a whole. Three are about its boot,
for any range of channels, number of clients and length of the event queue, and
any interleaving of `app_main`, the host, the event task, the hop task and phones:

- `BootTyped`: `BootTypeOK`. Two numbers are not bounded by the code around them.
  The relay tasks are at most two because `Counted` accounts for them: until
  `s_task_created` is set every task there is belongs to a caller that is about to
  set it. The handler's count of clients stays in range because of `Path`: the
  queued events lead from that count to the number of stations associated, through
  numbers the portal can have.
- `RelayOnlyWanted`: `RelayOnlyInRelayMode`, with `Allowed`: whoever is past the
  check of `s_running` has seen it set, and only `ble_relay_start` sets it.
- `PortalStaysPinned`: `PortalPinned`. With no event queued, `Path` says that the
  handler believes what is true; `Settled` says that what it believes is what it
  has done to the radio, at each place the event task can be.

Two are about the relay task under load, for any number of drones, depth of the
queue and length of a burst:

- `LatencyStaysBounded`: `LatencyBounded`. `Waits` adds the pass under way to the
  age of each frame; the numbers are products of variables, which the provers get
  one place of the queue at a time (`OnePassMore`).
- `TableNeverFills`: of `n` slots that are in use, `Burst * n * (n - 1) <=
  2 * SilentTicks` (`FewInUse`), however the drones transmit and whatever the queue
  drops. The invariant is `Spread`: a slot is at least as old as the passes since its
  last merge. One pass merges one frame, so of the drones merged after it (`Newer`)
  the first was followed by a pass over the slots of that time, the next by one
  over as many or more, and so on, and the ages of `n` slots are spread over
  passes of 1, 2, .. n - 1 slots; eviction keeps the oldest within `SilentTicks`.
  With the code's 150 ms for a slot with a position and 15 s that is at most 14
  slots, of the 32 the table has. So `TransmitterKept` cannot be proved for the
  code's own constants: with 15 drones that all transmit it is false. It is
  model-checked where the silent time covers the delay of the queue (`load`).

Induction over data is possible where a recursion is a function: `SetInduction`
(`RelayPolicy_proofs`) states it for a set, which the provers can instantiate, and
gives `NameFrom` and `NotBlank` their equations.

The safety properties of the passing runs are all proved but `TransmitterKept`,
which depends on how many drones there are. Only model-checked besides: liveness
(and `ENABLED`) is out of the prover's reach, so `RadioRecovers`, `RelayStarts`,
`ImageCommitted`, `ScanResumes`, `IdleShown`, `DetectionGone` and `ComesBack`
stay with TLC.

## 5. Findings and observations

The three runs that expect a violation are findings of `PROJECT.json`. The
following were met while modelling. Where one of them would break a property of
the runs or theorems above, a named condition excludes it there:

- *A blank Basic ID.* A frame whose Basic ID is present but empty is attributed
  by address (`ble_relay.c:532`) and checked by neither reject check (line 710
  needs an id, line 717 needs its absence). It re-arms a rejected pair, and its
  blank id overwrites the slot's (line 573).
- *An old position.* Airborne state is derived from the accumulator
  (line 724), so frames without a position keep `lastAir` fresh and the last
  position on the air for as long as they come.
- *A landed drone.* Its eviction clears `airborne_ever`; the next frame from the
  ground claims a slot to which the landing rule does not apply.
- *An expired reject entry* (`history_turn`) is not cleared and matches again 2^32
  ticks later (`relay_policy.c:82`), for the length of its life. A pair that is no
  longer frozen is refused, and a pair evicted a moment ago may be replaced.
  `turned` marks what happens then.
- *A client during start-up* (`boot_early`). If a join is handled between lines
  347 and 348 of `wifi_scanner.c` the pause flag is cleared again while reception
  is turned off, and resume then does nothing. The history variable `early` marks
  what happens then, and `PortalPinned` and `ScanResumes` exclude it.
- *Two relay tasks.* `spawn_relay_task_if_ready` sets `s_task_created` after
  `xTaskCreate` and without a lock (`ble_relay.c:871-876`). `app_main`, preempted
  in between by the host task finishing `on_sync`, creates a second relay task;
  in `RelayStart` `tasks` may become 2.
- *A fleet.* "seconds no frames → stop", `nvs_config.h:51` says of the silent time,
  but the rule goes by the last frame merged, not received. `relay_task` takes one
  frame per pass and spends 150 ms per live slot with a position. With eleven drones
  sending one frame a second a drone's turn comes later than the 15 s of the silent
  rule, and slots of transmitting drones are freed; by `TableNeverFills` no more
  than 14 of the 32 slots can ever be in use. `TransmitterKept` holds in the run
  `load` because the silent time there covers the delay of the queue.
- *A boot that cannot read.* `wsd_config_load` returns `ESP_OK` with defaults when
  NVS cannot be opened (`nvs_config.c:53-56`) or a key cannot be read (lines 64, 82,
  89). Nothing is lost in NVS by that, but the portal then shows and edits the
  defaults, and the next save writes them over the rest: the mode, the blacklist,
  and, if the form brings none, the API key (line 150), against
  `config_server.c:364-367`, "so an empty form submission cannot wipe the key".
  `RoundTrip` and `OnlyMixtures` excuse the keys that the boot failed to read
  (`unread`), `KeyKept` the save after it (`keyless`).
- *An image that halts* without its queues (`main.c:110`) neither crashes nor
  reaches the timer: it stays until somebody resets the node. `ComesBack` accepts
  it, as it is what the code does; the property is about the images that run or crash.
- *Settings nobody reads.* The land and silent timeouts, the blacklist, the LED
  flag, the baud rate and the Wi-Fi strategy are saved and loaded, but
  `maybe_evict_slot` uses constants (`ble_relay.c:629-632`) and nothing calls
  `wsd_config_is_blacklisted`.
- *"Settings saved."* is shown whether or not `wsd_config_save` succeeded
  (`config_server.c:413-414`).
- *A location saved twice.* `(int32_t)(node_lat * 1000000.0)` truncates: of the
  six-decimal locations one in sixty comes back a millionth smaller in size
  after a save (`nvs_config.c:153-154`), for instance 66.494469.
- *Two interrupted saves.* `OnlyMixtures` is about a save that found NVS in order.
  After an interrupted one the entries it did not erase are still there, and a
  second interruption can bring one back that neither list contains.
- *A good image reset early.* The portal's reboot button, the Pack watchdog or a
  loss of power within the first minute of a new image makes the bootloader give
  it up, whether it works or not; `ComesBack` says that one which works runs
  again, not which one.
- *Two signals that never overlap* (`ble_relay.c:361-364`). In this tree
  `output_task` starts handle 2 for every frame and nobody stops it, so the last
  detection is advertised next to the idle beacon for as long as the node is
  idle. The XIAO tree blanks it; `DetectionGone` is about that tree.
- *One attempt.* A XIAO node in UART mode tries once to blank a detection
  (`output.c:275-281` there). If the instance is not configured at that moment
  the idle timer is cleared all the same and the detection comes back on the
  air with nobody to take it off: `lost` in `DetectionGone`.
- *A missed Basic ID.* `relay_task` ignores what `advertise_odid` returns. When
  the write of a Basic ID fails, the messages after it are sent behind the
  previous slot's; `Attributed` is about bursts whose Basic ID was not missed.
- *Handles 0, 2 and 3* are configured in `on_sync` only. A command that fails
  there leaves the handle silent until the next resync.
- *Success without a start.* `advertise_pack` returns success when
  `ble_gap_ext_adv_start` fails after the payload was accepted (line 350): the
  health record is fresh while handle 1 is silent. It lasts until the next pass
  that writes.
- *A key that changes while it is read.* `configure_id_advertiser` reads
  `g_config.api_key` in the host task (line 1006) while the portal's handler may
  write it: the length and the bytes may come from two keys.
- *Who clears the LED.* `promiscuous_cb` sets the detecting flag in every mode
  (`led.c:87` holds it), only `relay_task` clears it. In UART mode it stays set
  after the first frame.
- *The XIAO after a wrap.* `resolve_slot` there claims "a free or stalest slot"
  (its `ble_relay.c:420`) and looks for the least tick not above `now` (lines
  453-464). After the counter has wrapped that is a slot heard since, not the stalest
  one; while every slot of a full table was last heard before the wrap it finds none,
  and the claim of a new drone writes through a null pointer, so that the node panics
  and restarts (`Panic`). A slot stamped at tick 0 counts as never stamped and is not
  evicted for its silence. `Misled` excuses these steps in `ImplementsRelaySlots`;
  `OwnOperator` holds through them.
- *The XIAO's LED task* is said to drain its notification (`led.c:58-60`);
  `xTaskNotifyStateClear` clears the state, not the value. The retries of
  `wifi_scanner_start` in its `main.c:132-151` cannot run, as that function
  returns `ESP_OK` or aborts.
- *Packs of the node's own.* `encode_pack` writes a header of two bytes, type and
  count, where `odid_parse_pack` reads three, type, size and count: it would take
  the count for the message size. No receiver of the node hears such a Pack.
- *The speed comment* (`ble_relay.c:145-147`) gives the multiplier range an offset
  of 63.75 m/s. Code and decoder have none; with the comment's formula
  `RelayKeeps` fails.
- *A phantom message.* A Pack behind a counter that is cut short before its first
  message, or empty, falls through to `odid_parse_message` with the counter as
  the message type. `PackParsed` is about complete Packs.
- *Lengths modulo 256.* `odid_len` of an action frame has eight bits
  (`wifi_scanner.c`); a longer body is taken for a short one, never for more than
  there is.
- *The last character* of a 20-character operator ID is overwritten by the
  terminator (`parse_operator_id`).
- *The first operator position* is kept: `sys_saved` is filled once per claim, so an
  invalid position later is replaced by where the operator was first.
- *One receive.* The portal reads a form with a single receive
  (`config_server.c:344`): what did not arrive with it is lost, a value may be cut
  short, and a page rendered before a change of the key brings the old key back
  when its form is sent (lines 195 and 370). `ConfigStore` has all of this;
  `KeyKept` says what holds nevertheless, see also *a boot that cannot read*.

## 6. Not modelled

- *Functions nobody calls*: `ble_relay_stop`, `wifi_scanner_stop`,
  `dns_server_stop`, `wsd_config_is_blacklisted`, and all of `ble_scanner.c`.
- *Positions, texts and the Self-ID* beyond their lengths: floats and strings that
  no branch looks at.
- *The markup* of the portal, the decoding of form values and the captive-portal
  probes, which change no state.
- *Sockets, the UART driver, the LED's pin*, and the XIAO's LED notification.
- *The XIAO's Pack advertiser and boot*. The former writes like handle 0 and has no
  watchdog, so it promises nothing after a reset; the latter is the same order of
  calls with retries that cannot run.
- *The raw queue* between callback and distributor: the distributor waits for
  nothing, so it only adds places to the relay queue that `RelayLoad` has.
- *Two relay tasks on one table*: `RelayStart` shows that they can exist; what they
  then do to `s_slots` is a data race.
- The host tests and build files. The tests were read as documentation of
  `relay_policy.c`.

What could be proved next: a bound for the air when only some drones send positions.
A wrong Pack should stay no longer than `Patience` after the table is empty or has a
drone with a position again.
