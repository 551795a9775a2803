----------------------------- MODULE ConfigStore -----------------------------
(***************************************************************************)
(* The configuration of a node: g_config in memory, its keys in NVS        *)
(* (WSW-Firmware/main/nvs_config.c), and the handlers of the portal that   *)
(* change them (config_server.c).  A save writes the NVS keys one by one,  *)
(* any of the writes may fail, and power may go between two of them; a     *)
(* boot reads them one by one, and any of the reads may fail.              *)
(*                                                                         *)
(* Of the fields the model keeps one of each kind: mode, taken as it comes *)
(* (as node_lat and wifi_strat are); ch_start, whose range is checked (as  *)
(* ch_stop's, uart_baud's and the timeouts'); the blacklist, which is      *)
(* rebuilt; and the API key, which is kept when the form brings none.      *)
(***************************************************************************)
EXTENDS Integers, Sequences

CONSTANTS
  ApiKeys,         \* API keys a person may enter
  Serials,         \* serial numbers a person may enter
  BlMax,           \* WSD_BLACKLIST_MAX
  NoKey,           \* the empty API key
  NoSerial, Stub,  \* the empty serial number, and the beginning of one
  Absent,          \* a key that is not in NVS; a page that is not open
  Forms,           \* the forms people fill in
  Misses           \* the sets of keys one boot may fail to read

Modes == {0, 1}         \* WSD_MODE_RELAY, WSD_MODE_UART
Channels == {1, 13}     \* of 1..13: the default, and one whose digits can be cut

Form == [mode : Modes, ch : Channels, new : ApiKeys \cup {NoKey},
         list : [1 .. BlMax -> Serials \cup {NoSerial}]]

(* An API key that was cut short keeps its beginning. *)
StoredKeys == {NoKey} \cup (ApiKeys \X {"whole", "cut"})

(* The keys, by the order in which they are read and written: mode, channel, *)
(* the length of the blacklist, its entries, and the API key.               *)
LastStep == BlMax + 4
Keys == 1 .. LastStep

(* What is not there, empty or cut is none of what a person may enter.       *)
ASSUME ConfigAssumption ==
  /\ BlMax \in Nat \ {0} /\ Forms \subseteq Form /\ Misses \subseteq SUBSET Keys
  /\ NoKey \notin ApiKeys /\ NoKey \notin ApiKeys \X {"whole", "cut"}
  /\ NoSerial \notin Serials /\ NoSerial # Stub
  /\ Absent \notin Nat \cup Serials \cup {NoSerial, Stub} \cup StoredKeys

Cut(k) == IF k = NoKey THEN NoKey ELSE <<k[1], "cut">>

Config == [mode : Modes, ch : Channels, list : Seq(Serials \cup {NoSerial, Stub}),
           key : StoredKeys]

(* Of a key that was never written NVS knows nothing.                        *)
Nvs == [mode : Modes \cup {Absent}, ch : Channels \cup {Absent},
        count : (0 .. BlMax) \cup {Absent},
        bl : [1 .. BlMax -> Serials \cup {NoSerial, Stub, Absent}],
        key : StoredKeys \cup {Absent}]

(* wsd_config_defaults. *)
Defaults == [mode |-> 0, ch |-> 1, list |-> <<>>, key |-> NoKey]

VARIABLES
  config,    \* g_config
  nvs,       \* what NVS holds
  step,      \* the write wsd_config_save is at, 0 when none runs
  failed,    \* one of its writes failed
  shown,     \* the API key on the page somebody has open, or Absent
  settled,   \* history: the last save was complete
  before,    \* history: what a settled NVS held when the running save began
  unread,    \* history: the keys the last boot could not read, until a save
  keyless    \* history: what last took the API key from memory alone

configVars == <<config, nvs, step, failed, shown, settled, before, unread, keyless>>


Erased == [mode |-> Absent, ch |-> Absent, count |-> Absent,
           bl |-> [i \in 1 .. BlMax |-> Absent], key |-> Absent]

InitConfig ==
  /\ config = Defaults /\ nvs = Erased
  /\ step = 0 /\ failed = FALSE
  /\ shown = Absent
  /\ settled = TRUE /\ before = Absent
  /\ unread = {} /\ keyless = "nothing"

------------------------------------------------------------------------------
(* wsd_config_load: what can be read of NVS over the defaults.  A read that *)
(* fails leaves the default, as a key that is not there does; when nvs_open *)
(* fails all of them do.                                                    *)
Or(v, default) == IF v = Absent THEN default ELSE v
Got(missed, k, v) == IF k \in missed THEN Absent ELSE v

Load(n, missed) ==
  [mode |-> Or(Got(missed, 1, n.mode), Defaults.mode),
   ch   |-> Or(Got(missed, 2, n.ch), Defaults.ch),
   list |-> [i \in 1 .. Or(Got(missed, 3, n.count), 0) |->
               Or(Got(missed, i + 3, n.bl[i]), NoSerial)],
   key  |-> Or(Got(missed, LastStep, n.key), NoKey)]

(* wsd_config_save: the writes in their order, one step each.               *)

(* Mutant: the last entry of the list is not written. *)
StoreListShort(s) ==
  LET i == s - 3
  IN  [nvs EXCEPT !.bl[i] = IF i < Len(config.list) THEN config.list[i] ELSE Absent]

(* Mutant: entries beyond the count stay. *)
StoreListNoErase(s) ==
  LET i == s - 3
  IN  IF i <= Len(config.list) THEN [nvs EXCEPT !.bl[i] = config.list[i]] ELSE nvs

(* Entries beyond the count are erased. *)
StoreList(s) ==
  LET i == s - 3
  IN  [nvs EXCEPT !.bl[i] = IF i <= Len(config.list) THEN config.list[i] ELSE Absent]

Store(s) ==
  CASE s = 1 -> [nvs EXCEPT !.mode = config.mode]
    [] s = 2 -> [nvs EXCEPT !.ch = config.ch]
    [] s = 3 -> [nvs EXCEPT !.count = Len(config.list)]
    [] s \in 4 .. BlMax + 3 -> StoreList(s)
    [] s = LastStep -> [nvs EXCEPT !.key = config.key]

BeginSave ==
  /\ step' = 1 /\ failed' = FALSE
  /\ before' = IF settled THEN Load(nvs, {}) ELSE Absent
  /\ settled' = FALSE /\ unread' = {}
  /\ UNCHANGED nvs

(* After the last write the handler commits, whose result only the log      *)
(* sees, and tells the browser that the settings were saved.                *)
Advance(ok) ==
  /\ step # 0
  /\ nvs' = IF ok THEN Store(step) ELSE nvs
  /\ IF step = LastStep
     THEN /\ step' = 0 /\ failed' = FALSE
          /\ settled' = (ok /\ ~failed) /\ before' = Absent
     ELSE /\ step' = step + 1 /\ failed' = (failed \/ ~ok)
          /\ UNCHANGED <<settled, before>>
  /\ UNCHANGED <<config, shown, unread, keyless>>

(* nvs_open fails: nothing is written. *)
OpenFails ==
  /\ step = 1 /\ ~failed
  /\ step' = 0 /\ before' = Absent
  /\ UNCHANGED <<config, nvs, failed, shown, settled, unread, keyless>>

------------------------------------------------------------------------------
(* handler_save_post.  The body holds the fields in the order of the page,  *)
(* mode, aw_key, aw_key_new, bl_0 .. and ch_start, but it is received with  *)
(* one call, which returns what has arrived by then: the first n fields     *)
(* and, if cut, the beginning of the next.                                  *)
FieldCount == BlMax + 4

HasKey(k) == k \notin {NoKey, Absent}

Mode(f, n, cut) ==
  CASE n >= 1 -> f.mode [] n = 0 /\ cut -> 0 [] OTHER -> config.mode

(* Mutant: takes the keys of the form whether they are empty or not. *)
KeyAsSent(f, n, cut) ==
  CASE n >= 3 -> IF f.new = NoKey THEN NoKey ELSE <<f.new, "whole">>
    [] n = 2  -> shown
    [] n = 1 /\ cut -> Cut(shown)
    [] OTHER -> config.key

(* aw_key_new if it is there and not empty, else aw_key on the same terms,  *)
(* else the key stays.                                                      *)
Key(f, n, cut) ==
  CASE n >= 3 /\ f.new # NoKey -> <<f.new, "whole">>
    [] n = 2 /\ cut /\ f.new # NoKey -> <<f.new, "cut">>
    [] n >= 2 /\ shown # NoKey -> shown
    [] n = 1 /\ cut /\ shown # NoKey -> Cut(shown)
    [] OTHER -> config.key

(* The blacklist is rebuilt from the entries that are not blank. *)
NotBlank(entry) ==
  LET taken[i \in 0 .. BlMax] ==
        IF i = 0 THEN <<>>
        ELSE IF entry[i] = NoSerial THEN taken[i - 1]
        ELSE Append(taken[i - 1], entry[i])
  IN  taken[BlMax]

List(f, n, cut) ==
  NotBlank([i \in 1 .. BlMax |->
              CASE n >= i + 3 -> f.list[i]
                [] n = i + 2 /\ cut /\ f.list[i] # NoSerial -> Stub
                [] OTHER -> NoSerial])

(* Mutant: the range of the channel is not checked. *)
ChannelUnchecked(f, n, cut) ==
  CASE n = FieldCount -> f.ch
    [] n = FieldCount - 1 /\ cut -> 0
    [] OTHER -> config.ch

(* A cut "13" is "1"; a cut "1" is no channel and ignored. *)
Channel(f, n, cut) ==
  CASE n = FieldCount -> f.ch
    [] n = FieldCount - 1 /\ cut /\ f.ch = 13 -> 1
    [] OTHER -> config.ch

SavePost(f, n, cut) ==
  /\ step = 0 /\ shown # Absent
  /\ config' = [mode |-> Mode(f, n, cut), ch |-> Channel(f, n, cut),
                list |-> List(f, n, cut), key |-> Key(f, n, cut)]
  /\ BeginSave
  /\ keyless' = IF HasKey(config'.key) THEN "nothing" ELSE keyless
  /\ UNCHANGED shown

(* handler_root_get: the page shows the key of the moment.                  *)
RootGet ==
  /\ step = 0
  /\ shown' = config.key
  /\ UNCHANGED <<config, nvs, step, failed, settled, before, unread, keyless>>

(* handler_factory. *)
Factory ==
  /\ step = 0
  /\ config' = Defaults
  /\ BeginSave
  /\ keyless' = "reset"
  /\ UNCHANGED shown

(* Loss of power, or a restart by any task, and the boot that follows, in   *)
(* which the reads of the keys in missed fail.  An open page survives it.   *)
Reboot(missed) ==
  /\ config' = Load(nvs, missed)
  /\ step' = 0 /\ failed' = FALSE
  /\ before' = Absent
  /\ unread' = missed
  /\ keyless' = IF LastStep \in missed /\ HasKey(nvs.key) THEN "boot" ELSE "nothing"
  /\ UNCHANGED <<nvs, shown, settled>>

(* app_main finds NVS unusable and erases it. *)
RebootErased ==
  /\ config' = Defaults /\ nvs' = Erased
  /\ step' = 0 /\ failed' = FALSE
  /\ settled' = TRUE /\ before' = Absent
  /\ unread' = {} /\ keyless' = "nothing"
  /\ UNCHANGED shown

NextConfig ==
  \/ \E f \in Forms, n \in 0 .. FieldCount, cut \in BOOLEAN : SavePost(f, n, cut)
  \/ RootGet \/ Factory
  \/ \E ok \in BOOLEAN : Advance(ok)
  \/ OpenFails
  \/ \E missed \in Misses : Reboot(missed)
  \/ RebootErased

SpecConfig == InitConfig /\ [][NextConfig]_configVars

------------------------------------------------------------------------------
ConfigTypeOK ==
  /\ config \in Config /\ Len(config.list) <= BlMax
  /\ nvs \in Nvs
  /\ step \in 0 .. LastStep /\ failed \in BOOLEAN /\ settled \in BOOLEAN
  /\ shown \in StoredKeys \cup {Absent}
  /\ unread \subseteq Keys /\ keyless \in {"nothing", "reset", "boot"}

(* A save whose writes all succeed is found again after a reboot, whatever  *)
(* an interrupted or failed save left in NVS before it; of a key the boot   *)
(* could not read memory has the default, and NVS still the value.          *)
RoundTrip == settled /\ step = 0 => config = Load(nvs, unread)

(* A reboot in the middle of a save that found NVS in order leaves a        *)
(* mixture of two configurations and nothing else: every field, and every   *)
(* entry of the blacklist, is of the old one or of the new one, or blank or *)
(* the default, for an entry or a key the boot could not read.              *)
Mixture(c, old, new, missed) ==
  LET of(k, v, one, other, default) ==
        v \in {one, other} \cup (IF k \in missed THEN {default} ELSE {})
  IN  /\ of(1, c.mode, old.mode, new.mode, Defaults.mode)
      /\ of(2, c.ch, old.ch, new.ch, Defaults.ch)
      /\ of(3, Len(c.list), Len(old.list), Len(new.list), 0)
      /\ of(LastStep, c.key, old.key, new.key, NoKey)
      /\ \A i \in DOMAIN c.list :
           \/ c.list[i] = NoSerial
           \/ \E l \in {old.list, new.list} : i \in DOMAIN l /\ c.list[i] = l[i]

OnlyMixtures ==
  [][before # Absent /\ Reboot(unread')
       => Mixture(config', before, config, unread')]_configVars

(* An API key in NVS goes with all of NVS, or by the save after a factory   *)
(* reset, or by one after a boot that could not read it: no form, whole or  *)
(* in part, and no save that is cut off or fails loses it.                  *)
KeyKept ==
  [][HasKey(nvs.key) /\ ~HasKey(nvs'.key)
       => RebootErased \/ keyless \in {"reset", "boot"}]_configVars
==============================================================================
