------------------------------ MODULE JsonOutput ------------------------------
(***************************************************************************)
(* The two JSON texts output_task makes of a detection: the line on the    *)
(* UART (format_json) and the compact text of the detection advertiser     *)
(* (format_json_compact, ble_detection_advertise).  The code writes into   *)
(* fixed buffers, so what matters of a text is its length, and of a        *)
(* character how it is escaped.                                            *)
(***************************************************************************)
EXTENDS Integers, Sequences

CONSTANTS
  Texts,      \* texts of a message: the UAS ID, the description, the operator ID
  LineNums,   \* characters of the numbers in a line, together
  Nums        \* characters of the numbers in a compact text, together

Char == {"plain", "quote", "control"}   \* "quote" is also the backslash

LineMax    == 512    \* sizeof(json_buf), WSD_JSON_MAX_LEN
CompactMax == 256    \* sizeof(gatt_buf)
DetJsonMax == 200    \* DET_JSON_MAX: what ble_detection_advertise sends
IdMax      == 20

(* The fields escaped, in order: the buffer of each and how long its text    *)
(* may be; "id" is the UAS ID again.                                        *)
FieldNames == {"uas", "desc", "op", "id"}
BufferOf(f) == CASE f = "uas" -> 64 [] f = "desc" -> 64 [] f = "op" -> 48 [] f = "id" -> 32
TextMax(f)  == CASE f = "uas" -> IdMax [] f = "desc" -> 23 [] f = "op" -> 19 [] f = "id" -> IdMax

(* Keys and punctuation of a line, and of the parts of a compact text; the   *)
(* MAC address and the device id have a fixed length.                       *)
LineKeys    == 236
CompactKeys == 29 + 34   \* braces and device id; position, altitude, speed, heading
IdKeys      == 8
SystemKeys  == 20

(* The widest numbers the decoder can produce, in the order of the formats:  *)
(* ticks, source, RSSI, two types of a nibble, status, position, three      *)
(* altitudes, speeds, heading, and the operator's position and altitude.    *)
LineNumMax    == 10 + 9 + 4 + 2 + 2 + 2 + 12 + 12 + 3 * 7 + 6 + 6 + 3 + 12 + 12 + 7
CompactNumMax == 12 + 12 + 7 + 6 + 3
SystemNumMax  == 12 + 12

ASSUME JsonAssumption ==
  /\ \A t \in Texts : /\ DOMAIN t = FieldNames /\ t.id = t.uas
                      /\ \A f \in FieldNames : t[f] \in Seq(Char) /\ Len(t[f]) <= TextMax(f)
  /\ LineNums \subseteq 0 .. LineNumMax
  /\ Nums \subseteq 0 .. CompactNumMax

VARIABLES
  texts,          \* the texts of the detection
  hasId, hasSystem,
  field,          \* the field being escaped, or what is done next
  n,              \* characters of it looked at
  written,        \* bytes written, by field
  line, compact   \* length of what was formatted, 0 if nothing was

jsonVars == <<texts, hasId, hasSystem, field, n, written, line, compact>>

JsonInit ==
  /\ texts \in Texts /\ hasId \in BOOLEAN /\ hasSystem \in BOOLEAN
  /\ field = "uas" /\ n = 0
  /\ written = [f \in FieldNames |-> 0]
  /\ line = 0 /\ compact = 0

(* Mutant: a control character is escaped too, as \u and four digits.       *)
WidthUnicode(c) == CASE c = "plain" -> 1 [] c = "quote" -> 2 [] c = "control" -> 6

Width(c) == CASE c = "plain" -> 1 [] c = "quote" -> 2 [] c = "control" -> 0

MoreChars == n < Len(texts[field]) /\ written[field] < BufferOf(field) - 4

(* json_escape: one character.                                              *)
EscapeChar ==
  /\ field \in FieldNames /\ MoreChars
  /\ n' = n + 1
  /\ written' = [written EXCEPT ![field] = @ + Width(texts[field][n + 1])]
  /\ UNCHANGED <<texts, hasId, hasSystem, field, line, compact>>

After(f) == CASE f = "uas" -> "desc" [] f = "desc" -> "op" [] f = "op" -> "line"
              [] f = "id" -> "compact"

EscapeDone ==
  /\ field \in FieldNames /\ ~MoreChars
  /\ field' = After(field) /\ n' = 0
  /\ UNCHANGED <<texts, hasId, hasSystem, written, line, compact>>

(* format_json returns the length the text would have.                      *)
FormatLine ==
  /\ field = "line"
  /\ \E w \in LineNums :
       line' = LineKeys + w + written["uas"] + written["desc"] + written["op"]
  /\ field' = (IF hasId THEN "id" ELSE "compact") /\ n' = 0
  /\ UNCHANGED <<texts, hasId, hasSystem, written, compact>>

(* format_json_compact: the id only with a Basic ID, the operator only with  *)
(* a System message.                                                        *)
FormatCompact ==
  /\ field = "compact"
  /\ \E w \in Nums :
       compact' = CompactKeys + w + (IF hasId THEN IdKeys + written["id"] ELSE 0)
                    + (IF hasSystem THEN SystemKeys + SystemNumMax ELSE 0)
  /\ field' = "done"
  /\ UNCHANGED <<texts, hasId, hasSystem, n, written, line>>

JsonNext == EscapeChar \/ EscapeDone \/ FormatLine \/ FormatCompact

JsonSpec == JsonInit /\ [][JsonNext]_jsonVars

------------------------------------------------------------------------------
(* Whatever characters a drone puts in its texts, the escaped text and its   *)
(* terminator fit in their buffer, the line is not longer than output_task  *)
(* takes (a longer one is not written at all), and the compact text is not  *)
(* cut by ble_detection_advertise, which would leave it without its end.    *)
JsonFits ==
  /\ \A f \in FieldNames : written[f] < BufferOf(f)
  /\ line < LineMax
  /\ compact < CompactMax /\ compact <= DetJsonMax
==============================================================================
