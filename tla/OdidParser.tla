------------------------------ MODULE OdidParser -----------------------------
(***************************************************************************)
(* How promiscuous_cb of wifi_scanner.c finds an Open Drone ID payload in  *)
(* a received frame, and odid_parse_pack and odid_parse_message of         *)
(* odid_decoder.c take the messages out of it.  The bytes matter where the *)
(* code branches on them; what a message says is for OdidCodec, here a     *)
(* detection records for each type the offset its fields were taken from.  *)
(*                                                                         *)
(* A message is MsgLen bytes, 25 in the code.  Lengths of a payload are    *)
(* kept in eight bits: LenMod is 256 in the code.                          *)
(***************************************************************************)
EXTENDS Integers, Sequences

CONSTANTS MsgLen, LenMod, Frames

Byte == 0 .. 255

(* The body starts after the 24 bytes of the 802.11 header.                 *)
Frame == [kind : {"beacon", "action", "other"}, body : Seq(Byte)]

ASSUME ParserAssumption ==
  /\ MsgLen \in 3 .. 239 /\ LenMod \in Nat \ {0}
  /\ Frames \subseteq Frame

Types   == 0 .. 5            \* ODID_MSG_BASIC_ID .. ODID_MSG_OPERATOR_ID
Fields  == Types \ {2}       \* ODID_MSG_AUTH is accepted, but has no fields
Pack    == 15                \* ODID_MSG_PACK
Nowhere == -1

VARIABLES
  frame,        \* the frame received
  stage,        \* what is being looked at
  ie,           \* offset of the information element looked at
  start, len,   \* odid_payload as an offset, odid_len
  p, plen,      \* the Pack as an offset, and its length
  size, count,  \* msg_size, msg_count
  i, parsed,    \* messages looked at, and accepted
  det,          \* the detection
  seen          \* history: bytes of the body looked at

parserVars == <<frame, stage, ie, start, len, p, plen, size, count, i, parsed,
                det, seen>>

body == frame.body
At(o) == body[o + 1]
Type(o) == At(o) \div 16

See(n) == seen' = IF n > seen THEN n ELSE seen

ParserInit ==
  /\ frame \in Frames
  /\ stage = "frame"
  /\ ie = 0 /\ start = 0 /\ len = 0 /\ p = 0 /\ plen = 0
  /\ size = 0 /\ count = 0 /\ i = 0 /\ parsed = 0
  /\ det = [t \in Fields |-> Nowhere]
  /\ seen = 0

------------------------------------------------------------------------------
(* Finding the payload.                                                     *)

Drop == stage' = "dropped"
Found(s, n) == start' = s /\ len' = n /\ stage' = "payload"

(* A beacon has 12 bytes in front of its elements; in an action frame the    *)
(* payload follows a header of 6.                                           *)
IsOdidAction ==
  /\ Len(body) >= 7 /\ At(0) = 4
  /\ At(1) = 250 /\ At(2) = 11 /\ At(3) = 188 /\ At(4) = 13

Begin ==
  /\ stage = "frame"
  /\ \/ frame.kind = "beacon" /\ Len(body) >= 12
        /\ ie' = 12 /\ stage' = "elements" /\ UNCHANGED <<start, len, seen>>
     \/ frame.kind = "action" /\ IsOdidAction /\ See(5)
        /\ Found(6, (Len(body) - 6) % LenMod) /\ UNCHANGED ie
     \/ ~(frame.kind = "beacon" /\ Len(body) >= 12)
        /\ ~(frame.kind = "action" /\ IsOdidAction)
        /\ Drop /\ UNCHANGED <<ie, start, len, seen>>
  /\ UNCHANGED <<frame, p, plen, size, count, i, parsed, det>>

(* parse_beacon_ies: is the element the ASTM or the DJI one?                *)
IsOdidElement ==
  /\ At(ie) = 221 /\ At(ie + 1) >= 5
  /\ \/ At(ie + 2) = 250 /\ At(ie + 3) = 11 /\ At(ie + 4) = 188 /\ At(ie + 5) = 13
     \/ /\ At(ie + 2) = 38 /\ At(ie + 3) = 55 /\ At(ie + 4) = 18
        /\ At(ie + 1) >= 6 /\ At(ie + 5) = 13

(* Mutant: an element may reach two bytes beyond the frame.                 *)
WholeLoose == ie + At(ie + 1) <= Len(body)

Whole == ie + 2 + At(ie + 1) <= Len(body)

Element ==
  /\ stage = "elements"
  /\ IF Len(body) - ie < 2 THEN Drop /\ UNCHANGED <<ie, start, len, seen>>
     ELSE IF ~Whole THEN Drop /\ See(ie + 2) /\ UNCHANGED <<ie, start, len>>
     ELSE IF IsOdidElement
     THEN Found(ie + 6, At(ie + 1) - 4) /\ See(ie + 6) /\ UNCHANGED ie
     ELSE /\ ie' = ie + 2 + At(ie + 1)
          /\ See(IF At(ie) = 221 /\ At(ie + 1) >= 5 THEN ie + 6 ELSE ie + 2)
          /\ UNCHANGED <<stage, start, len>>
  /\ UNCHANGED <<frame, p, plen, size, count, i, parsed, det>>

------------------------------------------------------------------------------
(* Taking the messages out.                                                 *)

(* Where the Pack starts, Nowhere if there is none: at the payload, or       *)
(* behind the counter DJI puts in front, or with some other message size.   *)
(* Mutant: accepts any message size before it looks behind a counter.       *)
PackStartAnyFirst ==
  IF Type(start) = Pack THEN start
  ELSE IF len >= 5 /\ Type(start + 1) = Pack /\ At(start + 2) = MsgLen
  THEN start + 1 ELSE Nowhere

PackStart ==
  IF Type(start) = Pack /\ At(start + 1) = MsgLen THEN start
  ELSE IF len >= 5 /\ Type(start + 1) = Pack /\ At(start + 2) = MsgLen
  THEN start + 1
  ELSE IF Type(start) = Pack THEN start ELSE Nowhere

(* A message size out of range is taken for MsgLen.                         *)
SizeAt(o) == IF At(o) = 0 \/ At(o) > MsgLen THEN MsgLen ELSE At(o)

Payload ==
  /\ stage = "payload"
  /\ IF len < MsgLen THEN Drop /\ UNCHANGED <<p, plen, size, count, seen>>
     ELSE IF PackStart = Nowhere
     THEN stage' = "single" /\ See(start + 3) /\ UNCHANGED <<p, plen, size, count>>
     ELSE /\ p' = PackStart /\ plen' = len - (PackStart - start)
          /\ size' = SizeAt(PackStart + 1) /\ count' = At(PackStart + 2)
          /\ stage' = "pack" /\ See(PackStart + 3)
  /\ UNCHANGED <<frame, ie, start, len, i, parsed, det>>

(* odid_parse_message at offset o: the fields of its type are overwritten.  *)
Parsed(o) == [det EXCEPT ![Type(o)] = o]

(* Mutant: a message that ends with the payload does not fit.               *)
MoreStrict == i < count /\ 3 + i * size + size < plen

More == i < count /\ 3 + i * size + size <= plen

(* The loop of odid_parse_pack; a message shorter than MsgLen is refused.   *)
Message ==
  /\ stage = "pack" /\ More
  /\ LET o == p + 3 + i * size
         ok == size >= MsgLen /\ Type(o) \in Types
     IN  /\ det' = IF ok /\ Type(o) \in Fields THEN Parsed(o) ELSE det
         /\ parsed' = IF ok THEN parsed + 1 ELSE parsed
         /\ See(IF size >= MsgLen THEN o + MsgLen ELSE seen)
  /\ i' = i + 1
  /\ UNCHANGED <<frame, stage, ie, start, len, p, plen, size, count>>

(* No message accepted counts as no Pack.                                   *)
PackDone ==
  /\ stage = "pack" /\ ~More
  /\ stage' = IF parsed > 0 THEN "queued" ELSE "single"
  /\ UNCHANGED <<frame, ie, start, len, p, plen, size, count, i, parsed, det, seen>>

(* odid_parse_message of the whole payload.                                 *)
Single ==
  /\ stage = "single"
  /\ stage' = IF Type(start) \in Types THEN "queued" ELSE "dropped"
  /\ det' = IF Type(start) \in Fields THEN Parsed(start) ELSE det
  /\ See(start + MsgLen)
  /\ UNCHANGED <<frame, ie, start, len, p, plen, size, count, i, parsed>>

ParserNext == Begin \/ Element \/ Payload \/ Message \/ PackDone \/ Single

ParserSpec == ParserInit /\ [][ParserNext]_parserVars

------------------------------------------------------------------------------
(* A Pack as a transmitter sends it: n bytes from offset o.                 *)
MessageAt(o, j) == o + 3 + j * MsgLen

IsPack(o, n) ==
  /\ n >= 3 /\ Type(o) = Pack /\ At(o + 1) = MsgLen
  /\ At(o + 2) > 0 /\ 3 + MsgLen * At(o + 2) <= n
  /\ \A j \in 0 .. At(o + 2) - 1 : Type(MessageAt(o, j)) \in Types

(* The last of the first n messages of a type, by its offset.               *)
OfType(o, t, n) == {j \in 0 .. n - 1 : Type(MessageAt(o, j)) = t}
Last(S) == CHOOSE j \in S : \A k \in S : k <= j
Sent(o, n) ==
  [t \in Fields |-> IF OfType(o, t, n) = {} THEN Nowhere
                    ELSE MessageAt(o, Last(OfType(o, t, n)))]

(* A complete Pack in the payload of a frame is reported as what it says:    *)
(* for each type the last of its messages, whatever stands in the counter   *)
(* DJI sends in front of it, and whatever follows.                          *)
PackParsed ==
  start > 0 /\ stage \in {"queued", "dropped"} =>
    \A o \in {start, start + 1} :
      IsPack(o, len - (o - start))
        => stage = "queued" /\ det = Sent(o, At(o + 2))

(* The parser looks at no byte beyond the frame it was given: lengths inside *)
(* the frame, of elements and of messages, are only believed up to its end. *)
InBounds == seen <= Len(body)
==============================================================================
