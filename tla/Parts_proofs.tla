----------------------------- MODULE Parts_proofs -----------------------------
(***************************************************************************)
(* The parts that do not need the tasks.  A received frame on its way      *)
(* through the node: the parser reads it rightly and not beyond its end,   *)
(* the encoder sends what the decoder read, and the JSON texts fit, for    *)
(* every value and every length.  The reject list: it refuses what was     *)
(* added to it and nothing else, for any pairs and any capacity.           *)
(* The configuration: what a save, a form or a loss of power can leave     *)
(* behind, for any values.  The captive DNS server: what it answers, for   *)
(* datagrams of any length.                                                *)
(***************************************************************************)
EXTENDS OdidParser, OdidCodec, JsonOutput, CaptiveDns, RejectList, RelayPolicy_proofs,
        ConfigStore, TLAPS

(***************************************************************************)
(* InBounds and PackParsed for every frame and every message length.       *)
(* Bounds is the invariant behind the first: the payload ends with the     *)
(* frame at the latest, the Pack with the payload.  InPack is the loop     *)
(* invariant behind the second: after i messages of a complete Pack the    *)
(* detection is what its first i messages say.                             *)
(***************************************************************************)

Stages == {"frame", "elements", "payload", "pack", "single", "queued", "dropped"}

Bounds ==
  /\ frame \in Frame /\ stage \in Stages
  /\ ie \in Nat /\ start \in Nat /\ len \in Nat /\ p \in Nat /\ plen \in Nat
  /\ size \in Nat /\ count \in Nat /\ i \in Nat /\ parsed \in Nat
  /\ seen \in Nat /\ seen <= Len(body)
  /\ stage \in {"frame", "elements"} => start = 0
  /\ start + len <= Len(body)
  /\ stage \in {"pack", "single"} => len >= MsgLen
  /\ stage = "pack" => /\ p + plen = start + len
                       /\ size \in 1 .. MsgLen
  /\ stage \in {"frame", "elements", "payload"} =>
       i = 0 /\ parsed = 0 /\ det = [t \in Fields |-> Nowhere]

InPack ==
  start > 0 /\ stage \in {"pack", "single", "queued", "dropped"} =>
    \A o \in {start, start + 1} :
      IsPack(o, len - (o - start)) =>
        /\ stage \in {"pack", "queued"}
        /\ p = o /\ plen = len - (o - start)
        /\ size = MsgLen /\ count = At(o + 2)
        /\ stage = "pack" => i <= count /\ parsed = i /\ det = Sent(o, i)
        /\ stage = "queued" => det = Sent(o, count)

ParserInv == Bounds /\ InPack

(* The bytes of a frame, and a message's type, which is never that of a Pack *)
(* for a byte that may be a message size.                                   *)
LEMMA Bytes ==
  ASSUME frame \in Frame
  PROVE  /\ body \in Seq(Byte) /\ Len(body) \in Nat
         /\ \A o \in Nat : o < Len(body) => At(o) \in Byte /\ At(o) \in Nat /\ Type(o) \in 0 .. 15
         /\ \A o \in Nat : o < Len(body) /\ Type(o) = Pack => At(o) >= 240
<1>1. body \in Seq(Byte) /\ Len(body) \in Nat
  BY DEF Frame, body
<1>2. ASSUME NEW o \in Nat, o < Len(body) PROVE At(o) \in Byte
  BY <1>1, <1>2, SMT DEF At
<1>3. ASSUME NEW b \in Byte PROVE b \in Nat /\ b \div 16 \in 0 .. 15 /\ (b \div 16 = 15 => b >= 240)
  BY SMT DEF Byte
<1>4. QED
  BY <1>1, <1>2, <1>3 DEF Type, Pack

LEMMA SeeInBounds ==
  ASSUME NEW k \in Nat, k <= Len(body), Len(body) \in Nat, seen \in Nat,
         seen <= Len(body), See(k)
  PROVE  seen' \in Nat /\ seen' <= Len(body)
BY SMT DEF See

(* One more message of a Pack is one more field, from its offset.            *)
LEMMA SentStep ==
  ASSUME NEW o \in Nat, NEW k \in Nat
  PROVE  LET m == MessageAt(o, k)
         IN  Sent(o, k + 1) = IF Type(m) \in Fields
                              THEN [Sent(o, k) EXCEPT ![Type(m)] = m] ELSE Sent(o, k)
<1> DEFINE m == MessageAt(o, k)
<1>1. ASSUME NEW t, Type(m) # t
      PROVE  OfType(o, t, k + 1) = OfType(o, t, k)
  <2>1. (0 .. (k + 1) - 1) = (0 .. k - 1) \cup {k}
    BY SMT
  <2>2. QED
    BY <1>1, <2>1 DEF OfType
<1>2. ASSUME NEW t, Type(m) = t
      PROVE  OfType(o, t, k + 1) # {} /\ Last(OfType(o, t, k + 1)) = k
  <2> DEFINE S == OfType(o, t, k + 1)
  <2>1. k \in S
    BY <1>2, SMT DEF OfType
  <2>2. \A j \in S : j \in Int /\ j <= k
    BY SMT DEF OfType
  <2>3. \A j \in S : (\A h \in S : h <= j) => j = k
    BY <2>1, <2>2, SMT
  <2>4. \E j \in S : \A h \in S : h <= j
    BY <2>1, <2>2
  <2>5. Last(S) = k
    <3> HIDE DEF S
    <3>1. QED
      BY <2>3, <2>4 DEF Last
  <2>6. QED
    BY <2>1, <2>5
<1>3. CASE Type(m) \in Fields
  <2>1. ASSUME NEW t \in Fields
        PROVE  Sent(o, k + 1)[t] = [Sent(o, k) EXCEPT ![Type(m)] = m][t]
    <3>1. CASE Type(m) = t
      <4>1. Sent(o, k + 1)[t] = MessageAt(o, k)
        BY <1>2, <3>1 DEF Sent
      <4>2. QED
        BY <4>1, <3>1 DEF Sent
    <3>2. CASE Type(m) # t
      BY <1>1, <3>2 DEF Sent
    <3>3. QED
      BY <3>1, <3>2
  <2>2. QED
    BY <1>3, <2>1 DEF Sent
<1>4. CASE Type(m) \notin Fields
  <2>1. \A t \in Fields : OfType(o, t, k + 1) = OfType(o, t, k)
    BY <1>1, <1>4
  <2>2. QED
    BY <1>4, <2>1 DEF Sent
<1>5. QED
  BY <1>3, <1>4

LEMMA SentNone == ASSUME NEW o \in Nat PROVE Sent(o, 0) = [t \in Fields |-> Nowhere]
<1>1. \A t : OfType(o, t, 0) = {}
  BY SMT DEF OfType
<1>2. QED
  BY <1>1 DEF Sent

(* What a Pack says is a matter of the frame.                                *)
LEMMA SameFrame ==
  ASSUME frame' = frame
  PROVE  /\ body' = body
         /\ \A o, k : IsPack(o, k)' = IsPack(o, k) /\ Sent(o, k)' = Sent(o, k)
         /\ \A o : At(o)' = At(o)
BY DEF body, At, Type, IsPack, Sent, OfType
------------------------------------------------------------------------------
LEMMA InitParser == ParserInit => ParserInv
<1> SUFFICES ASSUME ParserInit PROVE ParserInv
  OBVIOUS
<1>1. frame \in Frame
  BY ParserAssumption DEF ParserInit
<1>2. Len(body) \in Nat
  BY <1>1, Bytes
<1>3. QED
  BY <1>1, <1>2, SMT DEF ParserInit, ParserInv, Bounds, InPack, Stages

LEMMA BeginParser == ParserInv /\ Begin => ParserInv'
<1> SUFFICES ASSUME ParserInv, Begin PROVE ParserInv'
  OBVIOUS
<1> USE DEF ParserInv
<1>1. frame' = frame /\ frame \in Frame /\ Len(body) \in Nat /\ body' = body
  BY Bytes, SameFrame DEF Begin, Bounds
<1>2. stage = "frame" /\ start = 0
  BY DEF Begin, Bounds
<1>3. CASE stage' \in {"elements", "dropped"} /\ UNCHANGED <<start, len, seen>>
           /\ ie' \in Nat
  BY <1>1, <1>2, <1>3 DEF Begin, Bounds, InPack, Stages
<1>4. CASE frame.kind = "action" /\ IsOdidAction /\ See(5)
           /\ Found(6, (Len(body) - 6) % LenMod) /\ UNCHANGED ie
  <2>1. Len(body) >= 7
    BY <1>4 DEF IsOdidAction
  <2>2. LenMod \in Nat \ {0}
    BY ParserAssumption
  <2>3. len' \in Nat /\ 6 + len' <= Len(body)
    BY <1>1, <1>4, <2>1, <2>2, SMT DEF Found
  <2>4. seen' \in Nat /\ seen' <= Len(body)
    BY <1>1, <1>4, <2>1, SeeInBounds, SMT DEF Bounds
  <2>5. start' = 6 /\ stage' = "payload"
    BY <1>4 DEF Found
  <2>6. QED
    BY <1>1, <1>2, <1>4, <2>3, <2>4, <2>5 DEF Begin, Bounds, InPack, Stages
<1>5. QED
  BY <1>3, <1>4 DEF Begin, Drop, Bounds

LEMMA ElementParser == ParserInv /\ Element => ParserInv'
<1> SUFFICES ASSUME ParserInv, Element PROVE ParserInv'
  OBVIOUS
<1> USE DEF ParserInv
<1>1. frame' = frame /\ frame \in Frame /\ Len(body) \in Nat /\ body' = body
  BY Bytes, SameFrame DEF Element, Bounds
<1>2. stage = "elements" /\ start = 0 /\ ie \in Nat
  BY DEF Element, Bounds
<1>3. CASE Len(body) - ie < 2
  BY <1>1, <1>2, <1>3 DEF Element, Drop, Bounds, InPack, Stages
<1> DEFINE l == At(ie + 1)
<1>4. ASSUME ~(Len(body) - ie < 2) PROVE l \in 0 .. 255
  <2>1. ie + 1 \in Nat /\ ie + 1 < Len(body)
    BY <1>1, <1>2, <1>4, SMT
  <2>2. QED
    BY <1>1, <2>1, Bytes DEF Byte
<1>5. CASE ~(Len(body) - ie < 2) /\ ~Whole
  <2>1. seen' \in Nat /\ seen' <= Len(body)
    BY <1>1, <1>2, <1>5, SeeInBounds, SMT DEF Element, Bounds
  <2>2. stage' = "dropped" /\ UNCHANGED <<ie, start, len>>
    BY <1>5 DEF Element, Drop
  <2>3. QED
    BY <1>1, <1>2, <2>1, <2>2 DEF Element, Bounds, InPack, Stages
<1>6. CASE ~(Len(body) - ie < 2) /\ Whole /\ IsOdidElement
  <2>1. l \in 0 .. 255 /\ l >= 5 /\ ie + 2 + l <= Len(body)
    BY <1>4, <1>6 DEF IsOdidElement, Whole
  <2>2. start' = ie + 6 /\ len' = l - 4 /\ stage' = "payload" /\ See(ie + 6) /\ ie' = ie
    BY <1>6 DEF Element, Found
  <2>3. start' \in Nat /\ len' \in Nat /\ start' + len' <= Len(body)
    <3> HIDE DEF l
    <3>1. QED
      BY <1>1, <1>2, <2>1, <2>2, SMT
  <2>4. seen' \in Nat /\ seen' <= Len(body)
    <3>1. seen \in Nat /\ seen <= Len(body)
      BY DEF Bounds
    <3> HIDE DEF l
    <3>2. QED
      BY <1>1, <1>2, <2>1, <2>2, <3>1, SMT DEF See
  <2>5. QED
    BY <1>1, <1>2, <2>2, <2>3, <2>4 DEF Element, Bounds, InPack, Stages
<1>7. CASE ~(Len(body) - ie < 2) /\ Whole /\ ~IsOdidElement
  <2>1. l \in 0 .. 255 /\ ie + 2 + l <= Len(body)
    BY <1>4, <1>7 DEF Whole
  <2>2. /\ ie' = ie + 2 + l /\ UNCHANGED <<stage, start, len>>
        /\ See(IF At(ie) = 221 /\ l >= 5 THEN ie + 6 ELSE ie + 2)
    BY <1>7 DEF Element
  <2>3. ie' \in Nat
    <3> HIDE DEF l
    <3>1. QED
      BY <1>2, <2>1, <2>2, SMT
  <2>4. seen' \in Nat /\ seen' <= Len(body)
    <3>1. seen \in Nat /\ seen <= Len(body)
      BY DEF Bounds
    <3> HIDE DEF l
    <3>2. QED
      BY <1>1, <1>2, <2>1, <2>2, <3>1, SMT DEF See
  <2>5. QED
    BY <1>1, <1>2, <2>2, <2>3, <2>4 DEF Element, Bounds, InPack, Stages
<1>8. QED
  BY <1>3, <1>5, <1>6, <1>7

(* Where a complete Pack starts, the code finds it.                          *)
LEMMA Start ==
  ASSUME frame \in Frame, start \in Nat, len \in Nat, start + len <= Len(body),
         NEW o \in {start, start + 1}, IsPack(o, len - (o - start))
  PROVE  /\ PackStart = o /\ len >= MsgLen /\ At(o + 2) \in Nat /\ At(o + 2) > 0
         /\ SizeAt(o + 1) = MsgLen
<1>1. Len(body) \in Nat /\ MsgLen \in 3 .. 239
  BY Bytes, ParserAssumption
<1> DEFINE room == len - (o - start)
           c == At(o + 2)
<1>2. room \in Int /\ o \in Nat /\ o + room = start + len /\ room <= len
  BY SMT
<1>3. room >= 3 /\ Type(o) = Pack /\ At(o + 1) = MsgLen /\ c > 0 /\ 3 + MsgLen * c <= room
  BY DEF IsPack
<1>4. o + 2 \in Nat /\ o + 2 < Len(body)
  BY <1>1, <1>2, <1>3, SMT
<1>5. c \in Nat
  BY <1>4, Bytes
<1>6. MsgLen * c >= MsgLen
  <2> HIDE DEF c
  <2>1. QED
    BY <1>1, <1>3, <1>5, SMT
<1>7. room >= 3 + MsgLen
  <2> HIDE DEF c, room
  <2>1. MsgLen * c \in Int
    BY <1>1, <1>5, SMT
  <2>2. QED
    BY <1>1, <1>2, <1>3, <1>6, <2>1, SMT
<1>8. len >= 5 /\ len >= MsgLen
  <2> HIDE DEF c, room
  <2>1. QED
    BY <1>1, <1>2, <1>7, SMT
<1>9. PackStart = o
  <2>1. CASE o = start
    BY <1>3, <2>1 DEF PackStart
  <2>2. CASE o = start + 1
    <3>1. At(start + 1) >= 240
      BY <1>2, <1>3, <1>4, <2>2, Bytes, SMT
    <3>2. At(start + 1) # MsgLen
      BY <1>1, <3>1, SMT
    <3>3. At(start + 2) = MsgLen /\ Type(start + 1) = Pack
      <4>1. (start + 1) + 1 = start + 2
        BY SMT
      <4>2. QED
        BY <1>3, <2>2, <4>1
    <3>4. QED
      BY <1>8, <2>2, <3>2, <3>3 DEF PackStart
  <2>3. QED
    BY <2>1, <2>2
<1>10. SizeAt(o + 1) = MsgLen
  BY <1>1, <1>3, SMT DEF SizeAt
<1>11. QED
  BY <1>3, <1>5, <1>8, <1>9, <1>10

LEMMA PayloadParser == ParserInv /\ Payload => ParserInv'
<1> SUFFICES ASSUME ParserInv, Payload PROVE ParserInv'
  OBVIOUS
<1> USE DEF ParserInv
<1>1. frame' = frame /\ frame \in Frame /\ Len(body) \in Nat /\ body' = body
  BY Bytes, SameFrame DEF Payload, Bounds
<1>2. /\ stage = "payload" /\ start' = start /\ len' = len /\ i' = i /\ parsed' = parsed
      /\ det' = det /\ ie' = ie
      /\ i = 0 /\ parsed = 0 /\ det = [t \in Fields |-> Nowhere]
  BY DEF Payload, Bounds
<1>3. start \in Nat /\ len \in Nat /\ start + len <= Len(body)
      /\ seen \in Nat /\ seen <= Len(body) /\ MsgLen \in 3 .. 239
  BY ParserAssumption DEF Bounds
<1>4. CASE len < MsgLen
  <2>1. stage' = "dropped" /\ UNCHANGED <<p, plen, size, count, seen>>
    BY <1>4 DEF Payload, Drop
  <2>2. Bounds'
    BY <1>1, <1>2, <2>1 DEF Bounds, Stages
  <2>3. \A o \in {start, start + 1} : ~IsPack(o, len - (o - start))
    BY <1>1, <1>3, <1>4, Start, SMT
  <2>4. InPack'
    BY <1>1, <1>2, <2>3, SameFrame DEF InPack
  <2>5. QED
    BY <2>2, <2>4
<1>5. CASE ~(len < MsgLen) /\ PackStart = Nowhere
  <2>1. stage' = "single" /\ See(start + 3) /\ UNCHANGED <<p, plen, size, count>>
    BY <1>5 DEF Payload
  <2>2. seen' \in Nat /\ seen' <= Len(body)
    BY <1>1, <1>3, <1>5, <2>1, SMT DEF See
  <2>3. len >= MsgLen
    BY <1>3, <1>5, SMT
  <2>4. Bounds'
    BY <1>1, <1>2, <2>1, <2>2, <2>3 DEF Bounds, Stages
  <2>5. \A o \in {start, start + 1} : ~IsPack(o, len - (o - start))
    BY <1>1, <1>3, <1>5, Start, SMT DEF Nowhere
  <2>6. InPack'
    BY <1>1, <1>2, <2>5, SameFrame DEF InPack
  <2>7. QED
    BY <2>4, <2>6
<1>6. CASE ~(len < MsgLen) /\ PackStart # Nowhere
  <2>1. /\ p' = PackStart /\ plen' = len - (PackStart - start)
        /\ size' = SizeAt(PackStart + 1) /\ count' = At(PackStart + 2)
        /\ stage' = "pack" /\ See(PackStart + 3)
    BY <1>6 DEF Payload
  <2>2. PackStart = start \/ (PackStart = start + 1 /\ len >= 5)
    BY <1>6 DEF PackStart
  <2> DEFINE q == PackStart
  <2> HIDE DEF q
  <2>3. q \in Nat /\ q + 3 <= Len(body) /\ len - (q - start) \in Nat
        /\ q + (len - (q - start)) = start + len
    BY <1>3, <1>6, <2>2, SMT DEF q
  <2>4. At(q + 2) \in Nat /\ At(q + 1) \in Nat
    <3>1. q + 2 \in Nat /\ q + 2 < Len(body) /\ q + 1 \in Nat /\ q + 1 < Len(body)
      BY <1>1, <2>3, SMT
    <3>2. QED
      BY <1>1, <3>1, Bytes
  <2>5. SizeAt(q + 1) \in 1 .. MsgLen
    BY <1>3, <2>4, SMT DEF SizeAt
  <2>6. seen' \in Nat /\ seen' <= Len(body)
    BY <1>1, <1>3, <2>1, <2>3, SMT DEF See, q
  <2>7. size' \in Nat
    BY <1>3, <2>1, <2>5, SMT DEF q
  <2>8. Bounds'
    <3>1. /\ p' \in Nat /\ plen' \in Nat /\ p' + plen' = start' + len'
          /\ size' \in 1 .. MsgLen /\ count' \in Nat /\ len' >= MsgLen
      BY <1>2, <1>3, <1>6, <2>1, <2>3, <2>4, <2>5, SMT DEF q
    <3>2. QED
      BY <1>1, <1>2, <2>1, <2>6, <2>7, <3>1 DEF Bounds, Stages
  <2>9. ASSUME NEW o \in {start, start + 1}, IsPack(o, len - (o - start))
        PROVE  /\ p' = o /\ plen' = len - (o - start) /\ size' = MsgLen
               /\ count' = At(o + 2) /\ i <= count' /\ det = Sent(o, i)
    <3>1. PackStart = o /\ At(o + 2) \in Nat /\ SizeAt(o + 1) = MsgLen
      BY <1>1, <1>3, <2>9, Start
    <3>2. det = Sent(o, i)
      BY <1>2, <1>3, SentNone, SMT
    <3>3. QED
      BY <1>2, <2>1, <3>1, <3>2, SMT
  <2>10. InPack'
    BY <1>1, <1>2, <2>1, <2>9, SameFrame DEF InPack
  <2>11. QED
    BY <2>8, <2>10
<1>7. QED
  BY <1>4, <1>5, <1>6

LEMMA MessageParser == ParserInv /\ Message => ParserInv'
<1> SUFFICES ASSUME ParserInv, Message PROVE ParserInv'
  OBVIOUS
<1> USE DEF ParserInv
<1>1. frame' = frame /\ frame \in Frame /\ Len(body) \in Nat /\ body' = body
  BY Bytes, SameFrame DEF Message, Bounds
<1>2. /\ stage = "pack" /\ More /\ i' = i + 1
      /\ UNCHANGED <<frame, stage, ie, start, len, p, plen, size, count>>
  BY DEF Message
<1> DEFINE o == p + 3 + i * size
           ok == size >= MsgLen /\ Type(o) \in Types
<1>3. /\ det' = IF ok /\ Type(o) \in Fields THEN Parsed(o) ELSE det
      /\ parsed' = IF ok THEN parsed + 1 ELSE parsed
      /\ See(IF size >= MsgLen THEN o + MsgLen ELSE seen)
  BY DEF Message
<1>4. /\ start \in Nat /\ len \in Nat /\ p \in Nat /\ plen \in Nat /\ i \in Nat
      /\ parsed \in Nat /\ seen \in Nat /\ seen <= Len(body) /\ count \in Nat
      /\ start + len <= Len(body) /\ p + plen = start + len /\ size \in 1 .. MsgLen
      /\ MsgLen \in 3 .. 239 /\ size \in Nat
  BY <1>2, ParserAssumption DEF Bounds
<1>5. i * size \in Nat
  BY <1>4, SMT
<1>6. i < count /\ 3 + i * size + size <= plen
  BY <1>2 DEF More
<1>7. o \in Nat /\ o + size <= Len(body)
  <2> DEFINE k == i * size
  <2>1. k \in Nat /\ 3 + k + size <= plen /\ o = p + 3 + k
    BY <1>5, <1>6
  <2> HIDE DEF k, o
  <2>2. QED
    BY <1>1, <1>4, <2>1, SMT
<1>8. Bounds'
  <2>1. seen' \in Nat /\ seen' <= Len(body)
    <3> HIDE DEF o
    <3>1. QED
      BY <1>1, <1>3, <1>4, <1>7, SMT DEF See
  <2>2. parsed' \in Nat /\ i' \in Nat
    BY <1>2, <1>3, <1>4, SMT
  <2>3. QED
    BY <1>1, <1>2, <2>1, <2>2 DEF Bounds, Stages
<1>9. ASSUME start > 0, NEW h \in {start, start + 1}, IsPack(h, len - (h - start))
      PROVE  i' <= count /\ parsed' = i' /\ det' = Sent(h, i')
  <2>1. /\ p = h /\ size = MsgLen /\ count = At(h + 2)
        /\ i <= count /\ parsed = i /\ det = Sent(h, i)
    BY <1>2, <1>9 DEF InPack
  <2>2. h \in Nat
    BY <1>4, SMT
  <2>3. o = MessageAt(h, i)
    BY <1>4, <2>1, SMT DEF MessageAt
  <2>4. i \in 0 .. At(h + 2) - 1
    BY <1>4, <1>6, <2>1, SMT
  <2>5. Type(o) \in Types
    BY <1>9, <2>3, <2>4 DEF IsPack
  <2>6. ok
    BY <1>4, <2>1, <2>5, SMT
  <2>7. Sent(h, i + 1) = IF Type(o) \in Fields THEN [Sent(h, i) EXCEPT ![Type(o)] = o]
                         ELSE Sent(h, i)
    BY <1>4, <2>2, <2>3, SentStep
  <2>8. det' = Sent(h, i + 1)
    <3> HIDE DEF o
    <3>1. QED
      BY <1>3, <2>1, <2>6, <2>7 DEF Parsed
  <2>9. i' <= count /\ parsed' = i'
    BY <1>2, <1>3, <1>4, <1>6, <2>1, <2>6, SMT
  <2>10. QED
    BY <1>2, <2>8, <2>9
<1>10. InPack'
  BY <1>1, <1>2, <1>9, SameFrame DEF InPack
<1>11. QED
  BY <1>8, <1>10

LEMMA DoneParser == ParserInv /\ PackDone => ParserInv'
<1> SUFFICES ASSUME ParserInv, PackDone PROVE ParserInv'
  OBVIOUS
<1> USE DEF ParserInv
<1>1. frame' = frame /\ frame \in Frame /\ Len(body) \in Nat /\ body' = body
  BY Bytes, SameFrame DEF PackDone, Bounds
<1>2. /\ stage = "pack" /\ ~More
      /\ stage' = IF parsed > 0 THEN "queued" ELSE "single"
      /\ UNCHANGED <<frame, ie, start, len, p, plen, size, count, i, parsed, det, seen>>
  BY DEF PackDone
<1>3. Bounds'
  BY <1>1, <1>2 DEF Bounds, Stages
<1>4. ASSUME start > 0, NEW h \in {start, start + 1}, IsPack(h, len - (h - start))
      PROVE  stage' = "queued" /\ det = Sent(h, count)
  <2>1. /\ p = h /\ plen = len - (h - start) /\ size = MsgLen /\ count = At(h + 2)
        /\ i <= count /\ parsed = i /\ det = Sent(h, i)
    BY <1>2, <1>4 DEF InPack
  <2>2. count > 0 /\ 3 + MsgLen * count <= plen
    BY <1>4, <2>1 DEF IsPack
  <2>3. i \in Nat /\ count \in Nat /\ plen \in Nat /\ MsgLen \in 3 .. 239
    BY ParserAssumption DEF Bounds
  <2>4. i = count
    <3> SUFFICES ASSUME i < count PROVE FALSE
      BY <2>1, <2>3, SMT
    <3>1. i * MsgLen + MsgLen <= MsgLen * count
      <4>1. PICK d \in Nat : count = i + 1 + d
        <5>1. count - i - 1 \in Nat /\ count = i + 1 + (count - i - 1)
          BY <2>3, SMT
        <5>2. QED
          BY <5>1
      <4>2. MsgLen * count = i * MsgLen + MsgLen + d * MsgLen
        BY <2>3, <4>1, SMT
      <4>3. d * MsgLen \in Nat /\ i * MsgLen \in Nat
        BY <2>3, SMT
      <4>4. QED
        BY <2>3, <4>2, <4>3, SMT
    <3>2. i * MsgLen \in Nat /\ MsgLen * count \in Nat
      BY <2>3, SMT
    <3>3. 3 + i * MsgLen + MsgLen <= plen
      BY <2>2, <2>3, <3>1, <3>2, SMT
    <3>4. QED
      BY <1>2, <2>1, <3>3 DEF More
  <2>5. parsed > 0
    BY <2>1, <2>2, <2>4
  <2>6. QED
    BY <1>2, <2>1, <2>4, <2>5
<1>5. InPack'
  <2>1. stage # "queued" /\ stage' # "pack"
    BY <1>2
  <2>2. QED
    BY <1>1, <1>2, <1>4, <2>1, SameFrame DEF InPack
<1>6. QED
  BY <1>3, <1>5

LEMMA SingleParser == ParserInv /\ Single => ParserInv'
<1> SUFFICES ASSUME ParserInv, Single PROVE ParserInv'
  OBVIOUS
<1> USE DEF ParserInv
<1>1. frame' = frame /\ frame \in Frame /\ Len(body) \in Nat /\ body' = body
  BY Bytes, SameFrame DEF Single, Bounds
<1>2. /\ stage = "single" /\ stage' \in {"queued", "dropped"} /\ See(start + MsgLen)
      /\ UNCHANGED <<frame, ie, start, len, p, plen, size, count, i, parsed>>
  BY DEF Single
<1>3. seen' \in Nat /\ seen' <= Len(body)
  BY <1>1, <1>2, ParserAssumption, SMT DEF Bounds, See
<1>4. Bounds'
  BY <1>1, <1>2, <1>3 DEF Bounds, Stages
<1>5. start > 0 => \A o \in {start, start + 1} : ~IsPack(o, len - (o - start))
  BY <1>2 DEF InPack
<1>6. InPack'
  BY <1>1, <1>2, <1>5, SameFrame DEF InPack
<1>7. QED
  BY <1>4, <1>6

LEMMA StutterParser == ParserInv /\ UNCHANGED parserVars => ParserInv'
<1> SUFFICES ASSUME ParserInv, UNCHANGED parserVars PROVE ParserInv'
  OBVIOUS
<1>1. body' = body /\ frame' = frame
  BY DEF parserVars, body
<1>2. Bounds'
  BY <1>1 DEF ParserInv, Bounds, parserVars
<1>3. InPack'
  BY <1>1, SameFrame DEF ParserInv, InPack, parserVars
<1>4. QED
  BY <1>2, <1>3 DEF ParserInv

LEMMA ParserInvariant == ParserSpec => []ParserInv
<1>1. ParserInv /\ [ParserNext]_parserVars => ParserInv'
  BY BeginParser, ElementParser, PayloadParser, MessageParser, DoneParser,
     SingleParser, StutterParser DEF ParserNext
<1>2. QED
  BY <1>1, InitParser, PTL DEF ParserSpec

(* The parser never looks at a byte behind the frame, whatever the lengths    *)
(* in the frame say.                                                        *)
THEOREM ParserInBounds == ParserSpec => []InBounds
<1>1. ParserInv => InBounds
  BY DEF ParserInv, Bounds, InBounds
<1>2. QED
  BY <1>1, ParserInvariant, PTL

(* Every complete Pack is reported as what its messages say, message by       *)
(* message, behind a counter or not.                                        *)
THEOREM PacksParsed == ParserSpec => []PackParsed
<1>1. ParserInv => PackParsed
  <2> SUFFICES ASSUME ParserInv, start > 0, stage \in {"queued", "dropped"},
                      NEW o \in {start, start + 1}, IsPack(o, len - (o - start))
               PROVE  stage = "queued" /\ det = Sent(o, At(o + 2))
    BY DEF PackParsed
  <2>1. QED
    BY DEF ParserInv, InPack
<1>2. QED
  BY <1>1, ParserInvariant, PTL

------------------------------------------------------------------------------
(***************************************************************************)
(* RelayKeeps for every message.  The encoder is the inverse of the        *)
(* decoder field by field; each lemma is one kind of field, the theorem    *)
(* puts them together.                                                     *)
(***************************************************************************)

(* Two nibbles packed into a byte come apart again.                         *)
LEMMA Nibbles ==
  ASSUME NEW b \in Octet
  PROVE  /\ 16 * Hi(b) + Lo(b) = b
         /\ Hi(b) \in 0 .. 15 /\ Lo(b) \in 0 .. 15
  BY SMT DEF Octet, Hi, Lo

(* The heading as the decoder computes it, from a direction and a segment.   *)
Heading(dir, status) == (dir \div 2 + (IF status % 2 = 1 THEN 180 ELSE 0)) % 360

(* The bytes the encoder makes of it.                                       *)
Segment(h) == IF h >= 180 THEN 1 ELSE 0
StatusOf(h, st) == 16 * Hi(st) + Segment(h)
DirOf(h, m) == 2 * (h % 180) + m

(* The heading survives being split at 180 degrees, and the status its       *)
(* segment bit; the multiplier in the lowest bit can be anything.           *)
LEMMA Headings ==
  ASSUME NEW d \in Octet, NEW st \in Octet, NEW m \in {0, 1}
  PROVE  /\ StatusOf(Heading(d, st), st) \in Octet
         /\ Hi(StatusOf(Heading(d, st), st)) = Hi(st)
         /\ DirOf(Heading(d, st), m) \in Octet
         /\ DirOf(Heading(d, st), m) % 2 = m
         /\ Heading(DirOf(Heading(d, st), m), StatusOf(Heading(d, st), st)) = Heading(d, st)
<1> DEFINE dir == d \div 2
           seg == IF st % 2 = 1 THEN 180 ELSE 0
           h   == Heading(d, st)
           b   == Segment(h)
           s2  == StatusOf(h, st)
           d2  == DirOf(h, m)
<1>1. dir \in 0 .. 127
  BY SMT DEF Octet
<1>2. h = dir + seg /\ h % 180 = dir /\ b = (IF seg = 180 THEN 1 ELSE 0)
  BY <1>1, SMT DEF Heading, Segment
<1>3. d2 \in Octet /\ d2 % 2 = m /\ d2 \div 2 = dir
  BY <1>1, <1>2, SMT DEF Octet, DirOf
<1>4. Hi(st) \in 0 .. 15
  BY SMT DEF Hi, Octet
<1>5. b \in {0, 1}
  BY DEF Segment
<1>6. s2 \in Octet /\ Hi(s2) = Hi(st) /\ s2 % 2 = b
  BY <1>4, <1>5, SMT DEF Hi, Octet, StatusOf
<1>7. Heading(d2, s2) = (dir + (IF b = 1 THEN 180 ELSE 0)) % 360
  BY <1>3, <1>6 DEF Heading
<1>8. Heading(d2, s2) = h
  BY <1>7, <1>2, <1>1, SMT
<1>9. QED
  BY <1>3, <1>6, <1>8

(* The speed a raw byte and a multiplier mean.                              *)
Speed(raw_, mult) == IF mult = 1 THEN 3 * raw_ ELSE raw_
Fast(s) == IF s > MaxPlain THEN 1 ELSE 0
Coded(s) == EncodedSpeed(IF s > MaxPlain THEN FastSpeed(s) ELSE s)

(* The multiplier chosen for a speed says the same speed, whichever one it    *)
(* was heard with, except at the cap.                                       *)
LEMMA Speeds ==
  ASSUME NEW v \in Octet, NEW m \in {0, 1}
  PROVE  LET s == Speed(v, m)
         IN  /\ Coded(s) \in Octet
             /\ ~Capped(s) => Speed(Coded(s), Fast(s)) = s
             /\ Capped(s) => Speed(Coded(s), Fast(s)) \in s - 3 .. s - 1
  BY SMT DEF Octet, Speed, Coded, Fast, FastSpeed, EncodedSpeed, Capped,
             MaxPlain, MaxSpeed

(* The remaining fields are reduced to the width they had.                   *)
LEMMA Plain ==
  ASSUME NEW v \in Octet, NEW w \in Word
  PROVE  /\ Signed(v) % 256 = v
         /\ ((w - 2000) + 2000) % 65536 = w
         /\ w % 65536 = w
         /\ ((10 * w) \div 10) % 65536 = w
<1>1. Signed(v) % 256 = v
  <2>1. CASE v < 128
    BY <2>1, SMT DEF Signed, Octet
  <2>2. CASE ~(v < 128)
    <3>1. Signed(v) = v - 256 /\ v \in 128 .. 255
      BY <2>2, SMT DEF Signed, Octet
    <3>2. (v - 256) % 256 = v
      BY <3>1, SMT
    <3>3. QED
      BY <3>1, <3>2
  <2>3. QED
    BY <2>1, <2>2
<1>2. w % 65536 = w
  <2>1. w \in Int /\ 0 <= w /\ w < 65536
    BY SMT DEF Word
  <2>2. QED
    BY <2>1, SMT
<1>3. (w - 2000) + 2000 = w /\ (10 * w) \div 10 = w
  BY SMT DEF Word
<1>4. QED
  BY <1>1, <1>2, <1>3

(* Decoding what was encoded from a decoded message.                         *)
LEMMA Again ==
  ASSUME NEW r \in Raw
  PROVE  LET f == Decode(r)
             again == Decode(Encode(f))
         IN  /\ Encode(f) \in Raw
             /\ ~Capped(f.speed) => again = f
             /\ Capped(f.speed) =>
                  /\ [again EXCEPT !.speed = 0] = [f EXCEPT !.speed = 0]
                  /\ again.speed \in f.speed - 3 .. f.speed - 1
<1> DEFINE f == Decode(r)
           e == Encode(f)
           a == Decode(e)
           m == r.dir % 2
<1>1. /\ r.status \in Octet /\ r.dir \in Octet /\ r.speed \in Octet
      /\ r.vspeed \in Octet /\ r.alt \in Word /\ r.acc \in Octet
      /\ r.timestamp \in Word /\ r.radius \in Word /\ r.class \in Octet
  BY DEF Raw
<1>2. m \in {0, 1}
  BY <1>1, SMT DEF Octet
<1>3. /\ f.speed = Speed(r.speed, m) /\ f.heading = Heading(r.dir, r.status)
      /\ f.status = Hi(r.status)
  BY DEF Decode, Speed, Heading
<1>4. /\ e.status = StatusOf(f.heading, r.status)
      /\ e.dir = DirOf(f.heading, Fast(f.speed))
      /\ e.speed = Coded(f.speed)
  BY <1>3 DEF Encode, Fast, Coded, Segment, StatusOf, DirOf
<1>5. Fast(f.speed) \in {0, 1}
  BY DEF Fast
<1>6. /\ e.status \in Octet /\ Hi(e.status) = Hi(r.status)
      /\ e.dir \in Octet /\ e.dir % 2 = Fast(f.speed)
      /\ Heading(e.dir, e.status) = f.heading
  <2> HIDE DEF f, e
  <2>1. QED
    BY <1>1, <1>3, <1>4, <1>5, Headings
<1>7. /\ e.speed \in Octet
      /\ ~Capped(f.speed) => Speed(e.speed, e.dir % 2) = f.speed
      /\ Capped(f.speed) => Speed(e.speed, e.dir % 2) \in f.speed - 3 .. f.speed - 1
  BY <1>1, <1>2, <1>3, <1>4, <1>6, Speeds
<1>8. /\ e.vspeed = r.vspeed /\ e.alt = r.alt /\ e.acc = r.acc
      /\ e.timestamp = r.timestamp /\ e.radius = r.radius /\ e.class = r.class
  <2>1. /\ e.vspeed = Signed(r.vspeed) % 256 /\ e.alt = ((r.alt - 2000) + 2000) % 65536
        /\ e.timestamp = r.timestamp % 65536 /\ e.radius = ((10 * r.radius) \div 10) % 65536
    BY DEF Encode, Decode
  <2>2. e.acc = 16 * Hi(r.acc) + Lo(r.acc) /\ e.class = 16 * Hi(r.class) + Lo(r.class)
    BY DEF Encode, Decode
  <2>3. /\ Signed(r.vspeed) % 256 = r.vspeed /\ ((r.alt - 2000) + 2000) % 65536 = r.alt
        /\ r.timestamp % 65536 = r.timestamp /\ ((10 * r.radius) \div 10) % 65536 = r.radius
    BY <1>1, Plain
  <2>4. QED
    BY <2>1, <2>2, <2>3, <1>1, Nibbles
<1>9. e \in Raw
  <2>1. e = [status |-> e.status, dir |-> e.dir, speed |-> e.speed, vspeed |-> e.vspeed,
             alt |-> e.alt, acc |-> e.acc, timestamp |-> e.timestamp,
             radius |-> e.radius, class |-> e.class]
    BY DEF Encode
  <2>2. QED
    BY <2>1, <1>1, <1>6, <1>7, <1>8 DEF Raw
<1>10. a = [f EXCEPT !.speed = Speed(e.speed, e.dir % 2)]
  <2>1. a = [status |-> Hi(e.status), heading |-> Heading(e.dir, e.status),
             speed |-> Speed(e.speed, e.dir % 2), vspeed |-> Signed(e.vspeed),
             alt |-> e.alt - 2000, horizAcc |-> Hi(e.acc), vertAcc |-> Lo(e.acc),
             timestamp |-> e.timestamp, radius |-> 10 * e.radius,
             category |-> Hi(e.class), classValue |-> Lo(e.class)]
    BY DEF Decode, Heading, Speed
  <2>2. f = [status |-> Hi(r.status), heading |-> f.heading,
             speed |-> f.speed, vspeed |-> Signed(r.vspeed),
             alt |-> r.alt - 2000, horizAcc |-> Hi(r.acc), vertAcc |-> Lo(r.acc),
             timestamp |-> r.timestamp, radius |-> 10 * r.radius,
             category |-> Hi(r.class), classValue |-> Lo(r.class)]
    BY DEF Decode
  <2>3. QED
    BY <2>1, <2>2, <1>6, <1>8
<1>11. a.speed = Speed(e.speed, e.dir % 2) /\ f = [f EXCEPT !.speed = f.speed]
  BY <1>10 DEF Decode
<1>12. [a EXCEPT !.speed = 0] = [f EXCEPT !.speed = 0]
  <2>1. ASSUME NEW g, NEW v
        PROVE  [[g EXCEPT !.speed = v] EXCEPT !.speed = 0] = [g EXCEPT !.speed = 0]
    OBVIOUS
  <2> HIDE DEF f, e, a
  <2>2. QED
    BY <1>10, <2>1
<1>13. ~Capped(f.speed) => a = f
  BY <1>7, <1>10, <1>11
<1>14. QED
  BY <1>7, <1>9, <1>11, <1>12, <1>13

(* What is sent was encoded from what was decoded.                           *)
CodecInv ==
  /\ raw \in Raw /\ fields = Decode(raw)
  /\ codecPc = "sent" => sent = Encode(fields)

(* Every message the node sends says what the message it heard said.         *)
THEOREM RelayedFaithfully == CodecSpec => []RelayKeeps
<1>1. CodecInit => CodecInv
  BY CodecAssumption DEF CodecInit, CodecInv
<1>2. CodecInv /\ [CodecNext]_codecVars => CodecInv'
  BY DEF CodecInv, CodecNext, EncodeMessages, codecVars
<1>3. CodecInv => RelayKeeps
  BY Again DEF CodecInv, RelayKeeps
<1>4. QED
  BY <1>1, <1>2, <1>3, PTL DEF CodecSpec

------------------------------------------------------------------------------
(***************************************************************************)
(* JsonFits for every text.  A character adds at most two bytes, so a      *)
(* buffer is kept by its margin of four and a line by the length of its    *)
(* texts; the numbers' widths are those of the decoder's ranges.           *)
(***************************************************************************)

(* The fields whose turn is still to come have nothing written.              *)
Pending ==
  CASE field = "uas" -> {"desc", "op", "id"} [] field = "desc" -> {"op", "id"}
    [] field \in {"op", "line"} -> {"id"} [] OTHER -> {}

JsonTyped ==
  /\ texts \in Texts
  /\ field \in FieldNames \cup {"line", "compact", "done"}
  /\ n \in Nat /\ written \in [FieldNames -> Nat]
  /\ line \in Nat /\ compact \in Nat
  /\ hasId \in BOOLEAN /\ hasSystem \in BOOLEAN

Escaping ==
  /\ \A f \in FieldNames :
       /\ written[f] < BufferOf(f) - 2 /\ written[f] <= 2 * TextMax(f)
       /\ f \in Pending => written[f] = 0
  /\ field \in FieldNames =>
       written[field] <= 2 * n /\ n <= Len(texts[field])

Formatted == line < LineMax /\ compact <= DetJsonMax

JsonInv == JsonTyped /\ Escaping /\ Formatted

(* The limits of the fields, as numbers.                                     *)
LEMMA Limits ==
  ASSUME NEW f \in FieldNames
  PROVE  /\ BufferOf(f) \in {64, 48, 32} /\ TextMax(f) \in {20, 23, 19}
         /\ f = "uas" => BufferOf(f) = 64 /\ TextMax(f) = 20
         /\ f = "desc" => BufferOf(f) = 64 /\ TextMax(f) = 23
         /\ f = "op" => BufferOf(f) = 48 /\ TextMax(f) = 19
         /\ f = "id" => BufferOf(f) = 32 /\ TextMax(f) = 20
<1>1. f = "uas" \/ f = "desc" \/ f = "op" \/ f = "id"
  BY DEF FieldNames
<1>2. QED
  BY <1>1 DEF BufferOf, TextMax, IdMax

(* A text of the detection is no longer than its field.                      *)
LEMMA TextLength ==
  ASSUME texts \in Texts, NEW f \in FieldNames
  PROVE  texts[f] \in Seq(Char) /\ Len(texts[f]) \in Nat /\ Len(texts[f]) <= TextMax(f)
BY JsonAssumption

LEMMA Widths == ASSUME NEW c \in Char PROVE Width(c) \in 0 .. 2
<1>1. c = "plain" \/ c = "quote" \/ c = "control"
  BY DEF Char
<1>2. QED
  BY <1>1 DEF Width

LEMMA InitJson == JsonInit => JsonInv
<1> SUFFICES ASSUME JsonInit PROVE JsonInv
  OBVIOUS
<1>1. JsonTyped
  BY DEF JsonInit, JsonTyped, FieldNames
<1>2. Escaping
  <2>1. ASSUME NEW f \in FieldNames
        PROVE  written[f] < BufferOf(f) - 2 /\ written[f] <= 2 * TextMax(f) /\ written[f] = 0
    <3>1. written[f] = 0
      BY DEF JsonInit
    <3>2. QED
      BY <3>1, Limits, SMT
  <2>2. written["uas"] = 0 /\ field = "uas" /\ n = 0
    BY DEF JsonInit, FieldNames
  <2>3. 0 <= 2 * n /\ n <= Len(texts["uas"])
    BY <1>1, <2>2, TextLength, SMT DEF JsonTyped, FieldNames
  <2>4. QED
    BY <2>1, <2>2, <2>3 DEF Escaping
<1>3. Formatted
  BY SMT DEF JsonInit, Formatted, LineMax, DetJsonMax
<1>4. QED
  BY <1>1, <1>2, <1>3 DEF JsonInv

LEMMA CharJson == JsonInv /\ EscapeChar => JsonInv'
<1> SUFFICES ASSUME JsonInv, EscapeChar PROVE JsonInv'
  OBVIOUS
<1> USE DEF JsonInv, EscapeChar
<1>1. field \in FieldNames /\ texts[field] \in Seq(Char) /\ Len(texts[field]) \in Nat
      /\ Len(texts[field]) <= TextMax(field)
  BY TextLength DEF JsonTyped
<1>2. n + 1 \in 1 .. Len(texts[field]) /\ texts[field][n + 1] \in Char
  BY <1>1, SMT DEF JsonTyped, MoreChars
<1> DEFINE w == Width(texts[field][n + 1])
<1>3. w \in 0 .. 2
  BY <1>2, Widths
<1>4. written'[field] = written[field] + w
      /\ \A f \in FieldNames \ {field} : written'[f] = written[f]
  BY <1>1 DEF JsonTyped
<1>5. JsonTyped'
  BY <1>1, <1>3, <1>4, SMT DEF JsonTyped
<1>6. Escaping'
  <2>1. written'[field] <= 2 * n' /\ n' <= Len(texts[field])
    BY <1>1, <1>2, <1>3, <1>4, SMT DEF Escaping, JsonTyped
  <2>2. written'[field] < BufferOf(field) - 2 /\ written'[field] <= 2 * TextMax(field)
    BY <1>1, <1>3, <1>4, <2>1, Limits, SMT DEF JsonTyped, MoreChars
  <2>3. field \notin Pending
    BY DEF Pending
  <2>4. Pending' = Pending
    BY DEF Pending
  <2>5. QED
    BY <1>1, <1>4, <2>1, <2>2, <2>3, <2>4 DEF Escaping
<1>7. Formatted'
  BY DEF Formatted
<1>8. QED
  BY <1>5, <1>6, <1>7

LEMMA DoneJson == JsonInv /\ EscapeDone => JsonInv'
<1> SUFFICES ASSUME JsonInv, EscapeDone PROVE JsonInv'
  OBVIOUS
<1> USE DEF JsonInv, EscapeDone
<1>1. field = "uas" \/ field = "desc" \/ field = "op" \/ field = "id"
  BY DEF FieldNames
<1>2. field' \in {"desc", "op", "line", "compact"}
  BY <1>1 DEF After
<1>3. JsonTyped'
  BY <1>2 DEF JsonTyped, FieldNames
<1>4. Pending' \subseteq Pending /\ (field' \in FieldNames => field' \in Pending)
  BY <1>1 DEF After, Pending, FieldNames
<1>5. Escaping'
  <2>1. \A f \in FieldNames :
          /\ written'[f] < BufferOf(f) - 2 /\ written'[f] <= 2 * TextMax(f)
          /\ f \in Pending' => written'[f] = 0
    BY <1>4 DEF Escaping
  <2>2. ASSUME field' \in FieldNames
        PROVE  written'[field'] <= 2 * n' /\ n' <= Len(texts'[field'])
    <3>1. written'[field'] = 0 /\ n' = 0
      BY <2>2, <1>4 DEF Escaping
    <3>2. texts' \in Texts /\ texts' = texts
      BY DEF JsonTyped
    <3>3. Len(texts[field']) \in Nat
      BY <2>2, <3>2, TextLength
    <3>4. QED
      BY <3>1, <3>2, <3>3, SMT
  <2>3. QED
    BY <2>1, <2>2 DEF Escaping
<1>6. Formatted'
  BY DEF Formatted
<1>7. QED
  BY <1>3, <1>5, <1>6

LEMMA LineJson == JsonInv /\ FormatLine => JsonInv'
<1> SUFFICES ASSUME JsonInv, FormatLine PROVE JsonInv'
  OBVIOUS
<1> USE DEF JsonInv, FormatLine
<1>1. PICK w \in LineNums :
        line' = LineKeys + w + written["uas"] + written["desc"] + written["op"]
  OBVIOUS
<1>2. w \in 0 .. LineNumMax
  BY JsonAssumption
<1>3. /\ written["uas"] \in Nat /\ written["uas"] <= 40
      /\ written["desc"] \in Nat /\ written["desc"] <= 46
      /\ written["op"] \in Nat /\ written["op"] <= 38
  <2>1. "uas" \in FieldNames /\ "desc" \in FieldNames /\ "op" \in FieldNames
    BY DEF FieldNames
  <2>2. TextMax("uas") = 20 /\ TextMax("desc") = 23 /\ TextMax("op") = 19
    BY <2>1, Limits
  <2>3. QED
    BY <2>1, <2>2, SMT DEF Escaping, JsonTyped
<1>4. line' \in Nat /\ line' < LineMax
  BY <1>1, <1>2, <1>3, SMT DEF LineKeys, LineNumMax, LineMax
<1>5. field' \in {"id", "compact"} /\ n' = 0
  OBVIOUS
<1>6. JsonTyped'
  BY <1>4, <1>5 DEF JsonTyped, FieldNames
<1>7. Escaping'
  <2>1. Pending' = {} /\ written["id"] = 0
    BY <1>5 DEF Pending, Escaping, FieldNames
  <2>2. "id" \in FieldNames /\ texts' = texts /\ texts \in Texts
    BY DEF FieldNames, JsonTyped
  <2>3. Len(texts["id"]) \in Nat
    BY <2>2, TextLength
  <2>4. ASSUME field' \in FieldNames
        PROVE  written'[field'] <= 2 * n' /\ n' <= Len(texts'[field'])
    <3>1. field' = "id"
      BY <1>5, <2>4 DEF FieldNames
    <3>2. QED
      BY <1>5, <2>1, <2>2, <2>3, <3>1, SMT
  <2>5. QED
    BY <2>1, <2>4 DEF Escaping
<1>8. Formatted'
  BY <1>4 DEF Formatted
<1>9. QED
  BY <1>6, <1>7, <1>8

LEMMA CompactJson == JsonInv /\ FormatCompact => JsonInv'
<1> SUFFICES ASSUME JsonInv, FormatCompact PROVE JsonInv'
  OBVIOUS
<1> USE DEF JsonInv, FormatCompact
<1>1. PICK w \in Nums :
        compact' = CompactKeys + w + (IF hasId THEN IdKeys + written["id"] ELSE 0)
                     + (IF hasSystem THEN SystemKeys + SystemNumMax ELSE 0)
  OBVIOUS
<1>2. w \in 0 .. CompactNumMax
  BY JsonAssumption
<1>3. written["id"] \in Nat /\ written["id"] < 30
  <2>1. "id" \in FieldNames /\ BufferOf("id") = 32
    BY Limits DEF FieldNames
  <2>2. QED
    BY <2>1, SMT DEF Escaping, JsonTyped
<1>4. compact' \in Nat /\ compact' <= DetJsonMax
  BY <1>1, <1>2, <1>3, SMT
  DEF CompactKeys, IdKeys, SystemKeys, SystemNumMax, CompactNumMax, DetJsonMax
<1>5. JsonTyped'
  BY <1>4 DEF JsonTyped
<1>6. Escaping'
  <2>1. Pending' = {} /\ field' \notin FieldNames
    BY DEF Pending, FieldNames
  <2>2. QED
    BY <2>1 DEF Escaping
<1>7. Formatted'
  BY <1>4 DEF Formatted
<1>8. QED
  BY <1>5, <1>6, <1>7

LEMMA StutterJson == JsonInv /\ UNCHANGED jsonVars => JsonInv'
BY DEF JsonInv, jsonVars, JsonTyped, Escaping, Formatted, Pending

(* Whatever a drone writes into its texts, nothing is written past a buffer,  *)
(* and both JSON texts leave the node whole.                                *)
THEOREM JsonWhole == JsonSpec => []JsonFits
<1>1. JsonInv /\ [JsonNext]_jsonVars => JsonInv'
  BY CharJson, DoneJson, LineJson, CompactJson, StutterJson DEF JsonNext
<1>2. JsonInv => JsonFits
  <2> SUFFICES ASSUME JsonInv PROVE JsonFits
    OBVIOUS
  <2>1. \A f \in FieldNames : written[f] < BufferOf(f)
    BY Limits, SMT DEF JsonInv, Escaping, JsonTyped
  <2>2. compact < CompactMax
    BY SMT DEF JsonInv, Formatted, JsonTyped, CompactMax, DetJsonMax
  <2>3. QED
    BY <2>1, <2>2 DEF JsonInv, Formatted, JsonFits
<1>3. QED
  BY <1>1, <1>2, InitJson, PTL DEF JsonSpec

------------------------------------------------------------------------------
(***************************************************************************)
(* The reject list for any pairs, capacity and life of an entry, as long   *)
(* as the tick counter does not come round: what ListInv                   *)
(* (RelayPolicy_proofs) says of a list holds after any uses of it.         *)
(***************************************************************************)

Kept == ListInv(list, now, age, spent) /\ spent <= Horizon

LEMMA PairsAre ==
  /\ Pairs = RejectPairs
  /\ \A t \in Nat : UpTo(t) = AgeUpTo(t)
BY DEF Pairs, RejectPairs, UpTo, AgeUpTo, Expired

LEMMA ListInit == InitList => Kept
<1> SUFFICES ASSUME InitList PROVE Kept
  OBVIOUS
<1>1. age = [pair \in RejectPairs |-> RejectTtl + 1]
  BY PairsAre DEF InitList, Expired
<1> QED BY <1>1, ListStarts, ListAssumption DEF InitList, Kept

LEMMA ListWait ==
  ASSUME Kept, Horizon < TickMod, NEW k \in 1 .. MaxWait, Wait(k)
  PROVE  Kept'
<1>1. /\ k \in Nat /\ spent + k <= Horizon /\ spent' = spent + k
      /\ now' = Later(now, k) /\ list' = list /\ spent \in Nat
  BY ListAssumption DEF Wait, Kept, ListInv, ListTyped
<1>2. \A pair \in RejectPairs : age[pair] + k \in Nat
  BY <1>1 DEF Kept, ListInv, ListTyped
<1>3. age' = [pair \in RejectPairs |-> AgeUpTo(age[pair] + k)]
  BY <1>2, PairsAre DEF Wait
<1>4. spent + k < TickMod
  BY <1>1, ListAssumption, TickAssumption
<1>5. ListInv(list, Later(now, k), age', spent + k)
  BY <1>1, <1>3, <1>4, ListWaits DEF Kept
<1> QED BY <1>1, <1>5 DEF Kept

LEMMA ListAdd ==
  ASSUME Kept, NEW pair \in Pairs, Add(pair)
  PROVE  Kept'
<1>1. ListInv(RejectAdd(list, pair[1], pair[2], now), now, [age EXCEPT ![pair] = 0], spent)
  BY PairsAre, ListAdds DEF Kept
<1> QED BY <1>1 DEF Add, Kept

LEMMA ListAlways ==
  ASSUME Horizon < TickMod
  PROVE  SpecList => []Kept
<1>1. Kept /\ [NextList]_listVars => Kept'
  <2> SUFFICES ASSUME Kept, [NextList]_listVars PROVE Kept'
    OBVIOUS
  <2>1. CASE UNCHANGED listVars
    BY <2>1 DEF listVars, Kept
  <2> QED BY <2>1, ListAdd, ListWait DEF NextList
<1> QED BY <1>1, ListInit, PTL DEF SpecList

(* Nothing is refused that was not added within the life of an entry.       *)
THEOREM OnlyAddedRefused ==
  ASSUME Horizon < TickMod
  PROVE  SpecList => []RefusedWasAdded
<1>1. Kept => RefusedWasAdded
  BY PairsAre, RefusedListed DEF RefusedWasAdded, Refused, Kept
<1> QED BY <1>1, ListAlways, PTL

(* A pair never takes two entries, so the list holds as many as it can.     *)
THEOREM PairsSingle ==
  ASSUME Horizon < TickMod
  PROVE  SpecList => []OneEntryPerPair
<1>1. Kept => OneEntryPerPair
  BY DEF Kept, ListInv, OneEach, OneEntryPerPair, EntryMatches, EntryUsed, EntryPair
<1> QED BY <1>1, ListAlways, PTL

(* The pairs added last are refused, as many as the list has entries.       *)
THEOREM LatestHeld ==
  ASSUME Horizon < TickMod, IsFiniteSet(UasIds)
  PROVE  SpecList => []LatestRefused
<1>1. ASSUME Kept PROVE LatestRefused
  <2> SUFFICES ASSUME NEW pair \in Pairs, age[pair] <= RejectTtl, ~Refused(pair)
               PROVE  ~(Cardinality({q \in Pairs : age[q] <= age[pair]}) <= RejectSlots)
    BY DEF LatestRefused
  <2>1. ~Listed(list, pair)
    BY <1>1, PairsAre, RefusedListed DEF Refused, Kept
  <2>2. /\ IsFiniteSet({q \in Pairs : age[q] <= age[pair]})
        /\ Cardinality({q \in Pairs : age[q] <= age[pair]}) > RejectSlots
    BY <1>1, <2>1, PairsAre, LatestListed DEF Kept
  <2>3. Cardinality({q \in Pairs : age[q] <= age[pair]}) \in Nat
    BY <2>2, FS_CardinalityType
  <2> QED BY <2>2, <2>3, RejectAssumption
<1> QED BY <1>1, ListAlways, PTL

------------------------------------------------------------------------------
(***************************************************************************)
(* The stored configuration, for any keys, serial numbers, forms and       *)
(* length of the blacklist.  Written says how far a save has come, Between *)
(* what NVS holds while a save that found it in order is under way.        *)
(***************************************************************************)

Entries == Serials \cup {NoSerial, Stub}

(* What is taken of a form's entries is a list of entries.                   *)
LEMMA NotBlankList ==
  ASSUME NEW e \in [1 .. BlMax -> Entries]
  PROVE  NotBlank(e) \in Seq(Entries) /\ Len(NotBlank(e)) <= BlMax
<1> DEFINE IsRun(g, m) ==
             g = [j \in 0 .. m |-> IF j = 0 THEN <<>>
                                   ELSE IF e[j] = NoSerial THEN g[j - 1]
                                   ELSE Append(g[j - 1], e[j])]
           S == {m \in Nat : \E g : IsRun(g, m)}
           taken == CHOOSE g : IsRun(g, BlMax)
           T == {m \in Nat : m <= BlMax =>
                              taken[m] \in Seq(Entries) /\ Len(taken[m]) <= m}
<1>1. BlMax \in Nat
  BY ConfigAssumption
<1>2. IsRun([j \in 0 .. 0 |-> <<>>], 0)
  OBVIOUS
<1>3. ASSUME NEW g, NEW m \in Nat, IsRun(g, m), NEW j \in 0 .. m
      PROVE  g[j] = IF j = 0 THEN <<>>
                    ELSE IF e[j] = NoSerial THEN g[j - 1] ELSE Append(g[j - 1], e[j])
  <2> DEFINE F(k) == IF k = 0 THEN <<>>
                     ELSE IF e[k] = NoSerial THEN g[k - 1] ELSE Append(g[k - 1], e[k])
  <2>1. g = [k \in 0 .. m |-> F(k)]
    BY <1>3
  <2> HIDE DEF F
  <2>2. g[j] = F(j)
    BY <2>1
  <2> QED BY <2>2 DEF F
<1>4. ASSUME NEW m \in Nat, NEW g, IsRun(g, m)
      PROVE  \E h : IsRun(h, m + 1)
  <2> DEFINE h == [j \in 0 .. m + 1 |->
                     IF j <= m THEN g[j]
                     ELSE IF e[j] = NoSerial THEN g[m] ELSE Append(g[m], e[j])]
  <2>1. \A j \in 0 .. m : h[j] = g[j]
    OBVIOUS
  <2>2. ASSUME NEW j \in 0 .. m + 1
        PROVE  h[j] = IF j = 0 THEN <<>>
                      ELSE IF e[j] = NoSerial THEN h[j - 1] ELSE Append(h[j - 1], e[j])
    <3>1. CASE j = m + 1
      <4>1. j # 0 /\ ~(j <= m) /\ j - 1 = m /\ h[m] = g[m]
        BY <3>1, <2>1
      <4> QED BY <4>1
    <3>2. CASE j <= m
      <4>1. g[j] = IF j = 0 THEN <<>>
                   ELSE IF e[j] = NoSerial THEN g[j - 1] ELSE Append(g[j - 1], e[j])
        <5> HIDE DEF IsRun
        <5> QED BY <1>4, <1>3, <3>2
      <4>2. j # 0 => h[j - 1] = g[j - 1]
        BY <2>1, <3>2
      <4> QED BY <4>1, <4>2, <3>2, <2>1
    <3> QED BY <3>1, <3>2
  <2>3. IsRun(h, m + 1)
    BY <2>2
  <2> QED BY <2>3
<1>5. BlMax \in S
  <2>1. 0 \in S
    BY <1>2
  <2>2. \A m \in S : m + 1 \in S
    <3> HIDE DEF IsRun
    <3> QED BY <1>4
  <2> HIDE DEF S
  <2>3. S \in SUBSET Nat
    BY DEF S
  <2> QED BY <1>1, <2>1, <2>2, <2>3, SetInduction
<1>6. IsRun(taken, BlMax)
  <2>1. \E g : IsRun(g, BlMax)
    BY <1>5
  <2> HIDE DEF IsRun
  <2> QED BY <2>1
<1>7. /\ taken[0] = <<>>
      /\ \A j \in 1 .. BlMax : taken[j] = IF e[j] = NoSerial THEN taken[j - 1]
                                          ELSE Append(taken[j - 1], e[j])
  <2> HIDE DEF taken, IsRun
  <2> QED BY <1>1, <1>6, <1>3
<1>8. BlMax \in T
  <2> HIDE DEF taken
  <2>1. 0 \in T
    <3>1. <<>> \in Seq(Entries) /\ Len(<<>>) <= 0
      OBVIOUS
    <3>2. taken[0] \in Seq(Entries) /\ Len(taken[0]) <= 0
      BY <1>7, <3>1, Zenon
    <3> QED BY <3>2
  <2>2. ASSUME NEW m \in T PROVE m + 1 \in T
    <3>1. CASE m + 1 <= BlMax
      <4>1. /\ taken[m] \in Seq(Entries) /\ Len(taken[m]) <= m /\ m \in Nat
            /\ e[m + 1] \in Entries
        BY <3>1, <1>1
      <4>2. taken[m + 1] = IF e[m + 1] = NoSerial THEN taken[m]
                           ELSE Append(taken[m], e[m + 1])
        BY <1>1, <1>7, <3>1
      <4>3. m + 1 \in Nat
        BY <4>1
      <4>4. /\ taken[m + 1] \in Seq(Entries)
            /\ Len(taken[m + 1]) <= m + 1
        BY <4>1, <4>2
      <4> QED BY <4>3, <4>4
    <3> QED BY <3>1
  <2> HIDE DEF T
  <2>3. T \in SUBSET Nat
    BY DEF T
  <2> QED BY <1>1, <2>1, <2>2, <2>3, SetInduction
<1>9. NotBlank(e) = taken[BlMax]
  BY DEF NotBlank
<1> QED BY <1>1, <1>8, <1>9

(* NVS holds the configuration c, and no entries beyond its list.            *)
Holds(held, c) ==
  /\ Or(held.mode, Defaults.mode) = c.mode /\ Or(held.ch, Defaults.ch) = c.ch
  /\ Or(held.key, NoKey) = c.key /\ Or(held.count, 0) = Len(c.list)
  /\ \A j \in 1 .. BlMax : held.bl[j] = IF j <= Len(c.list) THEN c.list[j] ELSE Absent

(* The writes before s have been made. *)
Written(s) ==
  /\ s > 1 => nvs.mode = config.mode
  /\ s > 2 => nvs.ch = config.ch
  /\ s > 3 => nvs.count = Len(config.list)
  /\ \A j \in 1 .. BlMax : s > j + 3 =>
       nvs.bl[j] = IF j <= Len(config.list) THEN config.list[j] ELSE Absent

Between ==
  /\ before \in Config /\ Len(before.list) <= BlMax
  /\ Or(nvs.mode, Defaults.mode) \in {before.mode, config.mode}
  /\ Or(nvs.ch, Defaults.ch) \in {before.ch, config.ch}
  /\ Or(nvs.key, NoKey) \in {before.key, config.key}
  /\ Or(nvs.count, 0) \in {Len(before.list), Len(config.list)}
  /\ \A j \in 1 .. BlMax :
       nvs.bl[j] # Absent => \E l \in {before.list, config.list} :
                               j \in DOMAIN l /\ nvs.bl[j] = l[j]

(* No entries are left beyond the list. *)
NothingLeft(held) == \A j \in 1 .. BlMax : held.bl[j] # Absent => j <= Or(held.count, 0)

(* Memory has no key that NVS has only for one of two reasons.               *)
KeyAccounted == HasKey(nvs.key) /\ ~HasKey(config.key) => keyless # "nothing"

ConfigInv ==
  /\ ConfigTypeOK
  /\ step # 0 => ~settled /\ unread = {}
  /\ settled => NothingLeft(nvs) /\ config = Load(nvs, unread)
  /\ step # 0 /\ ~failed => Written(step)
  /\ before # Absent => Between
  /\ KeyAccounted

LEMMA AbsentIsNone ==
  /\ Absent \notin Nat /\ Absent \notin Entries /\ Absent \notin StoredKeys
  /\ \A v, d : v # Absent => Or(v, d) = v
  /\ BlMax \in Nat \ {0}
BY ConfigAssumption DEF Entries, Or

LEMMA LoadTyped ==
  ASSUME NEW held \in Nvs, NEW missed
  PROVE  /\ Load(held, missed) \in Config /\ Len(Load(held, missed).list) <= BlMax
         /\ Len(Load(held, missed).list) = Or(Got(missed, 3, held.count), 0)
<1> DEFINE c == Or(Got(missed, 3, held.count), 0)
           entry(j) == Or(Got(missed, j + 3, held.bl[j]), NoSerial)
<1>1. c \in 0 .. BlMax
  BY AbsentIsNone DEF Nvs, Or, Got
<1>2. ASSUME NEW j \in 1 .. c PROVE entry(j) \in Entries
  BY <1>1, <1>2, AbsentIsNone DEF Nvs, Or, Got, Entries
<1>3. [j \in 1 .. c |-> entry(j)] \in Seq(Entries)
  BY <1>1, <1>2
<1>4. /\ Or(Got(missed, 1, held.mode), Defaults.mode) \in Modes
      /\ Or(Got(missed, 2, held.ch), Defaults.ch) \in Channels
      /\ Or(Got(missed, LastStep, held.key), NoKey) \in StoredKeys
  BY DEF Nvs, Or, Got, Defaults, Modes, Channels, StoredKeys
<1>5. Len([j \in 1 .. c |-> entry(j)]) = c
  BY <1>1
<1> QED BY <1>1, <1>3, <1>4, <1>5 DEF Load, Config, Entries

(* What is all read is what the last complete save wrote.                    *)
LEMMA LoadHeld ==
  ASSUME NEW held \in Nvs, NEW c \in Config, Len(c.list) <= BlMax, Holds(held, c)
  PROVE  Load(held, {}) = c
<1>1. c.list \in Seq(Entries) /\ Len(c.list) \in Nat
  BY DEF Config, Entries
<1>2. \A j \in 1 .. Len(c.list) : Or(held.bl[j], NoSerial) = c.list[j]
  BY <1>1, AbsentIsNone DEF Holds
<1>3. [j \in 1 .. Len(c.list) |-> Or(held.bl[j], NoSerial)] = c.list
  BY <1>1, <1>2
<1>4. \A k, v : Got({}, k, v) = v
  BY DEF Got
<1> QED BY <1>3, <1>4 DEF Load, Holds, Config

LEMMA HeldLeavesNothing ==
  ASSUME NEW held, NEW c, Holds(held, c)
  PROVE  NothingLeft(held)
BY DEF Holds, NothingLeft

(* Without a save NVS is the mixture of itself with anything.                *)
LEMMA LoadedIsBetween ==
  ASSUME NEW held \in Nvs, NothingLeft(held)
  PROVE  LET c == Load(held, {})
         IN  /\ c \in Config /\ Len(c.list) <= BlMax
             /\ c.mode = Or(held.mode, Defaults.mode) /\ c.ch = Or(held.ch, Defaults.ch)
             /\ c.key = Or(held.key, NoKey) /\ Len(c.list) = Or(held.count, 0)
             /\ \A j \in 1 .. BlMax : held.bl[j] # Absent =>
                  j \in DOMAIN c.list /\ held.bl[j] = c.list[j]
<1> DEFINE c == Load(held, {})
<1>1. \A k, v : Got({}, k, v) = v
  BY DEF Got
<1>2. c \in Config /\ Len(c.list) <= BlMax /\ Len(c.list) = Or(held.count, 0)
  BY <1>1, LoadTyped
<1>3. /\ c.mode = Or(held.mode, Defaults.mode) /\ c.ch = Or(held.ch, Defaults.ch)
      /\ c.key = Or(held.key, NoKey)
      /\ c.list = [j \in 1 .. Or(held.count, 0) |-> Or(held.bl[j], NoSerial)]
  BY <1>1 DEF Load
<1>4. Or(held.count, 0) \in 0 .. BlMax
  BY AbsentIsNone DEF Nvs, Or
<1>5. ASSUME NEW j \in 1 .. BlMax, held.bl[j] # Absent
      PROVE  j \in DOMAIN c.list /\ held.bl[j] = c.list[j]
  <2>1. j \in 1 .. Or(held.count, 0)
    BY <1>4, <1>5 DEF NothingLeft
  <2> QED BY <1>3, <1>5, <2>1 DEF Or
<1> QED BY <1>2, <1>3, <1>5

LEMMA InitStored == InitConfig => ConfigInv
<1> SUFFICES ASSUME InitConfig PROVE ConfigInv
  OBVIOUS
<1>1. Defaults \in Config /\ Defaults.list = <<>> /\ Len(Defaults.list) = 0
  BY DEF Defaults, Config, Modes, Channels, StoredKeys
<1>2. Erased \in Nvs
  BY DEF Erased, Nvs
<1>3. 0 \in 0 .. LastStep
  BY AbsentIsNone DEF LastStep
<1>4. ConfigTypeOK
  <2> HIDE DEF LastStep
  <2>1. Len(config.list) <= BlMax
    BY <1>1, AbsentIsNone DEF InitConfig
  <2> QED BY <1>1, <1>2, <1>3, <2>1 DEF InitConfig, ConfigTypeOK
<1>5. Holds(nvs, Defaults)
  BY <1>1, AbsentIsNone DEF InitConfig, Erased, Holds, Or, Defaults
<1>6. NothingLeft(nvs) /\ config = Load(nvs, unread)
  BY <1>1, <1>2, <1>4, <1>5, LoadHeld, HeldLeavesNothing DEF InitConfig, ConfigTypeOK
<1>7. KeyAccounted
  BY DEF InitConfig, Erased, KeyAccounted, HasKey
<1> QED BY <1>4, <1>6, <1>7 DEF InitConfig, ConfigInv

(* A save begins with nothing written. *)
LEMMA BeginStored ==
  ASSUME ConfigInv, step = 0, config' \in Config, Len(config'.list) <= BlMax,
         BeginSave, UNCHANGED shown, keyless' \in {"nothing", "reset", "boot"},
         KeyAccounted'
  PROVE  ConfigInv'
<1>1. 1 \in 0 .. LastStep
  BY AbsentIsNone DEF LastStep
<1>2. ConfigTypeOK'
  BY <1>1 DEF ConfigInv, ConfigTypeOK, BeginSave
<1>3. Written(1)'
  BY AbsentIsNone DEF Written
<1>4. before' # Absent => Between'
  <2> SUFFICES ASSUME before' # Absent PROVE Between'
    OBVIOUS
  <2>1. NothingLeft(nvs) /\ nvs \in Nvs /\ before' = Load(nvs, {}) /\ nvs' = nvs
    BY DEF ConfigInv, ConfigTypeOK, BeginSave
  <2> QED BY <2>1, LoadedIsBetween DEF Between
<1> QED BY <1>3, <1>4, <1>2 DEF ConfigInv, BeginSave

(* What a form makes of the configuration is a configuration. *)
LEMMA FormStored == ConfigInv /\ (\E f \in Forms, got \in 0 .. FieldCount, cut \in BOOLEAN :
                                     SavePost(f, got, cut)) => ConfigInv'
<1> SUFFICES ASSUME ConfigInv, NEW f \in Forms, NEW got \in 0 .. FieldCount,
                    NEW cut \in BOOLEAN, SavePost(f, got, cut)
             PROVE  ConfigInv'
  OBVIOUS
<1>1. f \in Form /\ config \in Config /\ shown \in StoredKeys
  BY ConfigAssumption DEF ConfigInv, ConfigTypeOK, SavePost
<1>2. Mode(f, got, cut) \in Modes
  BY <1>1 DEF Mode, Form, Config, Modes
<1>3. Channel(f, got, cut) \in Channels
  BY <1>1 DEF Channel, Form, Config, Channels
<1>4. Key(f, got, cut) \in StoredKeys
  <2>1. \A k \in StoredKeys : Cut(k) \in StoredKeys
    BY DEF Cut, StoredKeys
  <2>2. f.new # NoKey => <<f.new, "whole">> \in StoredKeys /\ <<f.new, "cut">> \in StoredKeys
    BY <1>1 DEF Form, StoredKeys
  <2>3. config.key \in StoredKeys
    BY <1>1 DEF Config
  <2> QED BY <1>1, <2>1, <2>2, <2>3 DEF Key
<1>5. List(f, got, cut) \in Seq(Entries) /\ Len(List(f, got, cut)) <= BlMax
  <2> DEFINE e == [j \in 1 .. BlMax |->
                     CASE got >= j + 3 -> f.list[j]
                       [] got = j + 2 /\ cut /\ f.list[j] # NoSerial -> Stub
                       [] OTHER -> NoSerial]
  <2>1. \A j \in 1 .. BlMax : f.list[j] \in Entries
    BY <1>1 DEF Form, Entries
  <2>2. e \in [1 .. BlMax -> Entries]
    BY <2>1 DEF Entries
  <2>3. List(f, got, cut) = NotBlank(e)
    BY DEF List
  <2> HIDE DEF e
  <2> QED BY <2>2, <2>3, NotBlankList
<1>6. config' \in Config /\ Len(config'.list) <= BlMax
  BY <1>2, <1>3, <1>4, <1>5 DEF SavePost, Config, Entries
<1>7. nvs' = nvs /\ keyless \in {"nothing", "reset", "boot"}
  BY DEF SavePost, BeginSave, ConfigInv, ConfigTypeOK
<1>8. keyless' \in {"nothing", "reset", "boot"}
  BY <1>7 DEF SavePost
<1>9. ASSUME ~HasKey(config'.key) PROVE ~HasKey(config.key) /\ keyless' = keyless
  <2>1. ASSUME NEW k \in ApiKeys, NEW t \in {"whole", "cut"} PROVE HasKey(<<k, t>>)
    BY ConfigAssumption DEF HasKey, StoredKeys
  <2>2. ASSUME NEW k \in StoredKeys, k # NoKey PROVE HasKey(k) /\ HasKey(Cut(k))
    BY <2>1, <2>2, ConfigAssumption DEF StoredKeys, Cut, HasKey
  <2>3. f.new \in ApiKeys \cup {NoKey} /\ config'.key = Key(f, got, cut)
    BY <1>1 DEF SavePost, Form
  <2>4. config'.key = config.key
    BY <1>1, <1>9, <2>1, <2>2, <2>3 DEF Key
  <2> QED BY <1>9, <2>4 DEF SavePost
<1>10. KeyAccounted'
  BY <1>7, <1>9 DEF KeyAccounted, ConfigInv
<1> QED BY <1>6, <1>8, <1>10, BeginStored DEF SavePost

LEMMA FactoryStored == ConfigInv /\ Factory => ConfigInv'
<1>1. Defaults \in Config /\ Len(Defaults.list) <= BlMax
  BY AbsentIsNone DEF Defaults, Config, Modes, Channels, StoredKeys
<1> QED BY <1>1, BeginStored DEF Factory, KeyAccounted

(* A write that succeeds brings one key to its new value.                    *)
LEMMA StoreOne ==
  ASSUME ConfigInv, step # 0, NEW after, after = Store(step)
  PROVE  /\ after \in Nvs
         /\ after.mode = IF step = 1 THEN config.mode ELSE nvs.mode
         /\ after.ch = IF step = 2 THEN config.ch ELSE nvs.ch
         /\ after.count = IF step = 3 THEN Len(config.list) ELSE nvs.count
         /\ after.key = IF step = LastStep THEN config.key ELSE nvs.key
         /\ \A j \in 1 .. BlMax :
              after.bl[j] = IF step # j + 3 THEN nvs.bl[j]
                            ELSE IF j <= Len(config.list) THEN config.list[j] ELSE Absent
<1> DEFINE at == step - 3
<1>1. /\ step \in 1 .. BlMax + 4 /\ LastStep = BlMax + 4 /\ BlMax \in Nat \ {0}
      /\ nvs \in Nvs /\ config \in Config /\ Len(config.list) \in 0 .. BlMax
  BY AbsentIsNone DEF ConfigInv, ConfigTypeOK, LastStep, Config
<1>2. CASE step = 1
  <2>1. after = [nvs EXCEPT !.mode = config.mode]
    BY <1>1, <1>2 DEF Store
  <2> QED BY <1>1, <1>2, <2>1 DEF Nvs, Config
<1>3. CASE step = 2
  <2>1. after = [nvs EXCEPT !.ch = config.ch]
    BY <1>1, <1>3 DEF Store
  <2> QED BY <1>1, <1>3, <2>1 DEF Nvs, Config
<1>4. CASE step = 3
  <2>1. after = [nvs EXCEPT !.count = Len(config.list)]
    BY <1>1, <1>4 DEF Store
  <2> QED BY <1>1, <1>4, <2>1 DEF Nvs, Config
<1>5. CASE step \in 4 .. BlMax + 3
  <2> DEFINE value == IF at <= Len(config.list) THEN config.list[at] ELSE Absent
  <2>1. step # 1 /\ step # 2 /\ step # 3 /\ step # LastStep /\ at \in 1 .. BlMax
    BY <1>1, <1>5
  <2>2. after = [nvs EXCEPT !.bl[at] = value]
    BY <1>5, <1>1, <2>1 DEF Store, StoreList
  <2>3. value \in Serials \cup {NoSerial, Stub, Absent}
    BY <1>1, <2>1 DEF Config
  <2> HIDE DEF value
  <2>4. /\ after.bl = [nvs.bl EXCEPT ![at] = value]
        /\ after.mode = nvs.mode /\ after.ch = nvs.ch /\ after.count = nvs.count
        /\ after.key = nvs.key
    BY <1>1, <2>2 DEF Nvs
  <2>5. after \in Nvs
    BY <1>1, <2>1, <2>2, <2>3, <2>4 DEF Nvs
  <2>6. \A j \in 1 .. BlMax : after.bl[j] = IF step # j + 3 THEN nvs.bl[j] ELSE value
    BY <1>1, <2>1, <2>4 DEF Nvs
  <2>7. \A j \in 1 .. BlMax : step = j + 3 =>
          value = IF j <= Len(config.list) THEN config.list[j] ELSE Absent
    BY <1>1 DEF value
  <2> QED BY <2>1, <2>4, <2>5, <2>6, <2>7
<1>6. CASE step = LastStep
  <2>1. step # 1 /\ step # 2 /\ step # 3 /\ step \notin 4 .. BlMax + 3
    BY <1>1, <1>6
  <2>2. after = [nvs EXCEPT !.key = config.key]
    BY <1>1, <1>6, <2>1 DEF Store
  <2> QED BY <1>1, <1>6, <2>1, <2>2 DEF Nvs, Config
<1> QED BY <1>1, <1>2, <1>3, <1>4, <1>5, <1>6

LEMMA AdvanceStored == ConfigInv /\ (\E ok \in BOOLEAN : Advance(ok)) => ConfigInv'
<1> SUFFICES ASSUME ConfigInv, NEW ok \in BOOLEAN, Advance(ok)
             PROVE  ConfigInv'
  OBVIOUS
<1> DEFINE names == config.list
<1>1. /\ step \in 1 .. LastStep /\ LastStep = BlMax + 4 /\ BlMax \in Nat \ {0}
      /\ nvs \in Nvs /\ config \in Config /\ Len(names) \in 0 .. BlMax
      /\ names \in Seq(Entries) /\ DOMAIN names = 1 .. Len(names)
      /\ config' = config /\ shown' = shown /\ ~settled
      /\ unread = {} /\ unread' = unread /\ keyless' = keyless
  BY AbsentIsNone DEF ConfigInv, ConfigTypeOK, LastStep, Config, Advance, Entries
<1>2. step' \in 0 .. LastStep /\ failed' \in BOOLEAN /\ settled' \in BOOLEAN
  <2>1. step' = IF step = LastStep THEN 0 ELSE step + 1
    BY DEF Advance
  <2>2. failed' \in BOOLEAN /\ settled' \in BOOLEAN
    BY Zenon DEF ConfigInv, ConfigTypeOK, Advance
  <2> QED BY <1>1, <2>1, <2>2
<1>3. CASE ~ok
  <2>1. nvs' = nvs
    BY <1>3 DEF Advance
  <2>2. ConfigTypeOK'
    BY <1>1, <1>2, <2>1 DEF ConfigInv, ConfigTypeOK
  <2>3. before' # Absent => Between'
    BY <1>1, <2>1 DEF ConfigInv, Between, Advance
  <2>4. KeyAccounted'
    BY <1>1, <2>1 DEF ConfigInv, KeyAccounted
  <2> QED BY <1>1, <1>3, <2>2, <2>3, <2>4 DEF ConfigInv, Advance
<1>4. CASE ok
  <2>1. /\ nvs' \in Nvs
        /\ nvs'.mode = IF step = 1 THEN config.mode ELSE nvs.mode
        /\ nvs'.ch = IF step = 2 THEN config.ch ELSE nvs.ch
        /\ nvs'.count = IF step = 3 THEN Len(names) ELSE nvs.count
        /\ nvs'.key = IF step = LastStep THEN config.key ELSE nvs.key
        /\ \A j \in 1 .. BlMax :
             nvs'.bl[j] = IF step # j + 3 THEN nvs.bl[j]
                          ELSE IF j <= Len(names) THEN names[j] ELSE Absent
    <3>1. nvs' = Store(step)
      BY <1>4 DEF Advance
    <3> QED BY <1>1, <3>1, StoreOne
  <2>2. ConfigTypeOK'
    BY <1>1, <1>2, <2>1 DEF ConfigInv, ConfigTypeOK
  <2>3. config.mode # Absent /\ config.ch # Absent /\ config.key # Absent /\ Len(names) # Absent
    BY <1>1, AbsentIsNone DEF Config, Modes, Channels
  <2>4. /\ Or(nvs'.mode, Defaults.mode) \in {Or(nvs.mode, Defaults.mode), config.mode}
        /\ Or(nvs'.ch, Defaults.ch) \in {Or(nvs.ch, Defaults.ch), config.ch}
        /\ Or(nvs'.key, NoKey) \in {Or(nvs.key, NoKey), config.key}
        /\ Or(nvs'.count, 0) \in {Or(nvs.count, 0), Len(names)}
    BY <2>1, <2>3 DEF Or
  <2>5. ASSUME NEW j \in 1 .. BlMax
        PROVE  \/ nvs'.bl[j] \in {nvs.bl[j], Absent}
               \/ j \in DOMAIN names /\ nvs'.bl[j] = names[j]
    BY <1>1, <2>1
  <2>6. before' # Absent => Between'
    <3> SUFFICES ASSUME before' # Absent PROVE Between'
      OBVIOUS
    <3>1. before' = before /\ Between
      BY DEF ConfigInv, Advance
    <3> QED BY <1>1, <2>4, <2>5, <3>1 DEF Between
  <2>7. ~failed => /\ step > 0 => nvs'.mode = config.mode
                   /\ step > 1 => nvs'.ch = config.ch
                   /\ step > 2 => nvs'.count = Len(names)
                   /\ \A j \in 1 .. BlMax : step > j + 2 =>
                        nvs'.bl[j] = IF j <= Len(names) THEN names[j] ELSE Absent
    BY <1>1, <2>1 DEF ConfigInv, Written
  <2>10. KeyAccounted'
    <3>1. nvs'.key \in {nvs.key, config.key}
      BY <2>1
    <3> QED BY <1>1, <3>1 DEF ConfigInv, KeyAccounted
  <2>8. CASE step # LastStep
    <3>1. step' = step + 1 /\ (failed' <=> failed) /\ settled' = settled
      BY <1>4, <2>8 DEF Advance, ConfigInv, ConfigTypeOK
    <3>2. ~failed' => Written(step)'
      BY <1>1, <2>7, <3>1 DEF Written
    <3> QED BY <1>1, <2>2, <2>6, <2>10, <3>1, <3>2 DEF ConfigInv
  <2>9. CASE step = LastStep
    <3>1. step' = 0 /\ (settled' <=> ~failed)
      BY <1>4, <2>9 DEF Advance
    <3>2. ~failed => Holds(nvs', config)
      <4> SUFFICES ASSUME ~failed PROVE Holds(nvs', config)
        OBVIOUS
      <4>1. /\ nvs'.mode = config.mode /\ nvs'.ch = config.ch
            /\ nvs'.count = Len(names) /\ nvs'.key = config.key
        BY <1>1, <2>1, <2>7, <2>9
      <4>2. \A j \in 1 .. BlMax : nvs'.bl[j] = IF j <= Len(names) THEN names[j] ELSE Absent
        BY <1>1, <2>7, <2>9
      <4> QED BY <1>1, <2>3, <4>1, <4>2 DEF Holds, Or
    <3>3. ~failed => NothingLeft(nvs') /\ config = Load(nvs', {})
      BY <1>1, <2>1, <3>2, LoadHeld, HeldLeavesNothing DEF ConfigInv, ConfigTypeOK
    <3>4. settled' => NothingLeft(nvs') /\ config' = Load(nvs', unread')
      BY <1>1, <3>1, <3>3
    <3> QED BY <1>1, <2>2, <2>6, <2>10, <3>1, <3>4 DEF ConfigInv
  <2> QED BY <2>8, <2>9
<1> QED BY <1>4, <1>3

LEMMA OpenStored == ConfigInv /\ OpenFails => ConfigInv'
<1> SUFFICES ASSUME ConfigInv, OpenFails PROVE ConfigInv'
  OBVIOUS
<1>1. 0 \in 0 .. LastStep
  BY AbsentIsNone DEF LastStep
<1>2. ConfigTypeOK'
  BY <1>1 DEF OpenFails, ConfigInv, ConfigTypeOK
<1> QED BY <1>2 DEF OpenFails, ConfigInv, KeyAccounted

LEMMA RebootStored ==
  ASSUME ConfigInv, NEW missed \in Misses, Reboot(missed)
  PROVE  ConfigInv'
<1>1. 0 \in 0 .. LastStep /\ missed \subseteq Keys
  BY AbsentIsNone, ConfigAssumption DEF LastStep
<1>2. ConfigTypeOK'
  BY <1>1, LoadTyped DEF Reboot, ConfigInv, ConfigTypeOK
<1>3. settled' => NothingLeft(nvs') /\ config' = Load(nvs', unread')
  BY DEF Reboot, ConfigInv
<1>4. KeyAccounted'
  BY DEF Reboot, KeyAccounted, Load, Or, Got, HasKey
<1> QED BY <1>2, <1>3, <1>4 DEF Reboot, ConfigInv

LEMMA EraseStored == ConfigInv /\ RebootErased => ConfigInv'
<1> SUFFICES ASSUME ConfigInv, RebootErased PROVE ConfigInv'
  OBVIOUS
<1>1. 0 \in 0 .. LastStep
  BY AbsentIsNone DEF LastStep
<1>2. /\ Defaults \in Config /\ Defaults.list = <<>> /\ Len(Defaults.list) = 0
      /\ Erased \in Nvs
  BY DEF Defaults, Config, Modes, Channels, StoredKeys, Erased, Nvs
<1>3. ConfigTypeOK'
  <2>1. config' \in Config /\ Len(config'.list) <= BlMax /\ nvs' \in Nvs
    BY <1>2, AbsentIsNone DEF RebootErased
  <2> HIDE DEF LastStep
  <2> QED BY <1>1, <2>1 DEF RebootErased, ConfigInv, ConfigTypeOK
<1>4. Holds(Erased, Defaults)
  BY <1>2, AbsentIsNone DEF Erased, Holds, Or, Defaults
<1>5. NothingLeft(nvs') /\ config' = Load(nvs', unread')
  BY <1>2, <1>4, AbsentIsNone, LoadHeld, HeldLeavesNothing DEF RebootErased
<1>6. KeyAccounted'
  BY DEF RebootErased, Erased, KeyAccounted, HasKey
<1> QED BY <1>3, <1>5, <1>6 DEF RebootErased, ConfigInv

LEMMA ConfigStep == ConfigInv /\ [NextConfig]_configVars => ConfigInv'
<1> SUFFICES ASSUME ConfigInv, [NextConfig]_configVars PROVE ConfigInv'
  OBVIOUS
<1>1. CASE RootGet
  <2>1. config.key \in StoredKeys
    BY DEF ConfigInv, ConfigTypeOK, Config
  <2>2. ConfigTypeOK'
    BY <1>1, <2>1 DEF RootGet, ConfigInv, ConfigTypeOK
  <2> QED BY <1>1, <2>2 DEF RootGet, ConfigInv, Written, Between, KeyAccounted
<1>2. CASE UNCHANGED configVars
  BY <1>2 DEF configVars, ConfigInv, ConfigTypeOK, Written, Between, KeyAccounted
<1> QED BY <1>1, <1>2, FormStored, FactoryStored, AdvanceStored, OpenStored,
           RebootStored, EraseStored DEF NextConfig

LEMMA ConfigAlways == SpecConfig => []ConfigInv
BY InitStored, ConfigStep, PTL DEF SpecConfig

(* The stored configuration and the one in memory are always well formed,    *)
(* whatever part of a form arrived and wherever the power went.              *)
THEOREM ConfigTyped == SpecConfig => []ConfigTypeOK
<1>1. ConfigInv => ConfigTypeOK
  BY DEF ConfigInv
<1> QED BY <1>1, ConfigAlways, PTL

(* A save whose writes succeeded is found again, for any list and any keys,  *)
(* whatever earlier saves left behind, but for what a boot could not read.   *)
THEOREM SavedIsFound == SpecConfig => []RoundTrip
<1>1. ConfigInv => RoundTrip
  BY DEF ConfigInv, RoundTrip
<1> QED BY <1>1, ConfigAlways, PTL

(* A save cut off by a reboot leaves a mixture of two configurations, with   *)
(* the default for a key that reboot could not read.                        *)
THEOREM CutSaveMixes == SpecConfig => OnlyMixtures
<1>1. ASSUME NEW missed
      PROVE  ConfigInv /\ before # Absent /\ Reboot(missed)
               => Mixture(config', before, config, missed)
  <2> SUFFICES ASSUME ConfigInv, before # Absent, Reboot(missed)
               PROVE  Mixture(config', before, config, missed)
    OBVIOUS
  <2> DEFINE c == config'
             kept == Or(Got(missed, 3, nvs.count), 0)
  <2>1. /\ Between /\ nvs \in Nvs /\ config \in Config /\ Len(config.list) <= BlMax
        /\ c = Load(nvs, missed)
    BY DEF ConfigInv, ConfigTypeOK, Reboot
  <2>2. Len(before.list) \in 0 .. BlMax /\ Len(config.list) \in 0 .. BlMax
    BY <2>1, AbsentIsNone DEF Between, Config
  <2>3. /\ kept \in 0 .. BlMax
        /\ kept \in {Len(before.list), Len(config.list)}
                        \cup (IF 3 \in missed THEN {0} ELSE {})
    BY <2>1, <2>2, AbsentIsNone DEF Between, Or, Got
  <2>4. c.list = [j \in 1 .. kept |-> Or(Got(missed, j + 3, nvs.bl[j]), NoSerial)]
    BY <2>1 DEF Load
  <2>5. ASSUME NEW j \in 1 .. kept
        PROVE  \/ c.list[j] = NoSerial
               \/ \E l \in {before.list, config.list} : j \in DOMAIN l /\ c.list[j] = l[j]
    <3>1. j \in 1 .. BlMax /\ c.list[j] = Or(Got(missed, j + 3, nvs.bl[j]), NoSerial)
      BY <2>3, <2>4, AbsentIsNone
    <3> QED BY <2>1, <3>1 DEF Between, Or, Got
  <2>6. /\ c.mode \in {before.mode, config.mode}
                         \cup (IF 1 \in missed THEN {Defaults.mode} ELSE {})
        /\ c.ch \in {before.ch, config.ch}
                       \cup (IF 2 \in missed THEN {Defaults.ch} ELSE {})
        /\ c.key \in {before.key, config.key}
                        \cup (IF LastStep \in missed THEN {NoKey} ELSE {})
    BY <2>1 DEF Load, Between, Or, Got
  <2>7. Len(c.list) = kept
    BY <2>1, LoadTyped
  <2>8. DOMAIN c.list = 1 .. kept
    BY <2>4
  <2> HIDE DEF c, kept
  <2> QED BY <2>3, <2>5, <2>6, <2>7, <2>8 DEF Mixture, c
<1>2. ConfigInv => (before # Absent /\ Reboot(unread')
                      => Mixture(config', before, config, unread'))
  BY <1>1
<1> QED BY <1>2, ConfigAlways, PTL DEF SpecConfig, OnlyMixtures

(* No form, whole or in part, and no interrupted or failed save loses the    *)
(* API key from NVS, unless a boot could not read it or a reset took it.     *)
THEOREM KeyStays == SpecConfig => KeyKept
<1>1. ConfigInv /\ [NextConfig]_configVars =>
        (HasKey(nvs.key) /\ ~HasKey(nvs'.key)
           => RebootErased \/ keyless \in {"reset", "boot"})
  <2> SUFFICES ASSUME ConfigInv, [NextConfig]_configVars, HasKey(nvs.key),
                      ~HasKey(nvs'.key), ~RebootErased
               PROVE  keyless \in {"reset", "boot"}
    OBVIOUS
  <2>1. PICK ok \in BOOLEAN : Advance(ok)
    BY DEF NextConfig, SavePost, BeginSave, RootGet, Factory, OpenFails, Reboot, configVars
  <2>2. step # 0 /\ nvs' = Store(step)
    BY <2>1 DEF Advance
  <2>3. nvs'.key = IF step = LastStep THEN config.key ELSE nvs.key
    BY <2>2, StoreOne
  <2> QED BY <2>3 DEF ConfigInv, ConfigTypeOK, KeyAccounted
<1> QED BY <1>1, ConfigAlways, PTL DEF SpecConfig, KeyKept

------------------------------------------------------------------------------
(***************************************************************************)
(* The answers of the DNS server, for every datagram.  The loop over the   *)
(* labels keeps the end of the name that is left to read.                  *)
(***************************************************************************)

(* What NameFrom says of one offset, given what it says of later ones.        *)
EndAt(g, o) ==
  IF o >= Len(rest) THEN 0
  ELSE IF Rx(o) = 0 THEN o + 1
  ELSE IF Rx(o) >= 192 THEN IF o + 2 <= Len(rest) THEN o + 2 ELSE 0
  ELSE IF Rx(o) <= 63 THEN g[o + Rx(o) + 1] ELSE 0

LEMMA Datagram ==
  ASSUME query \in Queries
  PROVE  /\ rest \in Seq(0 .. 255) /\ Len(rest) \in Nat /\ Header + Len(rest) <= RxSize
         /\ \A o \in Nat : o < Len(rest) => Rx(o) \in 0 .. 255
<1>1. rest \in Seq(0 .. 255) /\ Header + Len(rest) <= RxSize
  BY DnsAssumption DEF Query, rest
<1>2. ASSUME NEW o \in Nat, o < Len(rest) PROVE rest[o + 1] \in 0 .. 255
  <2> DEFINE octets == 0 .. 255
  <2>1. rest \in Seq(octets) /\ o + 1 \in 1 .. Len(rest)
    BY <1>1, <1>2
  <2> HIDE DEF octets
  <2>2. rest[o + 1] \in octets
    BY <2>1
  <2> QED BY <2>2 DEF octets
<1> QED BY <1>1, <1>2 DEF Rx, Header, RxSize

(* The end of a name is that of the labels behind its first.                 *)
LEMMA NameUnfolds ==
  ASSUME query \in Queries
  PROVE  \A o \in 0 .. Len(rest) + 63 : NameFrom[o] = EndAt(NameFrom, o)
<1> DEFINE top == Len(rest) + 63
           Rear(k) == top - k .. top
           Fits(g, k) == \A o \in Rear(k) : g[o] = EndAt(g, o)
           S == {k \in Nat : k <= top => \E g \in [0 .. top -> Nat] : Fits(g, k)}
<1>1. /\ Len(rest) \in Nat /\ top \in Nat
      /\ \A o \in Nat : o < Len(rest) => Rx(o) \in 0 .. 255
  BY Datagram
<1>2. 0 \in S
  <2> DEFINE g == [o \in 0 .. top |-> 0]
  <2>1. Fits(g, 0)
    BY <1>1 DEF EndAt
  <2>2. g \in [0 .. top -> Nat]
    OBVIOUS
  <2> QED BY <2>1, <2>2
<1>3. ASSUME NEW k \in S PROVE k + 1 \in S
  <2> SUFFICES ASSUME k + 1 <= top PROVE \E g \in [0 .. top -> Nat] : Fits(g, k + 1)
    OBVIOUS
  <2>1. PICK g \in [0 .. top -> Nat] : Fits(g, k)
    BY <1>1
  <2> DEFINE at == top - (k + 1)
             h == [g EXCEPT ![at] = EndAt(g, at)]
  <2>2. k \in Nat /\ at \in 0 .. top /\ Rear(k + 1) = Rear(k) \cup {at}
    BY <1>1
  <2>3. ASSUME NEW o \in 0 .. top, o < Len(rest), Rx(o) <= 63
        PROVE  o + Rx(o) + 1 \in 0 .. top /\ o + Rx(o) + 1 > o
    <3>1. Rx(o) \in 0 .. 255
      BY <1>1, <2>3
    <3>2. ASSUME NEW a \in Nat, NEW b \in Nat, NEW c \in 0 .. 255, a < b, c <= 63
          PROVE  a + c + 1 \in 0 .. b + 63 /\ a + c + 1 > a
      BY <3>2
    <3>3. Len(rest) \in Nat /\ o \in Nat
      BY <1>1
    <3> QED BY <2>3, <3>1, <3>2, <3>3
  <2>4. EndAt(g, at) \in Nat
    <3>1. at >= Len(rest) \/ (at < Len(rest) /\ Rx(at) \in 0 .. 255)
      BY <1>1, <2>2
    <3>2. at < Len(rest) /\ Rx(at) <= 63 => g[at + Rx(at) + 1] \in Nat
      BY <2>2, <2>3
    <3> HIDE DEF at
    <3> QED BY <1>1, <2>2, <3>1, <3>2 DEF EndAt
  <2>5. ASSUME NEW o \in Rear(k + 1) PROVE EndAt(h, o) = EndAt(g, o)
    <3>1. o \in Nat /\ o >= at
      BY <2>2
    <3>2. o < Len(rest) /\ Rx(o) <= 63 => h[o + Rx(o) + 1] = g[o + Rx(o) + 1]
      <4>1. o \in 0 .. top
        BY <1>1, <2>2
      <4> QED BY <2>2, <2>3, <3>1, <4>1
    <3> HIDE DEF h
    <3> QED BY <3>2, <1>1, <3>1 DEF EndAt
  <2>6. \A o \in Rear(k) : h[o] = g[o] /\ o # at
    BY <1>1, <2>2
  <2>7. Fits(h, k + 1)
    BY <2>1, <2>2, <2>5, <2>6
  <2>8. h \in [0 .. top -> Nat]
    BY <2>2, <2>4
  <2> QED BY <2>7, <2>8
<1>4. \E g : g = [o \in 0 .. top |-> EndAt(g, o)]
  <2>1. S \in SUBSET Nat
    OBVIOUS
  <2>2. top \in S
    <3> HIDE DEF S
    <3> QED BY <1>1, <1>2, <1>3, <2>1, SetInduction
  <2>3. PICK g \in [0 .. top -> Nat] : Fits(g, top)
    BY <1>1, <2>2
  <2>4. g = [o \in 0 .. top |-> EndAt(g, o)]
    <3>1. Rear(top) = 0 .. top
      BY <1>1
    <3> QED BY <2>3, <3>1
  <2> QED BY <2>4
<1>5. NameFrom = [o \in 0 .. top |-> EndAt(NameFrom, o)]
  <2> DEFINE Is(g) == g = [o \in 0 .. top |-> EndAt(g, o)]
  <2>1. NameFrom = CHOOSE g : Is(g)
    BY DEF NameFrom, EndAt
  <2>2. \E g : Is(g)
    BY <1>4
  <2>3. Is(NameFrom)
    <3> HIDE DEF Is
    <3> QED BY <2>1, <2>2
  <2> QED BY <2>3
<1>6. ASSUME NEW o \in 0 .. top PROVE NameFrom[o] = EndAt(NameFrom, o)
  <2> DEFINE F(b) == EndAt(NameFrom, b)
  <2>1. NameFrom = [b \in 0 .. top |-> F(b)]
    BY <1>5
  <2> HIDE DEF F
  <2>2. NameFrom[o] = F(o)
    BY <2>1
  <2> QED BY <2>2 DEF F
<1> QED BY <1>6

(* A datagram whose first question is whole and not a response's.            *)
Complete ==
  /\ ~query.response /\ query.qd > 0 /\ Len(rest) >= 5
  /\ NameEnd > 0 /\ NameEnd + 4 <= Len(rest)

DnsInv ==
  /\ query \in Queries /\ offset \in Nat
  /\ dnsPc \in {"received", "ignored", "name", "question", "sent"}
  /\ dnsPc \in {"name", "question"} =>
       /\ ~query.response /\ query.qd > 0 /\ Len(rest) >= 5
  /\ dnsPc = "name" => offset <= Len(rest) + 63 /\ NameFrom[offset] = NameEnd
  /\ dnsPc = "question" => NameEnd = offset /\ offset > 0
  /\ DnsAnswers

(* What is said of a datagram stays true while it is looked at. *)
LEMMA SameDatagram ==
  ASSUME query' = query
  PROVE  /\ rest' = rest /\ NameFrom' = NameFrom /\ NameEnd' = NameEnd
         /\ \A o : Rx(o)' = Rx(o)
         /\ Complete' = Complete
BY DEF rest, Rx, NameFrom, NameEnd, Complete

LEMMA InitDns == DnsInit => DnsInv
<1> SUFFICES ASSUME DnsInit PROVE DnsInv
  OBVIOUS
<1> QED BY DEF DnsInit, DnsInv, DnsAnswers

LEMMA ReceiveDns == DnsInv /\ Receive => DnsInv'
<1> SUFFICES ASSUME DnsInv, Receive PROVE DnsInv'
  OBVIOUS
<1>1. query' = query /\ reply' = reply /\ query \in Query /\ Len(rest) \in Nat
  BY Datagram, DnsAssumption DEF DnsInv, Receive
<1>2. CASE dnsPc' = "ignored"
  <2>1. ~Complete
    BY <1>1, <1>2 DEF Receive, DnsIgnore, Complete, Query
  <2> QED BY <1>1, <1>2, <2>1, SameDatagram DEF DnsInv, DnsAnswers, Complete, Receive, DnsIgnore
<1>3. CASE dnsPc' = "name"
  <2>1. offset' = 0 /\ ~query.response /\ query.qd > 0 /\ Len(rest) >= 5
    BY <1>1, <1>3 DEF Receive, DnsIgnore, Query
  <2> QED BY <1>1, <1>3, <2>1, SameDatagram DEF DnsInv, DnsAnswers, NameEnd
<1> QED BY <1>2, <1>3 DEF Receive, DnsIgnore

LEMMA SkipDns == DnsInv /\ Skip => DnsInv'
<1> SUFFICES ASSUME DnsInv, Skip PROVE DnsInv'
  OBVIOUS
<1>1. /\ query' = query /\ reply' = reply /\ dnsPc = "name" /\ offset \in Nat
      /\ Len(rest) \in Nat /\ offset \in 0 .. Len(rest) + 63
  BY Datagram DEF DnsInv, Skip
<1>2. NameEnd = EndAt(NameFrom, offset)
  BY <1>1, NameUnfolds DEF DnsInv
<1>3. offset < Len(rest) => Rx(offset) \in 0 .. 255
  BY <1>1, Datagram DEF DnsInv
<1>4. \/ dnsPc' = "ignored" /\ offset' = offset /\ NameEnd = 0
      \/ dnsPc' = "question" /\ offset' = NameEnd /\ offset' \in Nat /\ offset' > 0
      \/ /\ offset < Len(rest) /\ Rx(offset) \in 0 .. 63
         /\ dnsPc' = "name" /\ offset' = offset + Rx(offset) + 1
         /\ NameEnd = NameFrom[offset']
  <2> DEFINE Pointer(c)  == c # 0 /\ c >= 192
             Reserved(c) == c # 0 /\ ~(c >= 192) /\ c > 63 /\ ~(c <= 63)
             Label(c)    == c # 0 /\ ~(c >= 192) /\ ~(c > 63) /\ c <= 63 /\ c \in 0 .. 63
  <2>1. CASE offset >= Len(rest)
    BY <1>2, <2>1 DEF Skip, DnsIgnore, EndAt
  <2>2. CASE offset < Len(rest) /\ Rx(offset) = 0
    <3>1. ~(offset >= Len(rest))
      BY <1>1, <2>2
    <3>2. offset' = offset + 1 /\ dnsPc' = "question" /\ NameEnd = offset + 1
      BY <1>2, <2>2, <3>1, Zenon DEF Skip, EndAt
    <3> QED BY <1>1, <3>2
  <2>3. CASE offset < Len(rest) /\ Pointer(Rx(offset))
    <3>1. ~(offset >= Len(rest)) /\ (offset + 1 >= Len(rest) <=> ~(offset + 2 <= Len(rest)))
      BY <1>1, <2>3
    <3>2. CASE offset + 2 <= Len(rest)
      <4>1. offset' = offset + 2 /\ dnsPc' = "question" /\ NameEnd = offset + 2
        BY <1>2, <2>3, <3>1, <3>2, Zenon DEF Skip, EndAt
      <4> QED BY <1>1, <4>1
    <3>3. CASE ~(offset + 2 <= Len(rest))
      BY <1>2, <2>3, <3>1, <3>3, Zenon DEF Skip, DnsIgnore, EndAt
    <3> QED BY <3>2, <3>3
  <2>4. CASE offset < Len(rest) /\ Reserved(Rx(offset))
    <3>1. ~(offset >= Len(rest))
      BY <1>1, <2>4
    <3> QED BY <1>2, <2>4, <3>1, Zenon DEF Skip, DnsIgnore, EndAt
  <2>5. CASE offset < Len(rest) /\ Label(Rx(offset))
    <3>1. ~(offset >= Len(rest))
      BY <1>1, <2>5
    <3>2. /\ offset' = offset + Rx(offset) + 1 /\ dnsPc' = dnsPc
          /\ NameEnd = NameFrom[offset + Rx(offset) + 1]
      BY <1>2, <2>5, <3>1, Zenon DEF Skip, EndAt
    <3> QED BY <1>1, <2>5, <3>2, Zenon
  <2>6. \A c \in 0 .. 255 : c = 0 \/ Pointer(c) \/ Reserved(c) \/ Label(c)
    OBVIOUS
  <2>7. offset >= Len(rest) \/ offset < Len(rest)
    BY <1>1
  <2> HIDE DEF Pointer, Reserved, Label
  <2> QED BY <1>3, <2>1, <2>2, <2>3, <2>4, <2>5, <2>6, <2>7, Zenon
<1>5. CASE dnsPc' = "ignored"
  <2>1. NameEnd = 0 /\ offset' = offset
    BY <1>5, <1>4
  <2> QED BY <1>1, <1>5, <2>1, SameDatagram DEF DnsInv, DnsAnswers
<1>6. CASE dnsPc' = "question"
  <2>1. NameEnd = offset' /\ offset' \in Nat /\ offset' > 0
    BY <1>6, <1>4
  <2> QED BY <1>1, <1>6, <2>1, SameDatagram DEF DnsInv, DnsAnswers
<1>7. CASE dnsPc' = "name"
  <2>1. /\ offset < Len(rest) /\ Rx(offset) \in 0 .. 63 /\ offset' = offset + Rx(offset) + 1
        /\ NameEnd = NameFrom[offset']
    BY <1>7, <1>4
  <2>2. offset' \in Nat /\ offset' <= Len(rest) + 63
    <3>1. ASSUME NEW a \in Nat, NEW b \in Nat, NEW c \in 0 .. 63, a < b
          PROVE  a + c + 1 \in Nat /\ a + c + 1 <= b + 63
      BY <3>1
    <3> QED BY <1>1, <2>1, <3>1
  <2> QED BY <1>1, <1>7, <2>1, <2>2, SameDatagram DEF DnsInv, DnsAnswers
<1> QED BY <1>5, <1>6, <1>7, <1>4

LEMMA RespondDns == DnsInv /\ Respond => DnsInv'
<1> SUFFICES ASSUME DnsInv, Respond PROVE DnsInv'
  OBVIOUS
<1> DEFINE answers == IF QType = TypeA THEN 1 ELSE 0
           total == Header + offset + 4 + answers * Answer
<1>1. /\ query' = query /\ offset' = offset /\ offset \in Nat /\ dnsPc = "question"
      /\ Len(rest) \in Nat /\ Header + Len(rest) <= RxSize
  BY Datagram DEF DnsInv, Respond
<1>2. NameEnd = offset /\ offset > 0 /\ ~query.response /\ query.qd > 0 /\ Len(rest) >= 5
  BY <1>1 DEF DnsInv
<1>3. offset + 4 <= Len(rest) => total <= TxSize
  BY <1>1 DEF Header, RxSize, TxSize, Answer
<1>4. CASE offset + 4 > Len(rest)
  <2>1. dnsPc' = "ignored" /\ reply' = reply /\ ~Complete
    BY <1>1, <1>2, <1>4 DEF Respond, Complete
  <2> QED BY <1>1, <2>1, SameDatagram DEF DnsInv, DnsAnswers, Complete
<1>5. CASE offset + 4 <= Len(rest)
  <2>1. /\ dnsPc' = "sent"
        /\ reply' = [question |-> SubSeq(rest, 1, offset + 4), answers |-> answers,
                     bytes |-> total]
    <3>1. ~(offset + 4 > Len(rest) \/ total > TxSize)
      BY <1>1, <1>3, <1>5 DEF TxSize, Header, Answer
    <3> QED BY <3>1, Zenon DEF Respond
  <2>2. Rx(offset) \in 0 .. 255 /\ Rx(offset + 1) \in 0 .. 255
    <3>1. offset < Len(rest) /\ offset + 1 \in Nat /\ offset + 1 < Len(rest)
      BY <1>1, <1>5
    <3> QED BY <1>1, <3>1, Datagram DEF DnsInv
  <2>3. answers = IF Rx(offset) = 0 /\ Rx(offset + 1) = TypeA THEN 1 ELSE 0
    <3>1. ASSUME NEW a \in 0 .. 255, NEW b \in 0 .. 255
          PROVE  a * 256 + b = 1 <=> a = 0 /\ b = 1
      OBVIOUS
    <3>2. QType = TypeA <=> Rx(offset) = 0 /\ Rx(offset + 1) = TypeA
      BY <2>2, <3>1, Zenon DEF QType, TypeA
    <3> QED BY <3>2
  <2> HIDE DEF answers, total
  <2>4. /\ reply'.question = SubSeq(rest, 1, offset + 4)
        /\ reply'.answers = answers /\ reply'.bytes <= TxSize
    BY <1>3, <1>5, <2>1
  <2> QED BY <1>1, <1>2, <1>5, <2>1, <2>3, <2>4, SameDatagram DEF DnsInv, DnsAnswers
<1> QED BY <1>1, <1>4, <1>5

(* Every datagram is answered by its first question or not at all, however   *)
(* its names are cut into labels and wherever it ends.                      *)
THEOREM QueriesAnswered == DnsSpec => []DnsAnswers
<1>1. DnsInv /\ [DnsNext]_dnsVars => DnsInv'
  <2>1. DnsInv /\ UNCHANGED dnsVars => DnsInv'
    BY SameDatagram DEF dnsVars, DnsInv, DnsAnswers
  <2> QED BY <2>1, ReceiveDns, SkipDns, RespondDns DEF DnsNext
<1>2. DnsInv => DnsAnswers
  BY DEF DnsInv
<1> QED BY <1>1, <1>2, InitDns, PTL DEF DnsSpec
==============================================================================
