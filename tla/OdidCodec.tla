------------------------------- MODULE OdidCodec ------------------------------
(***************************************************************************)
(* What a Location and a System message say, and what the node says again: *)
(* parse_location and parse_system of odid_decoder.c, encode_location and  *)
(* encode_system of ble_relay.c.  A message is the bytes of its fields;    *)
(* decoded quantities are integers in the unit of one step: speed in       *)
(* 0.25 m/s, vertical speed, altitudes and height in 0.5 m.  In these units *)
(* the code's float arithmetic is exact.  One altitude stands for all,     *)
(* which are treated alike, and so does one byte of accuracies.            *)
(*                                                                         *)
(* Positions are left out: they go through a 32-bit float, which keeps     *)
(* them only to about a metre.                                             *)
(***************************************************************************)
EXTENDS Integers

CONSTANT Heard    \* messages that may be received

Octet  == 0 .. 255
Word   == 0 .. 65535

(* The bytes of a message; a word is its value.                             *)
Raw == [status : Octet, dir : Octet, speed : Octet, vspeed : Octet, alt : Word,
        acc : Octet, timestamp : Word, radius : Word, class : Octet]

ASSUME CodecAssumption == Heard \subseteq Raw

VARIABLES
  raw,       \* the message received
  fields,    \* what the detection holds after decoding it
  sent,      \* the message the node sends for it
  codecPc

codecVars == <<raw, fields, sent, codecPc>>

Hi(b) == b \div 16
Lo(b) == b % 16
Signed(b) == IF b < 128 THEN b ELSE b - 256

Decode(r) ==
  [status    |-> Hi(r.status),
   heading   |-> (r.dir \div 2 + (IF r.status % 2 = 1 THEN 180 ELSE 0)) % 360,
   speed     |-> IF r.dir % 2 = 1 THEN 3 * r.speed ELSE r.speed,
   vspeed    |-> Signed(r.vspeed),
   alt       |-> r.alt - 2000,
   horizAcc  |-> Hi(r.acc), vertAcc |-> Lo(r.acc),
   timestamp |-> r.timestamp,
   radius    |-> 10 * r.radius,
   category  |-> Hi(r.class), classValue |-> Lo(r.class)]

MaxSpeed == 254          \* the largest raw speed sent
MaxPlain == 255          \* 63.75 m/s: faster takes the multiplier

EncodedSpeed(s) == IF s > MaxSpeed THEN MaxSpeed ELSE s

(* Mutant: the multiplier's range starts where the plain one ends, "speed =  *)
(* raw * 0.75 + 63.75" as the comment in encode_location has it.            *)
FastSpeedOffset(s) == (s - MaxPlain) \div 3

FastSpeed(s) == s \div 3

Encode(f) ==
  LET fast == f.speed > MaxPlain
  IN  [status    |-> 16 * f.status + (IF f.heading >= 180 THEN 1 ELSE 0),
       dir       |-> 2 * (f.heading % 180) + (IF fast THEN 1 ELSE 0),
       speed     |-> EncodedSpeed(IF fast THEN FastSpeed(f.speed) ELSE f.speed),
       vspeed    |-> f.vspeed % 256,
       alt       |-> (f.alt + 2000) % 65536,
       acc       |-> 16 * f.horizAcc + f.vertAcc,
       timestamp |-> f.timestamp % 65536,
       radius    |-> (f.radius \div 10) % 65536,
       class     |-> 16 * f.category + f.classValue]

CodecInit ==
  /\ raw \in Heard
  /\ fields = Decode(raw)
  /\ sent = raw
  /\ codecPc = "decoded"

(* encode_pack, and advertise_odid of the single messages.                  *)
EncodeMessages ==
  /\ codecPc = "decoded"
  /\ sent' = Encode(fields)
  /\ codecPc' = "sent"
  /\ UNCHANGED <<raw, fields>>

CodecNext == EncodeMessages

CodecSpec == CodecInit /\ [][CodecNext]_codecVars

------------------------------------------------------------------------------
(* Speeds that the encoder cannot say and caps one step lower.              *)
Capped(s) == s = MaxPlain \/ s = 3 * 255

(* A message the node sends consists of bytes and says what the message it   *)
(* heard said: whoever decodes it, with the multiplier and the direction    *)
(* segment of the standard as parse_location has them, gets the same        *)
(* values.  Only the two largest raw speeds come out one step slower.       *)
RelayKeeps ==
  codecPc = "sent" =>
    /\ sent \in Raw
    /\ LET again == Decode(sent)
       IN  /\ ~Capped(fields.speed) => again = fields
           /\ Capped(fields.speed) =>
                /\ [again EXCEPT !.speed = 0] = [fields EXCEPT !.speed = 0]
                /\ again.speed \in fields.speed - 3 .. fields.speed - 1
==============================================================================
