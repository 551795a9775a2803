-------------------------------- MODULE MCParts --------------------------------
(***************************************************************************)
(* Inputs for Parts: messages of three bytes instead of 25, lengths modulo  *)
(* 32 instead of 256.  Every frame also occurs cut after each of its bytes.*)
(***************************************************************************)
EXTENDS Parts

CONSTANTS d1, d2, k1, s1

MCMsgLen == 3
MCLenMod == 32

Prefixes(s) == {SubSeq(s, 1, k) : k \in 0 .. Len(s)}

MsgOf(t) == <<16 * t + 2, 65, 66>>

(* One Basic ID, two with a Location between them, an unknown type, no      *)
(* message at all.                                                          *)
MCMsgs == {MsgOf(0), MsgOf(0) \o MsgOf(1) \o MsgOf(0), MsgOf(2) \o MsgOf(4),
           MsgOf(9) \o MsgOf(1), <<>>}

(* With the right size and count, with another size, with more messages      *)
(* announced than sent; and a message without a Pack.                       *)
MCPacks ==
  UNION {{<<242, s, Len(m) \div 3>> \o m : s \in {0, 2, 3}} : m \in MCMsgs}
    \cup {<<242, 3, 3>> \o m : m \in MCMsgs} \cup {m : m \in MCMsgs \ {<<>>}}

(* Nothing in front, or the counter, which may look like a Pack.            *)
MCPayloads == {c \o m : c \in {<<>>, <<7>>, <<240>>}, m \in MCPacks}
                \cup {m \o <<1, 2>> : m \in MCPacks}

Astm(m) == <<221, 4 + Len(m), 250, 11, 188, 13>> \o m
Dji(m)  == <<221, 4 + Len(m), 38, 55, 18, 13>> \o m
Fixed   == [k \in 1 .. 12 |-> 0]
Other   == <<0, 2, 65, 65, 221, 5, 1, 2, 3, 4, 5>>

MCFrames ==
  UNION {[kind : {"beacon"}, body : Prefixes(Fixed \o Astm(m))] : m \in MCPayloads}
    \cup [kind : {"beacon"}, body : {Fixed \o Other \o Dji(m) \o Other : m \in MCPayloads}]
    \cup UNION {[kind : {"action", "other"},
                 body : Prefixes(<<4, 250, 11, 188, 13, 1>> \o m \o m)] : m \in MCPayloads}

(* Status and direction, speeds on both sides of the multiplier and of the   *)
(* cap; the other fields together at their ends and in between.             *)
MCHeard ==
  {[status |-> st, dir |-> d, speed |-> sp, vspeed |-> o.vspeed, alt |-> o.alt,
    acc |-> o.acc, timestamp |-> o.alt, radius |-> o.alt, class |-> o.acc] :
     st \in {0, 1, 33, 255}, d \in {0, 1, 180, 254, 255},
     sp \in {0, 84, 85, 86, 87, 254, 255},
     o \in {[vspeed |-> 0, alt |-> 0, acc |-> 0], [vspeed |-> 255, alt |-> 1999, acc |-> 26],
            [vspeed |-> 128, alt |-> 65535, acc |-> 255]}}

Text(c, k) == [j \in 1 .. k |-> c]

(* Uniform texts of every length up to the longest, and quotes before one     *)
(* control character.                                                       *)
MCTexts ==
  LET ids == {Text(c, k) : c \in Char, k \in {0, 19, 20}}
               \cup {Text("quote", k) \o <<"control">> : k \in 10 .. 14}
  IN  {[uas |-> u, desc |-> Text(c, k), op |-> Text(c, IF k > 19 THEN 19 ELSE k), id |-> u] :
         u \in ids, c \in Char, k \in {0, 10, 23}}

MCLineNums == {20, LineNumMax}
MCNums     == {15, CompactNumMax}

Question == {q \o <<0, y, 0, 1>> : q \in {<<1, 97, 0>>, <<2, 97, 98, 1, 97, 0>>, <<192, 12>>,
                                          <<1, 97, 192, 0>>, <<0>>, <<63, 97, 0>>, <<64, 0>>},
                                   y \in {1, 28}}

MCQueries ==
  [response : BOOLEAN, qd : 0 .. 2,
   rest : UNION {Prefixes(q) \cup {q \o <<0, 0, 1>>} : q \in Question}]

(* UART mode and channel 13, with and without a new key, and any list.      *)
MCForms == {f \in Form : f.mode = 1 /\ f.ch = 13}

(* No read fails, all of them as when nvs_open does, that of the length of  *)
(* the list, that of the API key.                                           *)
MCMisses == {{}, Keys, {3}, {LastStep}}
==============================================================================
