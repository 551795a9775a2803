------------------------------ MODULE CaptiveDns -----------------------------
(***************************************************************************)
(* The captive portal's DNS server, dns_server.c: one datagram at a time,  *)
(* it answers the first question of a query with the address of the node.  *)
(* A datagram is its length, the fields of the header the code looks at    *)
(* and the bytes behind the header.  A byte of a name is a length or a     *)
(* letter; the last two bytes of a question do not matter.                 *)
(***************************************************************************)
EXTENDS Integers, Sequences

CONSTANT Queries    \* datagrams that may arrive

RxSize == 512 \* sizeof(rx)
TxSize == 600 \* sizeof(tx)
Header == 12  \* sizeof(dns_header_t)
Answer == 16  \* sizeof(ans)
TypeA  == 1

Query == [response : BOOLEAN, qd : Nat, rest : Seq(0 .. 255)]
NoReply == [question |-> <<>>, answers |-> 0, bytes |-> 0]

ASSUME DnsAssumption ==
  \A q \in Queries : q \in Query /\ Header + Len(q.rest) <= RxSize

VARIABLES
  query,   \* rx
  dnsPc,   \* where dns_task is
  offset,  \* offset in dns_skip_qname, behind the header
  reply    \* what is sent: the question, the answers, its length

dnsVars == <<query, dnsPc, offset, reply>>

rest == query.rest
Rx(o) == rest[o + 1]

DnsInit ==
  /\ query \in Queries
  /\ dnsPc = "received" /\ offset = 0 /\ reply = NoReply

DnsIgnore == dnsPc' = "ignored" /\ UNCHANGED offset

(* Too short, without a question, or a response.                            *)
Receive ==
  /\ dnsPc = "received"
  /\ IF Len(rest) < 5 \/ query.qd < 1 \/ query.response THEN DnsIgnore
     ELSE dnsPc' = "name" /\ offset' = 0
  /\ UNCHANGED <<query, reply>>

(* Mutant: a compression pointer is one byte long.                          *)
SkipPointerShort ==
  /\ dnsPc = "name"
  /\ IF offset >= Len(rest) THEN DnsIgnore
     ELSE IF Rx(offset) = 0 \/ Rx(offset) >= 192
     THEN offset' = offset + 1 /\ dnsPc' = "question"
     ELSE IF Rx(offset) > 63 THEN DnsIgnore
     ELSE offset' = offset + Rx(offset) + 1 /\ UNCHANGED dnsPc
  /\ UNCHANGED <<query, reply>>

(* dns_skip_qname, label by label; a pointer ends the name.                 *)
Skip ==
  /\ dnsPc = "name"
  /\ IF offset >= Len(rest) THEN DnsIgnore
     ELSE IF Rx(offset) = 0 THEN offset' = offset + 1 /\ dnsPc' = "question"
     ELSE IF Rx(offset) >= 192
     THEN IF offset + 1 >= Len(rest) THEN DnsIgnore
          ELSE offset' = offset + 2 /\ dnsPc' = "question"
     ELSE IF Rx(offset) > 63 THEN DnsIgnore
     ELSE offset' = offset + Rx(offset) + 1 /\ UNCHANGED dnsPc
  /\ UNCHANGED <<query, reply>>

QType == Rx(offset) * 256 + Rx(offset + 1)

(* The header and the first question are sent back, with one answer if it   *)
(* asks for an address.                                                     *)
Respond ==
  LET answers == IF QType = TypeA THEN 1 ELSE 0
      total   == Header + offset + 4 + answers * Answer
  IN  /\ dnsPc = "question"
      /\ IF offset + 4 > Len(rest) \/ total > TxSize
         THEN dnsPc' = "ignored" /\ UNCHANGED reply
         ELSE /\ dnsPc' = "sent"
              /\ reply' = [question |-> SubSeq(rest, 1, offset + 4),
                           answers |-> answers, bytes |-> total]
      /\ UNCHANGED <<query, offset>>

DnsNext == Receive \/ Skip \/ Respond

DnsSpec == DnsInit /\ [][DnsNext]_dnsVars

------------------------------------------------------------------------------
(* Where names of labels end: the offset behind the name that starts at o, 0 *)
(* if there is none in the datagram.  A label of 63 may begin on the last    *)
(* byte.                                                                    *)
NameFrom ==
  LET f[o \in 0 .. Len(rest) + 63] ==
        IF o >= Len(rest) THEN 0
        ELSE IF Rx(o) = 0 THEN o + 1
        ELSE IF Rx(o) >= 192 THEN IF o + 2 <= Len(rest) THEN o + 2 ELSE 0
        ELSE IF Rx(o) <= 63 THEN f[o + Rx(o) + 1] ELSE 0
  IN  f

NameEnd == NameFrom[0]

(* A query with a complete first question gets that question back, and the   *)
(* address exactly if it asked for one; anything else gets no reply.  "We   *)
(* only answer the first question" (dns_task), so how many there are and    *)
(* what follows must not matter.                                            *)
DnsAnswers ==
  LET complete == /\ ~query.response /\ query.qd > 0 /\ Len(rest) >= 5
                  /\ NameEnd > 0 /\ NameEnd + 4 <= Len(rest)
      asked == Rx(NameEnd) = 0 /\ Rx(NameEnd + 1) = TypeA
  IN  /\ dnsPc = "ignored" => ~complete
      /\ dnsPc = "sent" =>
           /\ complete
           /\ reply.question = SubSeq(rest, 1, NameEnd + 4)
           /\ reply.answers = (IF asked THEN 1 ELSE 0)
           /\ reply.bytes <= TxSize
==============================================================================
