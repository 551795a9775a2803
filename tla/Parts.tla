--------------------------------- MODULE Parts --------------------------------
(***************************************************************************)
(* The parts of the firmware that run to completion in one task and share  *)
(* no state with another: the parser of received frames, the decoder and   *)
(* encoder of messages, the JSON formats, the DNS server, the reject list  *)
(* and the stored configuration.  They are checked side by side, each      *)
(* behaviour following one.                                                *)
(***************************************************************************)
EXTENDS OdidParser, OdidCodec, JsonOutput, CaptiveDns, RejectList, ConfigStore

VARIABLE on    \* the part followed

partVars == <<parserVars, codecVars, jsonVars, dnsVars, listVars, configVars, on>>

(* The parts not followed start from one input, whatever it is.              *)
Followed(part, S) == IF on = part THEN S ELSE {CHOOSE x \in S : TRUE}

PartsInit ==
  /\ on \in {"parser", "codec", "json", "dns", "list", "config"}
  /\ frame \in Followed("parser", Frames) /\ raw \in Followed("codec", Heard)
  /\ texts \in Followed("json", Texts)    /\ query \in Followed("dns", Queries)
  /\ hasId \in Followed("json", BOOLEAN)  /\ hasSystem \in Followed("json", BOOLEAN)
  /\ now \in Followed("list", Tick)
  /\ ParserInit /\ CodecInit /\ JsonInit /\ DnsInit /\ InitList /\ InitConfig

Parser == on = "parser" /\ ParserNext /\ UNCHANGED <<codecVars, jsonVars, dnsVars, listVars, configVars>>
Codec  == on = "codec"  /\ CodecNext  /\ UNCHANGED <<parserVars, jsonVars, dnsVars, listVars, configVars>>
Json   == on = "json"   /\ JsonNext   /\ UNCHANGED <<parserVars, codecVars, dnsVars, listVars, configVars>>
Dns    == on = "dns"    /\ DnsNext    /\ UNCHANGED <<parserVars, codecVars, jsonVars, listVars, configVars>>
Rejects == on = "list"  /\ NextList   /\ UNCHANGED <<parserVars, codecVars, jsonVars, dnsVars, configVars>>
Stored == on = "config" /\ NextConfig /\ UNCHANGED <<parserVars, codecVars, jsonVars, dnsVars, listVars>>

PartsNext == UNCHANGED on /\ (Parser \/ Codec \/ Json \/ Dns \/ Rejects \/ Stored)

PartsSpec == PartsInit /\ [][PartsNext]_partVars
==============================================================================
