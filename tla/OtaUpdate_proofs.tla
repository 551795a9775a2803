--------------------------- MODULE OtaUpdate_proofs --------------------------
(***************************************************************************)
(* Theorems about OtaUpdate, for every form, every size of the buffers     *)
(* that OtaAssumption allows, and every way to cut a body into pieces.     *)
(***************************************************************************)
EXTENDS OtaUpdate, TLAPS

Busy == {"recv", "parse", "verify", "boot"}

(* The parser's loop invariant: what each of its states says of the bytes   *)
(* it has gone past, and of those that are written.                         *)
Parsed ==
  /\ mp = "boundary" =>
       base = 0 /\ image = NoBytes /\ got < Boundary + Chunk
  /\ mp = "header" =>
       base = Boundary /\ image = NoBytes /\ got < form.header + Chunk
  /\ mp = "data" =>
       /\ form.header <= base /\ base <= form.end
       /\ got - base <= Keep + Chunk
       /\ image = IF base = form.header THEN NoBytes ELSE <<form.header, base>>
  /\ mp = "done" =>
       /\ base <= form.end /\ form.end + EndBoundary - base <= Keep + Chunk
       /\ image = File

(* When the parser waits for the next piece it has used up the last one.    *)
UsedUp ==
  /\ mp = "boundary" => got < Boundary
  /\ mp = "header" => got < form.header
  /\ mp = "data" => got < form.end + EndBoundary /\ got - base <= Keep

UploadInv ==
  /\ OtaTypeOK
  /\ pc \in Busy => form \in Forms /\ Parsed
  /\ pc \notin Busy =>
       form = NoForm /\ got = 0 /\ base = 0 /\ mp = "boundary" /\ image = NoBytes
  /\ pc \in Busy => running \in Parts
  /\ pc = "recv" => UsedUp
  /\ pc \in {"verify", "boot"} => mp = "done"

------------------------------------------------------------------------------
(* What OtaAssumption says of a form and of the sizes.                      *)
LEMMA FormFacts ==
  ASSUME NEW f \in Forms
  PROVE  /\ f.header \in Nat /\ f.end \in Nat /\ f.total \in Nat
         /\ Boundary + 4 <= f.header /\ f.header <= f.end
         /\ f.end + EndBoundary <= f.total
         /\ f.header + Chunk <= AccSize
         /\ Keep + Chunk + (f.total - f.end - EndBoundary) <= AccSize
BY OtaAssumption DEF Form, HeaderEnd

LEMMA SizeFacts ==
  /\ Boundary \in Nat /\ Boundary > 0 /\ Margin \in Nat
  /\ Chunk \in Nat /\ Chunk > 0 /\ AccSize \in Nat
  /\ EndBoundary = Boundary + 2 /\ Keep = Boundary + 2 + Margin
BY OtaAssumption DEF EndBoundary, Keep

LEMMA OtherPart ==
  ASSUME NEW p \in Parts
  PROVE  Other(p) \in Parts /\ Other(p) # p /\ Other(Other(p)) = p
BY DEF Parts, Other

------------------------------------------------------------------------------
(* The upload handler.                                                      *)

(* The counters of a parser that is at rest.                                *)
LEMMA AtRest ==
  ASSUME UploadInv, ParserAtRest, pc' \in {"idle", "restart"},
         content' \in [Parts -> Files \cup {"torn"}],
         otadata' \in [Parts -> {"none", "new", "pending", "valid", "aborted"}],
         chosen' \in Parts, running' \in Parts \cup {"down"}
  PROVE  UploadInv'
BY DEF UploadInv, OtaTypeOK, ParserAtRest, Busy, NoForm

LEMMA UploadInit == Init => UploadInv
BY DEF Init, UploadInv, OtaTypeOK, Busy, Parts, Files, NoForm

LEMMA UploadStep == UploadInv /\ [Next]_vars => UploadInv'
<1> SUFFICES ASSUME UploadInv, [Next]_vars PROVE UploadInv'
  OBVIOUS
<1> USE SizeFacts
<1>form. pc \in Busy => /\ form \in Forms /\ Parsed
                        /\ form.header \in Nat /\ form.end \in Nat /\ form.total \in Nat
                        /\ Boundary + 4 <= form.header /\ form.header <= form.end
                        /\ form.end + EndBoundary <= form.total
  BY FormFacts DEF UploadInv
<1>types. /\ content \in [Parts -> Files \cup {"torn"}]
          /\ otadata \in [Parts -> {"none", "new", "pending", "valid", "aborted"}]
          /\ chosen \in Parts /\ running \in Parts \cup {"down"}
          /\ got \in 0 .. form.total /\ base \in 0 .. got
          /\ mp \in {"boundary", "header", "data", "done"}
  BY DEF UploadInv, OtaTypeOK
<1>return. ASSUME Return PROVE UploadInv'
  BY <1>return, <1>types, AtRest DEF Return, bootVars
<1>1. ASSUME NEW f \in Forms, Begin(f) PROVE UploadInv'
  <2>1. got = 0 /\ base = 0 /\ mp = "boundary" /\ image = NoBytes
    BY <1>1 DEF Begin, UploadInv, Busy
  <2>2. f.total \in Nat
    BY FormFacts
  <2>3. OtaTypeOK'
    <3>1. content' \in [Parts -> Files \cup {"torn"}]
      BY <1>1, <1>types DEF Begin
    <3>2. got' \in 0 .. form'.total /\ base' \in 0 .. got'
      BY <1>1, <2>1, <2>2 DEF Begin
    <3> QED
      BY <1>1, <3>1, <3>2, <1>types DEF Begin, OtaTypeOK
  <2> QED
    BY <1>1, <2>1, <2>3, <1>types DEF Begin, UploadInv, Busy, Parsed, UsedUp
<1>2. CASE Recv
  <2>1. pc = "recv" /\ UsedUp /\ Parsed
    BY <1>2, <1>form DEF Recv, UploadInv, Busy
  <2>2. OtaTypeOK'
    BY <1>2, <1>form, <1>types DEF Recv, OtaTypeOK, bootVars, UploadInv, Busy
  <2>3. Parsed'
    BY <1>2, <2>1, <1>form, <1>types DEF Recv, Parsed, UsedUp, File, Busy
  <2> QED
    BY <1>2, <1>form, <2>2, <2>3 DEF Recv, UploadInv, Busy, bootVars
<1>3. CASE SeekBoundary
  <2>1. Parsed'
    BY <1>3, <1>form, <1>types DEF SeekBoundary, Parsed, Busy
  <2>2. OtaTypeOK'
    BY <1>3, <1>types DEF SeekBoundary, OtaTypeOK, bootVars, UploadInv
  <2> QED
    BY <1>3, <1>form, <2>1, <2>2 DEF SeekBoundary, UploadInv, Busy, bootVars
<1>4. CASE SeekHeaderEnd
  <2>1. Parsed'
    BY <1>4, <1>form, <1>types DEF SeekHeaderEnd, Parsed, Busy
  <2>2. OtaTypeOK'
    BY <1>4, <1>form, <1>types DEF SeekHeaderEnd, OtaTypeOK, bootVars, UploadInv, Busy
  <2> QED
    BY <1>4, <1>form, <2>1, <2>2 DEF SeekHeaderEnd, UploadInv, Busy, bootVars
<1>5. CASE WriteLast
  <2>1. image' = File
    BY <1>5, <1>form, <1>types DEF WriteLast, Parsed, Append, File, NoBytes, Busy
  <2>2. Parsed'
    BY <1>5, <2>1, <1>form, <1>types DEF WriteLast, EndSeen, Parsed, File, Busy
  <2>3. OtaTypeOK'
    BY <1>5, <1>types DEF WriteLast, OtaTypeOK, bootVars, UploadInv
  <2> QED
    BY <1>5, <1>form, <2>2, <2>3 DEF WriteLast, UploadInv, Busy, bootVars
<1>6. CASE Flush
  <2> DEFINE next == got - Keep
  <2>1. /\ pc = "parse" /\ mp = "data" /\ base < next /\ next <= form.end
        /\ got < form.end + EndBoundary
    BY <1>6, <1>form, <1>types DEF Flush, Flushable, EndSeen, Parsed, Busy
  <2>2. image' = <<form.header, next>>
    BY <1>6, <2>1, <1>form, <1>types DEF Flush, Append, Parsed, NoBytes, Busy
  <2>3. Parsed' /\ UsedUp'
    BY <1>6, <2>1, <2>2, <1>form, <1>types DEF Flush, Parsed, UsedUp, Busy
  <2>4. OtaTypeOK'
    BY <1>6, <2>1, <1>types DEF Flush, OtaTypeOK, bootVars, UploadInv
  <2> QED
    BY <1>6, <1>form, <2>3, <2>4 DEF Flush, UploadInv, Busy, bootVars
<1>7. CASE NoProgress
  <2>1. UsedUp
    BY <1>7, <1>form, <1>types DEF NoProgress, UsedUp, Flushable, EndSeen, Parsed, Busy
  <2> QED
    BY <1>7, <2>1, <1>form, <1>types
    DEF NoProgress, UploadInv, Busy, UsedUp, Parsed, OtaTypeOK, File, bootVars, parserVars
<1>8. CASE Check
  BY <1>8, <1>form, <1>types, <1>return
  DEF Check, UploadInv, Busy, Parsed, OtaTypeOK, File, bootVars, parserVars
<1>9. CASE End
  <2>1. pc = "verify" /\ form \in Forms /\ form.file \in Files
    BY <1>9, <1>form, OtaAssumption DEF End, Busy, Form
  <2>2. OtaTypeOK'
    BY <1>9, <2>1, <1>types DEF End, OtaTypeOK, parserVars, UploadInv
  <2>3. Parsed'
    BY <1>9, <1>form DEF End, Parsed, File, parserVars, Busy
  <2> QED
    BY <1>9, <2>1, <2>2, <2>3 DEF End, UploadInv, Busy, parserVars
<1>10. CASE SetBoot
  <2>1. running \in Parts
    BY <1>10 DEF SetBoot, UploadInv, Busy
  <2>2. /\ Target \in Parts
        /\ otadata' \in [Parts -> {"none", "new", "pending", "valid", "aborted"}]
    BY <1>10, <2>1, <1>types, OtherPart DEF SetBoot, Target
  <2> QED
    BY <1>10, <2>1, <2>2, <1>types, AtRest DEF SetBoot
<1>11. CASE MarkValid
  BY <1>11, <1>types, <1>form
  DEF MarkValid, UploadInv, Busy, OtaTypeOK, Parsed, UsedUp, File, parserVars
<1>12. CASE Restart \/ Crash \/ Reset
  BY <1>12, <1>types, AtRest DEF Restart, Crash, Reset, Down
<1>13. CASE Boot
  <2>1. Candidate \in Parts
    BY <1>types, OtherPart DEF Candidate
  <2> QED
    BY <1>13, <2>1, <1>types, <1>form
    DEF Boot, UploadInv, Busy, OtaTypeOK, Parsed, UsedUp, File, parserVars
<1>14. CASE UNCHANGED vars
  BY <1>14, <1>types, <1>form
  DEF vars, UploadInv, Busy, OtaTypeOK, Parsed, UsedUp, File, bootVars, parserVars
<1> QED
  BY <1>1, <1>2, <1>3, <1>4, <1>5, <1>6, <1>7, <1>8, <1>9, <1>10, <1>11, <1>12,
     <1>13, <1>14, <1>return
  DEF Next, Handler, RecvFails, WriteFails, EndFails, SetBootFails

(* Every state of an upload and of the boot process has the types OtaTypeOK *)
(* gives it; got, in particular, never passes the end of the body.          *)
THEOREM OtaTyped == Spec => []OtaTypeOK
<1>1. UploadInv => OtaTypeOK
  BY DEF UploadInv
<1> QED
  BY <1>1, UploadInit, UploadStep, PTL DEF Spec

(* Whatever the pieces ota_upload_handler receives a form in, the bytes it  *)
(* has written when the body has arrived are those of the file, in order.   *)
THEOREM UploadWritesFile == Spec => []FileWritten
<1>1. UploadInv => FileWritten
  <2> SUFFICES ASSUME UploadInv PROVE FileWritten
    OBVIOUS
  <2>1. CASE pc = "recv" /\ got = form.total
    <3>1. form \in Forms /\ Parsed /\ UsedUp
      BY <2>1 DEF UploadInv, Busy
    <3>2. mp = "done"
      BY <2>1, <3>1, FormFacts, SizeFacts DEF UsedUp, UploadInv, OtaTypeOK
    <3> QED
      BY <2>1, <3>1, <3>2 DEF Parsed, FileWritten, Complete
  <2>2. CASE pc = "verify"
    BY <2>2 DEF UploadInv, Busy, Parsed, FileWritten, Complete
  <2> QED
    BY <2>1, <2>2 DEF FileWritten
<1> QED
  BY <1>1, UploadInit, UploadStep, PTL DEF Spec

(* The bytes ota_upload_handler keeps never outgrow acc.                    *)
THEOREM AccNeverOverflows == Spec => []AccFits
<1>1. UploadInv => AccFits
  <2> SUFFICES ASSUME UploadInv PROVE AccFits
    OBVIOUS
  <2>1. CASE pc \in Busy
    <3>1. form \in Forms /\ Parsed
      BY <2>1 DEF UploadInv
    <3>2. /\ mp \in {"boundary", "header", "data", "done"}
          /\ got \in 0 .. form.total /\ base \in 0 .. got
      BY DEF UploadInv, OtaTypeOK
    <3> QED
      BY <3>1, <3>2, FormFacts, SizeFacts DEF Parsed, AccFits
  <2>2. CASE pc \notin Busy
    BY <2>2, SizeFacts DEF UploadInv, AccFits
  <2> QED
    BY <2>1, <2>2
<1> QED
  BY <1>1, UploadInit, UploadStep, PTL DEF Spec

------------------------------------------------------------------------------
(* The boot chain.  Every step of an upload spoils a partition that is      *)
(* neither named by otadata nor the one a rollback would go back to.        *)
Serving == running # "down" /\ pc # "restart"
BootInv ==
  /\ content[chosen] # "torn"
  /\ otadata[chosen] \in {"new", "pending"} => content[Other(chosen)] # "torn"
  /\ Serving => chosen = running /\ otadata[running] # "new"
  /\ pc \in Busy => running \in Parts /\ otadata[running] # "pending"
  /\ pc = "boot" => content[Target] # "torn"

LEMMA BootInit == Init => BootInv
BY DEF Init, BootInv, Serving, Busy, Parts

LEMMA BootStep == UploadInv /\ BootInv /\ [Next]_vars => BootInv'
<1> SUFFICES ASSUME UploadInv, BootInv, [Next]_vars PROVE BootInv'
  OBVIOUS
<1>types. /\ content \in [Parts -> Files \cup {"torn"}]
          /\ otadata \in [Parts -> {"none", "new", "pending", "valid", "aborted"}]
          /\ chosen \in Parts /\ running \in Parts \cup {"down"}
          /\ Other(chosen) \in Parts /\ Other(chosen) # chosen
          /\ "torn" \notin Files /\ "down" \notin Parts
  BY OtherPart DEF UploadInv, OtaTypeOK, Files, Parts
<1>serving. pc \in Busy => chosen = running /\ otadata[running] # "new"
  BY <1>types DEF BootInv, Serving, Busy
<1>return. ASSUME Return, pc \in Busy PROVE BootInv'
  BY <1>return, <1>serving, <1>types DEF Return, bootVars, BootInv, Serving, Busy
<1>1. ASSUME NEW f \in Forms, Begin(f) PROVE BootInv'
  <2>1. /\ running \in Parts /\ chosen = running
        /\ otadata[chosen] \notin {"new", "pending"}
    BY <1>1, <1>types DEF Begin, BootInv, Serving
  <2>2. content'[chosen] = content[chosen]
    BY <1>1, <2>1, <1>types DEF Begin, Target
  <2> QED
    BY <1>1, <2>1, <2>2 DEF Begin, BootInv, Serving, Busy
<1>2. CASE Recv \/ SeekBoundary \/ SeekHeaderEnd \/ WriteLast \/ Flush \/ NoProgress
  BY <1>2, <1>serving, <1>types
  DEF Recv, SeekBoundary, SeekHeaderEnd, WriteLast, Flush, NoProgress, BootInv,
      Serving, Busy, bootVars
<1>3. CASE Check
  BY <1>3, <1>return, <1>serving DEF Check, BootInv, Serving, Busy, bootVars
<1>4. CASE End
  <2>1. /\ running \in Parts /\ chosen = running /\ Target = Other(chosen)
        /\ form.file \in Files
    BY <1>4, <1>serving, OtaAssumption DEF End, BootInv, UploadInv, Busy, Target, Form
  <2>2. content'[chosen] # "torn" /\ content'[Target] # "torn"
    BY <1>4, <2>1, <1>types DEF End, BootInv
  <2> QED
    BY <1>4, <2>1, <2>2, <1>serving DEF End, BootInv, Serving, Busy, Target
<1>5. CASE SetBoot
  <2>1. running \in Parts /\ chosen = running /\ content[Target] # "torn"
    BY <1>5, <1>serving DEF SetBoot, BootInv, Busy
  <2> QED
    BY <1>5, <2>1, OtherPart DEF SetBoot, BootInv, Serving, Busy, Target
<1>6. CASE MarkValid
  <2>1. otadata'[running] = "valid" /\ running \in Parts
    BY <1>6, <1>types DEF MarkValid
  <2>2. \A p \in Parts : otadata'[p] = otadata[p] \/ otadata'[p] = "valid"
    BY <1>6, <1>types DEF MarkValid
  <2> QED
    BY <1>6, <2>1, <2>2, <1>types DEF MarkValid, BootInv, Serving, Busy, Target
<1>7. CASE Restart \/ Crash \/ Reset
  BY <1>7 DEF Restart, Crash, Reset, Down, BootInv, Serving, Busy
<1>8. CASE Boot
  <2>1. Candidate \in Parts /\ otadata'[Candidate] # "new"
    BY <1>8, <1>types DEF Boot, Candidate
  <2>2. pc \notin Busy
    BY <1>8, <1>types DEF Boot, BootInv
  <2> QED
    BY <1>8, <2>1, <2>2, <1>types, OtherPart DEF Boot, Candidate, BootInv, Serving, Busy
<1>9. CASE UNCHANGED vars
  BY <1>9 DEF vars, bootVars, BootInv, Serving, Busy, Target
<1> QED
  BY <1>1, <1>2, <1>3, <1>4, <1>5, <1>6, <1>7, <1>8, <1>9, <1>return
  DEF Next, Handler, RecvFails, WriteFails, EndFails, SetBootFails, Busy

(* At any moment of an upload, and of a chip that is being reset, the       *)
(* bootloader would find a complete image in the partition it tries.        *)
THEOREM AlwaysBootable == Spec => []Bootable
<1>1. UploadInv /\ BootInv => Bootable
  BY DEF UploadInv, OtaTypeOK, BootInv, Bootable, Candidate
<1>2. Init => UploadInv /\ BootInv
  BY UploadInit, BootInit
<1>3. UploadInv /\ BootInv /\ [Next]_vars => UploadInv' /\ BootInv'
  BY UploadStep, BootStep
<1> QED
  BY <1>1, <1>2, <1>3, PTL DEF Spec
==============================================================================
