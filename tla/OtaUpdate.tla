------------------------------ MODULE OtaUpdate ------------------------------
(***************************************************************************)
(* Firmware updates: ota_upload_handler of WSW-Firmware/main/ota_handler.c *)
(* takes an image out of a multipart form and writes it to the partition   *)
(* that is not running, and app_main commits a new image once it has run   *)
(* for a while.  The bootloader, with rollback enabled, is external: it    *)
(* boots what otadata names, and gives up an image that was booted once    *)
(* and not committed.  Power may go at any time.                           *)
(*                                                                         *)
(* The form is cut down to positions in its body: the first boundary ends  *)
(* at Boundary, the part's header at form.header, the file at form.end     *)
(* and the body at form.total.  acc, the accumulation buffer, always holds *)
(* the bytes from base up to got.                                          *)
(***************************************************************************)
EXTENDS Integers

CONSTANTS
  Forms,      \* the forms a browser may send: what they carry and where
  Boundary,   \* strlen(boundary)
  Margin,     \* the 8 bytes the parser keeps on top of an end boundary
  Chunk,      \* sizeof(buf)
  AccSize     \* sizeof(acc)

(* What a file may be: an image that works, one that crashes before it is   *)
(* committed, one that gives up in app_main and halts, or no image at all.  *)
Files == {"good", "crashes", "halts", "junk"}

EndBoundary == Boundary + 2
HeaderEnd == 4
Form == [file : Files, header : Nat, end : Nat, total : Nat]

(* Mutant: keeps the bytes of one end boundary less than it should.         *)
KeepMarginOnly == Margin

(* What the parser keeps in acc when it writes the rest.                    *)
Keep == EndBoundary + Margin

(* The headers of a form, and what follows its last boundary, are short.    *)
ASSUME OtaAssumption ==
  /\ Boundary \in Nat \ {0} /\ Margin \in Nat
  /\ Chunk \in Nat \ {0} /\ AccSize \in Nat
  /\ Forms \subseteq Form
  /\ \A f \in Forms :
       /\ Boundary + HeaderEnd <= f.header
       /\ f.header <= f.end /\ f.end + EndBoundary <= f.total
       /\ f.header + Chunk <= AccSize
       /\ Keep + Chunk + (f.total - f.end - EndBoundary) <= AccSize

Parts == {"ota_0", "ota_1"}
Other(p) == IF p = "ota_0" THEN "ota_1" ELSE "ota_0"

VARIABLES
  content,        \* what each partition holds: a file, or "torn"
  otadata,        \* the state otadata records of each partition's image
  chosen,         \* the partition otadata names
  running,        \* the partition that runs, or "down"
  pc,             \* where the upload handler is
  form,           \* the form it is given
  got, base,      \* received so far; acc holds the bytes base + 1 .. got
  mp,             \* multipart parser state
  image           \* the bytes of the body written to the partition

bootVars == <<content, otadata, chosen, running>>
parserVars == <<form, got, base, mp, image>>
vars == <<bootVars, pc, parserVars>>

NoBytes == <<0, 0>>
NoForm == [file |-> "none", header |-> 0, end |-> 0, total |-> 0]
ParserAtRest ==
  /\ form' = NoForm /\ got' = 0 /\ base' = 0 /\ mp' = "boundary" /\ image' = NoBytes

(* Shipped with an image in the first partition and an empty otadata. *)
Init ==
  /\ content = [p \in Parts |-> IF p = "ota_0" THEN "good" ELSE "torn"]
  /\ otadata = [p \in Parts |-> "none"]
  /\ chosen = "ota_0" /\ running = "ota_0"
  /\ pc = "idle"
  /\ form = NoForm /\ got = 0 /\ base = 0 /\ mp = "boundary" /\ image = NoBytes

Target == Other(running)

------------------------------------------------------------------------------
(* ota_upload_handler.  esp_ota_begin refuses while the running image is    *)
(* not committed; otherwise the update partition's old content is lost.     *)
Begin(f) ==
  /\ pc = "idle" /\ running # "down" /\ content[running] # "halts"
  /\ otadata[running] # "pending"
  /\ content' = [content EXCEPT ![Target] = "torn"]
  /\ pc' = "recv"
  /\ form' = f
  /\ UNCHANGED <<otadata, chosen, running, got, base, mp, image>>

Return ==
  /\ pc' = "idle"
  /\ ParserAtRest
  /\ UNCHANGED bootVars

Recv ==
  /\ pc = "recv" /\ got < form.total
  /\ \E rd \in 1 .. Chunk : got + rd <= form.total /\ got' = got + rd
  /\ pc' = "parse"
  /\ UNCHANGED <<bootVars, form, base, mp, image>>

(* A receive error, or an early end of the connection. *)
RecvFails == pc = "recv" /\ got < form.total /\ Return

(* One round of the parser's loop.  A boundary or a header's end counts     *)
(* when all of it is in acc.                                                *)
SeekBoundary ==
  /\ pc = "parse" /\ mp = "boundary" /\ got >= Boundary
  /\ mp' = "header" /\ base' = Boundary
  /\ UNCHANGED <<bootVars, pc, form, got, image>>

SeekHeaderEnd ==
  /\ pc = "parse" /\ mp = "header" /\ got >= form.header
  /\ mp' = "data" /\ base' = form.header
  /\ UNCHANGED <<bootVars, pc, form, got, image>>

EndSeen == base <= form.end /\ form.end + EndBoundary <= got

(* esp_ota_write of the bytes lo + 1 .. hi appends them to what is there.   *)
Append(lo, hi) ==
  image' = IF image = NoBytes THEN <<lo, hi>>
           ELSE IF image[2] = lo THEN <<image[1], hi>> ELSE <<-1, hi>>

WriteLast ==
  /\ pc = "parse" /\ mp = "data" /\ EndSeen
  /\ IF base < form.end THEN Append(base, form.end) ELSE image' = image
  /\ mp' = "done"
  /\ UNCHANGED <<bootVars, pc, form, got, base>>

Flushable == mp = "data" /\ ~EndSeen /\ got - base > Keep

(* Mutant: what was written stays in acc. *)
FlushNoShift ==
  /\ pc = "parse" /\ Flushable
  /\ Append(base, got - Keep)
  /\ pc' = "recv"
  /\ UNCHANGED <<bootVars, form, got, base, mp>>

Flush ==
  /\ pc = "parse" /\ Flushable
  /\ Append(base, got - Keep)
  /\ base' = got - Keep
  /\ pc' = "recv"
  /\ UNCHANGED <<bootVars, form, got, mp>>

WriteFails == pc = "parse" /\ mp = "data" /\ (EndSeen \/ Flushable) /\ Return

NoProgress ==
  /\ pc = "parse"
  /\ \/ mp = "boundary" /\ got < Boundary
     \/ mp = "header" /\ got < form.header
     \/ mp = "data" /\ ~EndSeen /\ ~Flushable
     \/ mp = "done"
  /\ pc' = "recv"
  /\ UNCHANGED <<bootVars, parserVars>>

Check ==
  /\ pc = "recv" /\ got = form.total
  /\ IF mp # "done" \/ image = NoBytes THEN Return
     ELSE pc' = "verify" /\ UNCHANGED <<bootVars, parserVars>>

File == IF form.header = form.end THEN NoBytes ELSE <<form.header, form.end>>

(* esp_ota_end checks the image that was written. *)
End ==
  /\ pc = "verify"
  /\ image = File /\ form.file # "junk"
  /\ content' = [content EXCEPT ![Target] = form.file]
  /\ pc' = "boot"
  /\ UNCHANGED <<otadata, chosen, running, parserVars>>

EndFails == pc = "verify" /\ Return

(* Mutant: the boot partition is set before the image is checked. *)
SetBootUnchecked ==
  /\ pc \in {"verify", "boot"}
  /\ chosen' = Target
  /\ otadata' = [otadata EXCEPT ![Target] = "new"]
  /\ pc' = "restart"
  /\ ParserAtRest
  /\ UNCHANGED <<content, running>>

SetBoot ==
  /\ pc = "boot"
  /\ chosen' = Target
  /\ otadata' = [otadata EXCEPT ![Target] = "new"]
  /\ pc' = "restart"
  /\ ParserAtRest
  /\ UNCHANGED <<content, running>>

SetBootFails == pc = "boot" /\ Return

Handler ==
  \/ Recv \/ SeekBoundary \/ SeekHeaderEnd \/ WriteLast \/ Flush \/ NoProgress
  \/ Check \/ End \/ EndFails \/ SetBoot

------------------------------------------------------------------------------
(* Commit, reset and boot.                                                  *)

(* Mutant: the image is committed as soon as it boots. *)
MarkValidAtOnce ==
  /\ running # "down"
  /\ otadata[running] = "pending"
  /\ otadata' = [otadata EXCEPT ![running] = "valid"]
  /\ UNCHANGED <<content, chosen, running, pc, parserVars>>

(* The validate timer: only an image that survives until then gets here. *)
MarkValid ==
  /\ running # "down" /\ content[running] = "good"
  /\ otadata[running] = "pending"
  /\ otadata' = [otadata EXCEPT ![running] = "valid"]
  /\ UNCHANGED <<content, chosen, running, pc, parserVars>>

Down ==
  /\ running' = "down"
  /\ pc' = "idle"
  /\ ParserAtRest
  /\ UNCHANGED <<content, otadata, chosen>>

(* Restart at the end of an upload. *)
Restart == pc = "restart" /\ Down

Crash == running # "down" /\ content[running] = "crashes" /\ Down

(* Loss of power, the portal's reboot button or the Pack watchdog, before   *)
(* or after the image is committed.                                         *)
Reset == running # "down" /\ Down

(* The bootloader: an image that is still pending is given up for the other *)
(* one, and one that is not complete is not started.                        *)
Candidate == IF otadata[chosen] = "pending" THEN Other(chosen) ELSE chosen

Boot ==
  /\ running = "down"
  /\ content[Candidate] # "torn"
  /\ chosen' = Candidate /\ running' = Candidate
  /\ otadata' = [p \in Parts |->
                   CASE p = Candidate /\ otadata[p] = "new" -> "pending"
                     [] p # Candidate /\ p = chosen -> "aborted"
                     [] OTHER -> otadata[p]]
  /\ UNCHANGED <<content, pc, parserVars>>

Next ==
  \/ \E f \in Forms : Begin(f)
  \/ Handler \/ RecvFails \/ WriteFails \/ SetBootFails
  \/ MarkValid \/ Restart \/ Crash \/ Reset \/ Boot

(* The handler goes on, a pending image is committed in time or crashes,    *)
(* and a chip that is down boots.                                           *)
Spec ==
  /\ Init /\ [][Next]_vars
  /\ WF_vars(Handler) /\ WF_vars(Restart)
  /\ WF_vars(Crash) /\ WF_vars(Boot)

------------------------------------------------------------------------------
OtaTypeOK ==
  /\ content \in [Parts -> Files \cup {"torn"}]
  /\ otadata \in [Parts -> {"none", "new", "pending", "valid", "aborted"}]
  /\ chosen \in Parts
  /\ running \in Parts \cup {"down"}
  /\ pc \in {"idle", "recv", "parse", "verify", "boot", "restart"}
  /\ form \in Forms \cup {NoForm}
  /\ got \in 0 .. form.total /\ base \in 0 .. got
  /\ mp \in {"boundary", "header", "data", "done"}

(* However the body is cut into pieces, an upload that arrives as a whole   *)
(* has written the file, the whole file and nothing else (no byte of a      *)
(* boundary, none twice and none missing), and nothing else is checked.     *)
Complete == mp = "done" /\ image = File
FileWritten ==
  /\ pc = "recv" /\ got = form.total => Complete
  /\ pc = "verify" => Complete

(* The accumulation buffer never overflows on a form whose headers fit, so  *)
(* the branch for it (ota_handler.c:88) is never taken.                     *)
AccFits == got - base <= AccSize

(* Wherever the power goes, in whatever part of an upload, the bootloader   *)
(* finds a complete image to start.                                         *)
Bootable == content[Candidate] # "torn"

(* Whatever is uploaded, and however often the node is reset, it comes back *)
(* to an image that works; only one that halts in app_main without crashing *)
(* waits for somebody to pull the plug.                                     *)
Works == running # "down" /\ content[running] = "good"
Halted == running # "down" /\ content[running] = "halts"
ComesBack == []<>(Works \/ Halted)
==============================================================================
