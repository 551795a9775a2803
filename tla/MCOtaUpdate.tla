----------------------------- MODULE MCOtaUpdate -----------------------------
(* Small instances of the upload: short forms, and buffers that are shorter *)
(* than the forms.                                                          *)
EXTENDS OtaUpdate

Upload(file, len) ==
  [file |-> file, header |-> Boundary + HeaderEnd,
   end |-> Boundary + HeaderEnd + len,
   total |-> Boundary + HeaderEnd + len + EndBoundary + 1]

BrowserForms == {Upload("good", 9), Upload("crashes", 1), Upload("halts", 3),
                 Upload("junk", 2), Upload("good", 0)}
==============================================================================
