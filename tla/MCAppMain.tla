------------------------------ MODULE MCAppMain ------------------------------
(* Small instances of the boot: three channels around the AP's.             *)
EXTENDS AppMain
==============================================================================
