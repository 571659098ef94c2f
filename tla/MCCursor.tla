------------------------------ MODULE MCCursor ------------------------------
(***************************************************************************)
(* Cursor over every snapshot of a few keys; Seek also with keys that lie  *)
(* before, between and after them.                                         *)
(***************************************************************************)
EXTENDS Cursor

MCKey == {2, 4, 6, 8, 10}
MCSought == 1..11
=============================================================================
