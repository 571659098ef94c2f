---------------------------- MODULE MCGoroutines ----------------------------
(***************************************************************************)
(* Instances of Goroutines for TLC.                                        *)
(***************************************************************************)
EXTENDS Goroutines

CONSTANTS loop, look, write

F == INSTANCE UpsertFns WITH Modulus <- 2

MCValue == F!Ints
MCFns == {F!Increment(1)}

(* One goroutine loops and writes, one reads, one writes to several keys. *)
MCCalls ==
  loop  :> {All, Descend, Delete(1), Upsert(1, F!Increment(1))} @@
  look  :> {Get(1), Cursor} @@
  write :> {Put(2, 0), PutIfAbsent(1, 0), Upsert(1, F!Increment(1)),
            DeleteRange(1, 3), Clear}
=============================================================================
