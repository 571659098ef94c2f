---------------------------- MODULE MCLeafMerge -----------------------------
(***************************************************************************)
(* Instances of LeafMerge for TLC.                                         *)
(***************************************************************************)
EXTENDS LeafMerge

F == INSTANCE UpsertFns WITH Modulus <- 2

MCValue == F!Ints
MCFns == {F!Increment(1), F!CompareAndSwap(0, 1)}
MCSent ==
  {MsgPut(0, FALSE), MsgDelete} \cup {MsgUpsert(f) : f \in MCFns}
=============================================================================
