------------------------------ MODULE MCBETree ------------------------------
(***************************************************************************)
(* Instances of BETree for TLC.                                            *)
(***************************************************************************)
EXTENDS BETree

CONSTANTS v1, v2

MCSymmetry == Permutations({v1, v2})

F == INSTANCE UpsertFns WITH Modulus <- 2

MCValue == F!Ints

(* Two upsert functions that do not commute. *)
MCFns == {F!Increment(1), F!CompareAndSwap(0, 1)}
MCConst == [Opt -> Value]
MCNoFns == {}

(* Ranges over all the keys, and over some. *)
MCOneRange == {<<1, 5>>}
MCRanges == {<<1, 5>>, <<2, 4>>}
MCNoRanges == {}
=============================================================================
