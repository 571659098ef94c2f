---------------------------- MODULE MCNodeBuffer ----------------------------
(***************************************************************************)
(* Instances of NodeBuffer for TLC.                                        *)
(***************************************************************************)
EXTENDS NodeBuffer

CONSTANTS v1, v2

MCMsgs == {MsgPut(v, FALSE) : v \in Value}

MCSymmetry == Permutations(Value)
=============================================================================
