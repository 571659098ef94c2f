----------------------------- MODULE MCDiskTree -----------------------------
(***************************************************************************)
(* Instances of DiskTree for TLC.                                          *)
(***************************************************************************)
EXTENDS DiskTree

CONSTANTS p1, p2

(* Out of range, at its ends, within it, and NaN. *)
MCEpsilons == {<<0, 1>>, <<1, 3>>, <<1, 2>>, <<2, 3>>, <<1, 1>>, <<3, 2>>, NaN}
MCBlockSizes == {1, 2, 8, 30}

MCOptions == {WithEpsilon(e) : e \in MCEpsilons} \cup {WithBlockSize(n) : n \in MCBlockSizes}
MCOptionLists == UNION {[1..n -> MCOptions] : n \in 0..2}

MCCalls == p1 :> {PutIfAbsent(1, 0), Delete(1)} @@ p2 :> {All}
=============================================================================
