------------------------------- MODULE Cursor -------------------------------
(***************************************************************************)
(* Cursors (cursor.go).  A cursor walks over the pairs that tree.Cursor    *)
(* collected, in ascending key order; the values play no part and are left *)
(* out.  One flag, valid, says that the cursor is on an entry; when it is  *)
(* not, it may be new, past either end or closed.                          *)
(***************************************************************************)
EXTENDS Integers, SequencesExt

CONSTANTS
  Key,    \* the keys the tree may hold
  Sought  \* the keys Seek is called with

ASSUME CursorAssumption ==
  Key \subseteq Int /\ IsFiniteSet(Key) /\ Sought \subseteq Int

VARIABLES
  pairs,  \* the keys of the snapshot
  pos,    \* the index of the current one, from 0
  valid

vars == <<pairs, pos, valid>>

(* What tree.Cursor collects: any of the keys, in ascending order. *)
Ascending(s) == \A i, j \in DOMAIN s : i < j => s[i] < s[j]

(* The cursor is on no entry yet. *)
Init ==
  /\ pairs \in {s \in SeqOf(Key, Cardinality(Key)) : Ascending(s)}
  /\ pos = 0
  /\ valid = FALSE

CurrentKey == pairs[pos + 1]

(* Advance is the Next of the code.  A cursor that is on no entry starts at *)
(* the first one, or for Prev at the last.                                 *)
StartAt(i) ==
  /\ ~valid
  /\ IF pairs = <<>> THEN UNCHANGED vars
                     ELSE pos' = i /\ valid' = TRUE /\ UNCHANGED pairs

Advance_StaysValid ==
  \/ StartAt(0)
  \/ valid /\ pos' = pos + 1 /\ UNCHANGED <<pairs, valid>>

Advance ==
  \/ StartAt(0)
  \/ valid /\ pos' = pos + 1 /\ valid' = (pos' < Len(pairs)) /\ UNCHANGED pairs

Prev ==
  \/ StartAt(Len(pairs) - 1)
  \/ valid /\ pos' = pos - 1 /\ valid' = (pos' >= 0) /\ UNCHANGED pairs

(* Which half the binary search goes on with. *)
Below_OrEqual(k, key) == k <= key

Below(k, key) == k < key

Lowest(key) ==
  LET n == Len(pairs)
      search[part \in (0..n) \X (0..n)] ==
        LET lo == part[1]
            hi == part[2]
            mid == lo + (hi - lo) \div 2
        IN  IF lo >= hi THEN lo
            ELSE IF Below(pairs[mid + 1], key) THEN search[<<mid + 1, hi>>]
                                               ELSE search[<<lo, mid>>]
  IN  search[<<0, n>>]

Seek(key) ==
  /\ valid' = (Lowest(key) < Len(pairs))
  /\ pos' = IF valid' THEN Lowest(key) ELSE pos
  /\ UNCHANGED pairs

Close ==
  /\ valid' = FALSE
  /\ pairs' = <<>>
  /\ UNCHANGED pos

Next ==
  \/ Advance
  \/ Prev
  \/ \E key \in Sought : Seek(key)
  \/ Close

Spec == Init /\ [][Next]_vars

-----------------------------------------------------------------------------

(***************************************************************************)
(* A cursor that says it is valid is on an entry, so that Key and Value do *)
(* not panic (cursor.go:76-84), after any mix of moves, restarts, failed   *)
(* seeks and Close.                                                        *)
(***************************************************************************)
OnEntry == valid => pos + 1 \in DOMAIN pairs

(* What the cursor stands for: a set of keys and the one it is on, if any. *)
Keys == ToSet(pairs)
At == IF valid THEN {CurrentKey} ELSE {}

LeastOf(ks) == {k \in ks : \A l \in ks : k <= l}
GreatestOf(ks) == {k \in ks : \A l \in ks : k >= l}

(***************************************************************************)
(* A cursor walks over the set of keys of its snapshot (cursor.go:13-72):  *)
(* Next goes to the least key above the current one, or to the least of    *)
(* all when there is no current one, Prev likewise downwards, Seek goes to *)
(* the least key that is not below the one sought, and where there is no   *)
(* such key the cursor is on none.                                         *)
(***************************************************************************)
WalksKeys ==
  [][/\ Advance => At' = LeastOf({k \in Keys : \A n \in At : n < k})
     /\ Prev => At' = GreatestOf({k \in Keys : \A n \in At : k < n})
     /\ \A key \in Sought : Seek(key) => At' = LeastOf({k \in Keys : key <= k})
    ]_vars
=============================================================================
