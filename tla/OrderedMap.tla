----------------------------- MODULE OrderedMap -----------------------------
(***************************************************************************)
(* What the Tree interface (tree.go) promises: an ordered map.  A write    *)
(* takes effect atomically while the caller holds the tree's write lock;   *)
(* the number it reports (keys removed or inserted, a Go bool counting as  *)
(* 0 or 1) is available until the lock is released.                        *)
(***************************************************************************)
EXTENDS Integers, FiniteSets

CONSTANTS
  Key,     \* the keys, ordered by <=
  Puts,    \* the values Put and PutIfAbsent are called with
  Fns,     \* the upsert functions: each maps a value or Absent to a value
  Ranges,  \* the pairs <<lo, hi>> DeleteRange is called with
  Absent   \* what a key that is not in the map maps to

VARIABLES
  map,     \* a value or Absent for every key
  busy,    \* TRUE while a writer is inside an operation
  result   \* the number the running operation reports

vars == <<map, busy, result>>

Live == {k \in Key : map[k] # Absent}

Init ==
  /\ map = [k \in Key |-> Absent]
  /\ busy = FALSE
  /\ result = 0

(* One write: the lock is taken, the map changes, the answer is fixed. *)
Write(newMap, answer) ==
  /\ ~busy
  /\ busy' = TRUE
  /\ map' = newMap
  /\ result' = answer

Put(k, v) == Write([map EXCEPT ![k] = v], 0)

PutIfAbsent(k, v) ==
  IF map[k] = Absent
  THEN Write([map EXCEPT ![k] = v], 1)
  ELSE Write(map, 0)

Delete(k) ==
  Write([map EXCEPT ![k] = Absent], IF map[k] = Absent THEN 0 ELSE 1)

DeleteRange(lo, hi) ==
  LET doomed == {k \in Live : lo <= k /\ k < hi}
  IN  Write([k \in Key |-> IF k \in doomed THEN Absent ELSE map[k]],
            Cardinality(doomed))

Upsert(k, f) == Write([map EXCEPT ![k] = f[map[k]]], 0)

Clear == Write([k \in Key |-> Absent], 0)

Return ==
  /\ busy
  /\ busy' = FALSE
  /\ result' = 0
  /\ UNCHANGED map

Next ==
  \/ \E k \in Key, v \in Puts : Put(k, v) \/ PutIfAbsent(k, v)
  \/ \E k \in Key : Delete(k)
  \/ \E r \in Ranges : DeleteRange(r[1], r[2])
  \/ \E k \in Key, f \in Fns : Upsert(k, f)
  \/ Clear
  \/ Return

Spec == Init /\ [][Next]_vars
=============================================================================
