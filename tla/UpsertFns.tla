----------------------------- MODULE UpsertFns ------------------------------
(***************************************************************************)
(* The upsert functions the library ships (upsert.go), for an integer      *)
(* value type of Modulus values.  An UpsertFn is a function from the       *)
(* current value, or Absent, to the value that is stored.                  *)
(***************************************************************************)
EXTENDS Integers

CONSTANTS
  Modulus,  \* number of values of the value type: Go integers wrap around
  Absent

Ints == 0..Modulus - 1

Increment(delta) ==
  [o \in Ints \cup {Absent} |->
     IF o = Absent THEN delta ELSE (o + delta) % Modulus]

CompareAndSwap(expected, newVal) ==
  [o \in Ints \cup {Absent} |->
     IF o = Absent THEN 0
     ELSE IF o = expected THEN newVal ELSE o]
=============================================================================
