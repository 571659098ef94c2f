CONSTANTS
  Key = {1, 2, 3}
  Value <- MCValue
  Fns <- MCFns
  Absent = Absent
  Junk = Junk
  Sent <- MCSent
  MaxBatch = 3
  smallBatch = 1
SPECIFICATION Spec
INVARIANTS TypeOK NothingLost LeafCorrect
PROPERTY Terminates
CHECK_DEADLOCK FALSE
