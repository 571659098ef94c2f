CONSTANTS
  Key = {1, 2, 3, 4}
  v1 = v1
  v2 = v2
  Value = {v1}
  Puts = {v1}
  Fns <- MCConst
  Ranges <- MCNoRanges
  Absent = Absent
  fanout = 2
  bufferCap = 1
  leafCap = 2
  smallBatch = 3
SPECIFICATION FairSpec
INVARIANTS TypeOK CallsValid ScansMatchGet SizeAccounting LenWithinBuffered
PROPERTIES ImplementsOrderedMap LockReleased
CHECK_DEADLOCK TRUE
