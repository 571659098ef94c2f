CONSTANTS
  Key = {1, 2, 3, 4}
  v1 = v1
  v2 = v2
  Value = {v1, v2}
  Puts = {v1, v2}
  Fns <- MCNoFns
  Ranges <- MCOneRange
  Absent = Absent
  fanout = 2
  bufferCap = 1
  leafCap = 2
  smallBatch = 3
SPECIFICATION Spec
INVARIANTS SearchTree DeletesHit PendingDeletesExact SizeAccounting LenWithinBuffered FanoutBound
PROPERTY ImplementsOrderedMap
SYMMETRY MCSymmetry
CHECK_DEADLOCK TRUE
