CONSTANTS
  v1 = v1
  v2 = v2
  Key = {1, 2, 3, 4, 5}
  Value = {v1}
  Puts = {v1}
  Fns <- MCNoFns
  Ranges <- MCNoRanges
  Absent = Absent
  fanout = 2
  bufferCap = 2
  leafCap = 3
  smallBatch = 3
SPECIFICATION Spec
INVARIANT LenExact
