CONSTANTS
  v1 = v1
  v2 = v2
  Key = {1, 2, 3, 4}
  Value = {v1}
  Puts = {v1}
  Fns <- MCNoFns
  Ranges <- MCOneRange
  Absent = Absent
  fanout = 2
  bufferCap = 1
  leafCap = 2
  smallBatch = 3
SPECIFICATION Spec
INVARIANT BufferBound
