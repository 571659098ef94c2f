CONSTANTS
  v1 = v1
  v2 = v2
  Key = {1, 2, 3}
  Value = {v1}
  Puts = {v1}
  Fns <- MCConst
  Ranges <- MCOneRange
  Absent = Absent
  fanout = 2
  bufferCap = 2
  leafCap = 2
  smallBatch = 3
SPECIFICATION Spec
INVARIANT LenNonNegative
