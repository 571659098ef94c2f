CONSTANTS
  v1 = v1
  v2 = v2
  Key = {1, 2, 3}
  Value <- MCValue
  Puts <- MCValue
  Fns <- MCFns
  Ranges <- MCRanges
  Absent = Absent
  fanout = 2
  bufferCap = 2
  leafCap = 2
  smallBatch = 1
SPECIFICATION Spec
INVARIANTS ScansMatchGet DeletesHit SizeAccounting LenWithinBuffered
PROPERTY ImplementsOrderedMap
CHECK_DEADLOCK TRUE
