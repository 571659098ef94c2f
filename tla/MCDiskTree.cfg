CONSTANTS
  p1 = p1
  p2 = p2
  Proc = {p1, p2}
  Key = {1}
  Value = {0}
  Fns = {}
  Absent = Absent
  Calls <- MCCalls
  Nobody = Nobody
  NaN = NaN
  NoTree = NoTree
  OptionLists <- MCOptionLists
SPECIFICATION DiskSpec
INVARIANTS  ClosedInOrder
PROPERTIES FlusherBlocksNobody CloseReturns
CHECK_DEADLOCK FALSE
