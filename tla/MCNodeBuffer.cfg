CONSTANTS
  Key = {1, 2, 3}
  v1 = v1
  v2 = v2
  Value = {v1, v2}
  Fns = {}
  Msgs <- MCMsgs
  Absent = Absent
  fanout = 2
  bufferCap = 2
  MaxMsgs = 3
SPECIFICATION Spec
INVARIANTS TypeOK ReadsExact
PROPERTY StepsMatchTree
SYMMETRY MCSymmetry
CHECK_DEADLOCK TRUE
