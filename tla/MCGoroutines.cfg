CONSTANTS
  loop = loop
  look = look
  write = write
  Proc = {loop, look, write}
  Key = {1, 2}
  Value <- MCValue
  Fns <- MCFns
  Absent = Absent
  Calls <- MCCalls
  Nobody = Nobody
SPECIFICATION FairSpec
INVARIANTS TypeOK SnapshotOfOneInstant
PROPERTIES ImplementsOrderedMap CallsReturn
CHECK_DEADLOCK FALSE
