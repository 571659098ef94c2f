CONSTANTS
  Key <- MCKey
  Sought <- MCSought
SPECIFICATION Spec
INVARIANT OnEntry
PROPERTY WalksKeys
CHECK_DEADLOCK TRUE
