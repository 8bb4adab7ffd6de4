CONSTANTS
  Lists <- MCLists
  KeyCodes = {33, 34, 36, 40, 48}
  Garbage = {0, 27, 255}
SPECIFICATION Spec
INVARIANTS TypeOK SuccessMeansUsable EndpointsInPlace RefusalsExplained
CHECK_DEADLOCK FALSE
