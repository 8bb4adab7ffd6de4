CONSTANTS
  Lists <- MCPad
  KeyCodes = {33, 34, 36, 40, 48}
  Garbage = {27}
SPECIFICATION Spec
INVARIANT KeyFromPad
CHECK_DEADLOCK FALSE
