\* A terminal resized to six rows while a bonus is drawn.
SPECIFICATION Spec
CONSTANTS
  Argv1 = 2
  Keyboard = {27, 259, 260, 410}
  Garbage = {0}
  Keys = {34, 40, 48}
  MenuKeys = {33}
  MAX_BONUS = 1
  Amounts = {1}
  Sizes <- TwoSizes
  MaxScore = 2
INVARIANT ResizeSurvived
CHECK_DEADLOCK FALSE
