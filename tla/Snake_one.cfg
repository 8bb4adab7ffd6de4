\* One player (argv[1] = 3 counts as 1), two bonus slots, growth up to a snake
\* that can bite itself.
SPECIFICATION Spec
CONSTANTS
  Argv1 = 3
  Keyboard = {0}
  Garbage = {0}
  Keys = {0, 33, 34, 36, 40, 48}
  MenuKeys = {33}
  MAX_BONUS = 2
  Amounts = {3}
  Sizes <- OneSize
  MaxScore = 3
INVARIANTS
  TypeOK LengthIsScore Chain ShortIsSafe BodyInside OnlyHeadCrashes
  BonusAccounting
CHECK_DEADLOCK FALSE
