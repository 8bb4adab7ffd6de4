\* The LED path for two players, who can both open the pause menu, any number
\* of times; either command of a pair, or both, may be given up.
SPECIFICATION LedSpec
CONSTANTS
  Buttons = {"joy"}
  MaxEdges = 0
  Argv1 = 2
  Keyboard = {0, 27}
  Garbage = {0}
  MaxTimeouts = 2
INVARIANT LedSettled
PROPERTY LedFollows
