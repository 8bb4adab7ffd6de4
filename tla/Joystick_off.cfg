\* One LED-off byte does not put the LED off.
SPECIFICATION LedSpec
CONSTANTS
  Buttons = {"joy"}
  MaxEdges = 0
  Argv1 = 2
  Keyboard = {0, 27}
  Garbage = {0}
  MaxTimeouts = 0
INVARIANT OffIsOff
