\* One player, ch2 never assigned: it may hold 27.
SPECIFICATION Spec
CONSTANTS
  Buttons = {"joy"}
  MaxEdges = 3
  Argv1 = 1
  Keyboard = {0}
  Garbage = {0, 27}
  MaxTimeouts = 0
PROPERTY PauseByJoystick
