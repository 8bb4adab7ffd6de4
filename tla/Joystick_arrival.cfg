\* Liveness of the key path for one player.
SPECIFICATION FairSpec
CONSTANTS
  Buttons = {"joy", "down"}
  MaxEdges = 3
  Argv1 = 1
  Keyboard = {0}
  Garbage = {0}
  MaxTimeouts = 0
PROPERTIES Drained LonePressDelivered
