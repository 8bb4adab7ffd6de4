\* The key path with two buttons, four edges and a usb_send that gives up.
SPECIFICATION Spec
CONSTANTS
  Buttons = {"joy", "down"}
  MaxEdges = 4
  Argv1 = 1
  Keyboard = {0}
  Garbage = {0}
  MaxTimeouts = 1
INVARIANTS TypeOK InOrder OneSendPerEdge StartFlag
PROPERTY KeyPath
