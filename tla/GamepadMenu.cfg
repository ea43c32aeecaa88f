CONSTANTS
    Ids <- ControllerIds
    Pads <- OnePad
    SlotCount = 1
    Buttons = {"A", "Start"}
    MouseButtons = {"A"}
    Start = "Start"
    MaxOutbox = 1
    MaxId = 1
    MaxInFlight = 1
    Lossy = FALSE
SPECIFICATION LinkSpec
INVARIANT MenuHoldsNothing
CHECK_DEADLOCK FALSE
