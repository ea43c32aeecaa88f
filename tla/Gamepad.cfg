CONSTANTS
    Ids <- ControllerIds
    Pads <- OnePad
    SlotCount = 1
    Buttons = {"Start"}
    MouseButtons = {}
    Start = "Start"
    MaxOutbox = 1
    MaxId = 2
    MaxInFlight = 2
    Lossy = TRUE
SPECIFICATION FairLinkSpec
INVARIANTS
    ControllersAgree
    MouseModeShown
PROPERTY HostFollows
CHECK_DEADLOCK FALSE
