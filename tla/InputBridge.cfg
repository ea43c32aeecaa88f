CONSTANTS
    Ids = {1, 2}
    SlotCount = 2
    Buttons = {"A", "Y", "Start"}
    MouseButtons = {"A"}
    Start = "Start"
    MaxOutbox = 1
SPECIFICATION BridgeSpec
INVARIANTS
    BridgeTypeOK
    SlotsAgree
    MouseHeldByController
    PadHeldByController
