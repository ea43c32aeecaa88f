CONSTANTS
    a1 = a1
    a2 = a2
    NoApp = NoApp
    Apps = {a1}
    Codecs <- MCAv1
    MaxClicks = 1
    MaxQueue = 4
SPECIFICATION Spec
CHECK_DEADLOCK FALSE
PROPERTIES
    FallbackStarts
