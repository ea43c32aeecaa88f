CONSTANTS
    a1 = a1
    NoApp = NoApp
    Apps = {a1}
    Codecs <- MCCodecs
    Kinds <- AllKinds
    MaxSessions = 1
SPECIFICATION FairSpec
PROPERTIES
    HandlerCompletes
    StopHonoured
