CONSTANTS
    a1 = a1
    a2 = a2
    NoApp = NoApp
    Apps = {a1, a2}
    Codecs <- MCCodecs
    MaxClicks = 2
    MaxQueue = 4
    Hosts = {h1, h2}
    None = None
    NoValue = NoValue
SPECIFICATION MCSpec
CHECK_DEADLOCK FALSE
INVARIANTS
    StreamIdKnown
    CancelHidesStream
    CancellationSent
    ActiveSavedOnce
PROPERTIES
    LeaseSpec
    StopReleases
    OnlyOlderListsReturn
