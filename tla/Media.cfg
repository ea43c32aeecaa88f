SPECIFICATION MCSpec
CONSTANTS
    Settings <- MCSettings
    MaxRequests = 2
    SlotCount = 2
    Holders = {h1, h2, h3}
    NoSlot = NoSlot
    MaxFrames = 4
    SessionIds = {1, 2}
    Values = {1, 2, 3}
    MaxFileSize = 6
    MaxSamples = 3
    VideoSamples <- MCVideoSamples
    AudioSamples <- MCAudioSamples
    Encodings <- MCEncodings
    MaxNals = 5
    MaxPages = 3
    MaxSegments = 2
    MaxSent = 4
INVARIANTS
    TypeOK
    ReferencesWhole
    HdrVerdict
    LeasesIntact
    NoSlotLost
    LogBounded
    SummaryFaithful
    SamplesCut
    TestKeyframeServed
PROPERTY KeyframeServed
CHECK_DEADLOCK FALSE
