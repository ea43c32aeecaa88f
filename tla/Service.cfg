SPECIFICATION MCSpec
CONSTANTS
    h1 = h1
    h2 = h2
    Hosts = {h1, h2}
    NoFile = NoFile
    Unreadable = Unreadable
    None = None
    Commands = {"set-host", "pair", "pair-status", "unpair"}
    MaxOperations = 2
    MaxStarts = 2
    NoDir = NoDir
    MaxFaults = 3
INVARIANTS
    ThreadsAccounted
    TrustEarned
    StrayAfterTimeout
    FileFollowsTrust
PROPERTIES
    StopCompletes
    IdentityKept
    MigrationRecovers
CHECK_DEADLOCK FALSE
