SPECIFICATION StoreSpec
CONSTANTS
    NoDir = NoDir
    MaxFaults = 1
INVARIANT MigrationPublishesAll
CHECK_DEADLOCK FALSE
