CONSTANTS
    Mode = "auto"
    MaxSessions = 2
    MaxStreams = 3
    MaxCrashes = 1
SPECIFICATION FairScreenSpec
INVARIANTS
    StreamTypeOK
    RuntimeHasDevice
    RestartsOnce
    
    OnlyKnownLeaks
PROPERTIES
    LeasesAsStored
    NeverDarkForGood
CHECK_DEADLOCK FALSE
