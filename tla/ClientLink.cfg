CONSTANTS
    None = None
    MaxRequests = 1
    MaxSockets = 2
    MaxEvents = 2
SPECIFICATION FairLinkSpec
INVARIANTS
    LinkTypeOK
    NothingLeftHanging
    TabAgrees
PROPERTIES
    MovesAsStored
    UnattendedIsReleased
CHECK_DEADLOCK FALSE
