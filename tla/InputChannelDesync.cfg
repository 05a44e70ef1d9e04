CONSTANTS
    None = None
    MaxSends = 2
    MaxPending = 2
    MaxFaults = 1
SPECIFICATION InputSpec
INVARIANT
    ResumesInStep
CHECK_DEADLOCK FALSE
