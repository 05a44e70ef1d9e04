CONSTANTS
    None = None
    MaxSends = 3
    MaxPending = 2
    MaxFaults = 1
SPECIFICATION FairInputSpec
INVARIANTS
    InputTypeOK
    AtMostOneLate
PROPERTIES
    InSendOrder
    NoReplay
    EveryCommandAnswered
CHECK_DEADLOCK FALSE
