CONSTANTS
    None = None
    Sockets = {k1}
    MaxChanges = 2
    BufferCap = 2
    MaxDecodes = 2
SPECIFICATION FairFrameSpec
INVARIANTS
    FrameTypeOK
    LatestFrameWins
PROPERTY
    PictureCatchesUp
