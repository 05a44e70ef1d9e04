CONSTANTS
    None = None
    Devices = {d1, d2}
    Clients = {c1, c2}
    SessionIds = {s1, s2}
    RequestIds = {1, 2}
    MaxFailures = 2
SYMMETRY Ids
SPECIFICATION Spec
INVARIANTS
    TypeOK
    OwnershipAgrees
    FencesNeverReused
    OnePlacePerClient
    NoOvertaking
PROPERTIES
    ImplementsPlaces
    ImplementsLeases
