CONSTANTS
    None = None
    Devices = {d1}
    Clients = {c1}
    SessionIds = {s1, s2}
    RequestIds = {1, 2}
    Workers = {w1, w2, w3}
    MaxFailures = 2
    MaxFaults = 1
SYMMETRY Ids
SPECIFICATION CoreSpec
INVARIANTS
    CoreTypeOK
    NoDeviceForgotten
    WorkersBelong
PROPERTIES
    FreedOnlyWhenClean
    ImplementsStore
