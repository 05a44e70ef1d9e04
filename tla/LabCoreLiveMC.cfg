CONSTANTS
    None = None
    Devices = {d1}
    Clients = {c1, c2}
    SessionIds = {s1, s2}
    RequestIds = {1, 2}
    Workers = {w1}
    MaxFailures = 1
    MaxFaults = 0
SPECIFICATION LiveSpec
INVARIANTS
    OnlyCleansInCleaning
    WorkConserving
PROPERTY
    EveryWaiterServed
