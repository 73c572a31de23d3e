CONSTANTS
    Requests = {r1, r2, r3}
    Keys = {k1}
    Replicas = {p1}
    NoShipment = NoShipment
    MaxConns = 2
    NumPackages = 1
    Recognising = {}
    MaxFaults = 0
SPECIFICATION Spec
INVARIANTS
    DuplicatesAreReplayed
