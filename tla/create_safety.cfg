CONSTANTS
    Requests = {r1, r2, r3}
    Keys = {k1, k2}
    Replicas = {p1, p2}
    NoShipment = NoShipment
    MaxConns = 3
    NumPackages = 2
    Recognising = {p2}
    MaxFaults = 2
SPECIFICATION Spec
SYMMETRY Symmetry
INVARIANTS
    CreateInv
    OneShipmentPerKey
    CommittedIsComplete
    AnswersAreDurable
    ConnsAccounted
