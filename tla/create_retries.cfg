CONSTANTS
    r1 = r1
    r2 = r2
    r3 = r3
    k1 = k1
    k2 = k2
    Requests <- MCRequests
    Keys <- MCKeys
    p1 = p1
    p2 = p2
    Replicas <- MCReplicas
    NoShipment = NoShipment
    MaxConns = 3
    NumPackages = 1
    Recognising <- MCRecognising
    MaxFaults = 2
SPECIFICATION MCSpec
INVARIANTS
    RetriesInv
    SameKeySameShipment
    QuietFailuresAreDuplicates
PROPERTIES
    KeepsPromise
    ClientsPromise
    RetriesTakeEffect
