CONSTANTS
    Calls = {c1, c2}
    Gets = {g1}
    Shipments = {s1, s2}
    Packages = {p1, p2}
    MaxFaults = 2
SPECIFICATION FairSpec
INVARIANTS
    TypeOK
    ToldLabelsAreStored
    GetShowsToldLabels
    GetShowsWholeShipment
PROPERTIES
    CallsEnd
