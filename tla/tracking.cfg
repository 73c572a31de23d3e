CONSTANTS
    e1 = e1
    e2 = e2
    e3 = e3
    Events <- MCEvents
    TypeOf <- MCTypeOf
    Trackers = {t1, t2}
    Shipments = {s1, s2}
    Limit = 2
    MaxFaults = 1
SPECIFICATION Spec
SYMMETRY Symmetry
INVARIANTS
    TypeOK
    NoStaleStatus
    StatusMovesOn
    HistoryIsWhole
