CONSTANTS
    Patches = {p1, p2, p3}
    Shipments = {s1, s2}
    Existing = {s1}
    Statuses = {a, b}
    Nothing = Nothing
    MaxFaults = 2
SPECIFICATION Spec
SYMMETRY Symmetry
INVARIANTS
    TypeOK
    AuditIsTruthful
    QuietAuditIsWhole
