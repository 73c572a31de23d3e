CONSTANTS
    m1 = m1
    m2 = m2
    shipments = shipments
    labels = labels
    Messages <- MCMessages
    Families <- MCFamilies
    FamilyOf <- MCFamilyOf
    Parked <- MCParked
    DlqOrder <- MCDlqOrder
    Sessions = {s1, s2}
    Commands = {"analyze", "peek", "dryrun", "replay"}
    Limit = 2
    Threshold = 2
    MaxDeaths = 2
    MaxCrashes = 1
SPECIFICATION FairSpec
INVARIANTS
    TypeOK
    OnlyInspectedIsLost
PROPERTIES
    KeepsReplayPromise
    SessionsEnd
