CONSTANTS
    Deployments <- MCDeployments
    Messages = {m1}
    MaxRotations = 2
SPECIFICATION FairSpec
INVARIANTS
    TypeOK
    SettingsDecide
PROPERTIES
    RotationEnds
