CONSTANTS
    i1 = i1
    i2 = i2
    Instances = {i1, i2}
    Deployments <- MCDeployments
    MaxFaults = 0
SPECIFICATION Spec
INVARIANTS
    SkippedWasApplied
