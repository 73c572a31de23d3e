CONSTANTS
    i1 = i1
    i2 = i2
    i3 = i3
    a = a
    b = b
    x = x
    y = y
    Instances = {i1, i2, i3}
    Deployments <- MCDeployments
    Configured <- MCConfigured
    Emails = {a, b}
    Passwords = {x, y}
    NoUser = NoUser
    MaxFaults = 2
SPECIFICATION UsersFairSpec
INVARIANTS
    UsersTypeOK
    ServingHasSchema
    LedgerIsTruthful
    AdminCanSignIn
    ToldAccountsWork
PROPERTIES
    AllServe
