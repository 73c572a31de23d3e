CONSTANTS
    Requests = {r1, r2}
    acme = acme
    odd = odd
    Tenants = {acme, odd}
    Plain = {acme}
    NoTenant = NoTenant
    Headers <- MCHeaders
    EnableMtls = TRUE
    MaxFaults = 2
SPECIFICATION Spec
SYMMETRY Symmetry
INVARIANTS
    TypeOK
    GaugeIsActive
    FunnelByTenant
    FailuresSurface
