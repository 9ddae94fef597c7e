SPECIFICATION Spec
CONSTANTS
    None = None
    f = f
    a = a
    b = b
    Ids = {f, a}
    Founder = f
    Conns <- FounderReturns
    MaxMembers = 2
    MaxPending = 1
INVARIANTS
    HostReclaimsRoom
CHECK_DEADLOCK FALSE
