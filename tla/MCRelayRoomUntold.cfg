SPECIFICATION Spec
CONSTANTS
    None = None
    f = f
    a = a
    b = b
    Ids = {f, a}
    Founder = f
    Conns <- MemberReturns
    MaxMembers = 2
    MaxPending = 1
INVARIANTS
    NamedHostKnows
CHECK_DEADLOCK FALSE
