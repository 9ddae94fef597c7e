\* The founder or a member loses its connection and comes back.
SPECIFICATION EitherSpec
CONSTANTS
    None = None
    f = f
    a = a
    b = b
    Ids = {f, a}
    Founder = f
    Conns <- PairReturns
    MaxMembers = 2
    MaxPending = 1
INVARIANTS
    TypeOK
    TokenIsTheHosts
    RoomIsConsistent
    GraceIsLimited
PROPERTIES
    FollowsRoomHosting
    RoomIsGivenUp
CHECK_DEADLOCK FALSE
