\* Three nodes: the room is full, or the relay has a choice of hosts.
SPECIFICATION SizesSpec
CONSTANTS
    None = None
    f = f
    a = a
    b = b
    Ids = {f, a, b}
    Founder = f
    Conns <- Three
    MaxMembers = 3
    MaxPending = 2
SYMMETRY Symmetry
INVARIANTS
    EveryRoomFits
PROPERTIES
    FollowsRoomHosting
CHECK_DEADLOCK FALSE
