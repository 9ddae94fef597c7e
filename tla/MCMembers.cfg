\* What the members of a room do among themselves.
SPECIFICATION Spec
CONSTANTS
    NoKey = NoKey
    h_Nodes = {1, 2, 3}
    h_FirstHost = 3
    h_Relay = TRUE
    h_MaxEpoch = 2
    h_MaxLeaves = 1
    h_MaxLosses = 1
    a_Joiners = {"a", "b"}
    a_Limit = 2
    a_MaxPeers = 3
    a_MaxSessions = 1
    a_MaxAttempts = 2
    a_MaxServers = 2
    a_MaxSwitches = 1
    t_Members = {1, 2}
    t_Founders = {1}
    t_Host = 1
    t_Long = {2}
    t_Limit = 2
    t_MaxSaid = 2
    t_MaxJoins = 1
    t_MaxSwitches = 1
INVARIANTS
    TypeOK
    HostsAgree
    DoorIsKept
    KnockersAreAsked
    ShownOnce
PROPERTIES
    EveryFileIsOffered
    MembersRecover
CHECK_DEADLOCK FALSE
