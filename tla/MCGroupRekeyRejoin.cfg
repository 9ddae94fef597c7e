\* One member that leaves and comes back while rotations supersede one another.
SPECIFICATION Spec
CONSTANTS
    NoKey = NoKey
    Host = h
    m1 = m1
    Members = {m1}
    Initial = {m1}
    MaxEpoch = 3
    MaxTries = 1
    MaxStays = 2
    Lapses <- AtMembers
INVARIANTS
    TypeOK
    RingsOrdered
    DepartedCannotFollow
    AckedMembersAgree
PROPERTIES
    EpochsOnlyGrow
    FollowsKeyPolicy
CHECK_DEADLOCK FALSE
