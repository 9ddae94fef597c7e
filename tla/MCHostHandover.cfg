\* Three members and no relay; one leaves in the middle of a rotation.
SPECIFICATION Spec
CONSTANTS
    Nodes = {1, 2, 3}
    FirstHost = 3
    Relay = FALSE
    MaxEpoch = 3
    MaxLeaves = 1
    MaxLosses = 0
INVARIANTS
    AckedMembersFollow
CHECK_DEADLOCK FALSE
