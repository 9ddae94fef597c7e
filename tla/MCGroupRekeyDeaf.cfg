\* What README.md says of recovery.
SPECIFICATION FairSpec
CONSTANTS
    NoKey = NoKey
    Host = h
    m1 = m1
    Members = {m1}
    Initial = {m1}
    MaxEpoch = 2
    MaxTries = 1
    MaxStays = 1
    Lapses <- Anywhere
PROPERTIES
    DeafMembersRecover
CHECK_DEADLOCK FALSE
