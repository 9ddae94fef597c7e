\* Two files of one chunk each, one of them media, over the relay and a direct path.
SPECIFICATION Spec
CONSTANTS
    Files = {"f", "g"}
    Media = {"g"}
    Large = {}
    Slots = 1
    MaxKept = 1
    MaxOffers = 2
INVARIANTS
    OfferedOnce
CHECK_DEADLOCK FALSE
