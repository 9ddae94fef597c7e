\* The components of sound and screen and the queues of the relay.
SPECIFICATION Spec
CONSTANTS
    v_Wrap = 64
    v_First = 2
    v_Slots = 2
    v_TooOld = 1
    v_Targets = {1, 2}
    v_MaxConceal = 1
    v_ResyncGap = 1
    v_MaxBuffered = 3
    v_Slack = 0
    v_TrimAfter = 1
    v_Hangover = 1
    v_PreRoll = 1
    v_MaxFrames = 3
    c_MaxActs = 3
    d_Devices = {"usb"}
    d_MaxStreams = 3
    d_MaxChanges = 2
    m_MaxMoves = 4
    r_MaxSeq = 3
    r_Slots = 2
    r_Cap = 2
    r_MaxGap = 1
    r_MaxWait = 2
    r_Grace = 1
    r_Retry = 1
    r_MaxNacks = 1
    r_MaxWatches = 1
    r_MaxReopens = 1
    s_MaxShares = 2
    s_MaxViews = 2
    s_MaxEvents = 1
    s_MaxActs = 3
    e_MaxGens = 3
INVARIANTS
    TypeOK
    OnlyMeantSoundIsSent
    ResourcesAreOwned
    ChosenDeviceIsUsed
PROPERTIES
    PlayedAsRecorded
    PlaybackGoesOn
    SwitchesTakeEffect
    SignalGoesOut
    SharingEnds
CHECK_DEADLOCK FALSE
