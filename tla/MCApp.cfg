\* The application on the screen and what it asks of the system.
SPECIFICATION Spec
CONSTANTS
    a_MaxRooms = 2
    a_MaxGuests = 1
    a_MaxOpens = 2
    c_MaxShown = 2
    c_Kept = 1
    c_Times = {1, 2}
    c_MinRows = 1
    c_MaxRows = 2
    c_MaxMessages = 3
    c_MaxActs = 2
    r_MaxLen = 2
    r_MaxActs = 5
    i_Texts = {"a", "b"}
    i_MaxHistory = 2
    i_Kept = 1
    i_MaxActs = 10
    i_MaxUnread = 1
    s_MaxActs = 6
    u_Copies = {1, 2}
    u_MaxVersion = 2
    u_MaxFaults = 2
    l_Procs = {1, 2, 3}
    l_Links = {"x", "y"}
    l_Cap = 1
    x_Streams = {1, 2}
    x_Backlog = 5
    x_Quiet = 3
    x_Late = 1
    x_MaxTime = 8
    x_MaxStops = 2
    d_Heights = {2, 13, 18}
    d_Ahead = 1
    d_Lengths = {5}
    d_Widths = {3, 4}
    d_Pages = {1, 2}
    d_Filters = 2
    d_Cap = 3
    d_Kept = 2
    d_MaxActs = 1
    d_MaxLines = 4
    g_Peers = {1, 2}
    g_Limit = 4
    g_Widths = {60}
    g_Heights = {12, 24}
    g_Footer = 3
    g_Status = 5
    g_Ping = 3
    g_Pill = 6
    g_Volume = 12
    g_Name = 20
    g_Watch = 6
    g_Stop = 8
    g_Preview = 8
    g_Sound = 14
    g_HudLines = 1
    g_MaxActs = 3
    b_Reachable = {"wayland", "x11"}
    b_Tools = 1
    b_MaxCopies = 2
    b_MaxPastes = 1
INVARIANTS
    TypeOK
    ScreenAndKeysAgree
    TypedTextIsKept
    ChoicesAreSaved
    ProgramSurvives
    LinkIsTaken
    OutputKeepsPace
    CopiedTextIsPasted
PROPERTIES
    ScrolledViewStays
    ServicesSettle
CHECK_DEADLOCK FALSE
