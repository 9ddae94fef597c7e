---- MODULE MCApp ----
(* The application on the screen and what it asks of the system, on small instances,
   one component at a time. *)
EXTENDS Naturals, Sequences

CONSTANTS
  a_MaxRooms, a_MaxGuests, a_MaxOpens,
  c_MaxShown, c_Kept, c_Times, c_MinRows, c_MaxRows, c_MaxMessages, c_MaxActs,
  r_MaxLen, r_MaxActs,
  i_Texts, i_MaxHistory, i_Kept, i_MaxActs, i_MaxUnread,
  s_MaxActs,
  u_Copies, u_MaxVersion, u_MaxFaults,
  l_Procs, l_Links, l_Cap,
  x_Streams, x_Backlog, x_Quiet, x_Late, x_MaxTime, x_MaxStops,
  d_Heights, d_Ahead, d_Lengths, d_Widths, d_Pages, d_Filters, d_Cap, d_Kept, d_MaxActs,
  d_MaxLines,
  g_Peers, g_Limit, g_Widths, g_Heights, g_Footer, g_Status, g_Ping, g_Pill, g_Volume,
  g_Name, g_Watch, g_Stop, g_Preview, g_Sound, g_HudLines, g_MaxActs,
  b_Reachable, b_Tools, b_MaxCopies, b_MaxPastes

VARIABLE part   \* the component whose steps are taken; the others stay as they start

VARIABLES a_node, a_room, a_answers, a_kick, a_screen, a_view, a_IsConnecting, a_dialogs,
  a_invite, a_armed, a_offers, a_media, a_knocks, a_kicked, a_running, a_rooms, a_guests,
  a_opens, a_crossed
VARIABLES c_Messages, c_ChatScrollOffset, c_chatMaxScroll, c_chatLineCount, c_chatPageRows,
  c_ChatHeight, c_toast, c_IsCompactMode, c_lastLines, c_view, c_drawn, c_touched, c_said,
  c_acts
VARIABLES r_shown, r_active, r_length, r_Cursor, r_selField, r_selStart, r_selEnd, r_acts
VARIABLES i_value, i_IsChatFocused, i_chatHistory, i_historyIndex, i_savedCurrentChat,
  i_UnreadChatCount, i_draft, i_arrived, i_refocused, i_acts
VARIABLES s_file, s_running, s_audio, s_device, s_chat, s_nick, s_want, s_plugged, s_saved,
  s_writer, s_chosen, s_torn, s_roomed, s_unplugged, s_acts
VARIABLES u_platform, u_install, u_signing, u_latest, u_target, u_old, u_at, u_image, u_found,
  u_tmp, u_faults, u_updaters
VARIABLES l_at, l_link, l_env, l_window, l_socket, l_bound, l_wire, l_peer, l_invites, l_asked,
  l_lost, l_starts
VARIABLES x_srcs, x_buf, x_last, x_clock, x_playing, x_due, x_now, x_emitted, x_heard, x_stops
VARIABLES d_opened, d_height, d_scroll, d_set, d_frame, d_captured, d_log, d_view, d_cut, d_acts
VARIABLES g_present, g_live, g_own, g_watched, g_volume, g_sound, g_jobs, g_seen, g_acts
VARIABLES p_all, p_server, p_sink, p_sinks, p_recs, p_broken, p_mixed, p_at, p_inputs, p_monitors,
  p_clients, p_todo, p_stop, p_changes, p_faults
VARIABLES b_owner, b_held, b_conn, b_told, b_kept, b_copy, b_asks, b_open, b_read, b_copies,
  b_last

A == INSTANCE AppScreen WITH
  MaxRooms <- a_MaxRooms, MaxGuests <- a_MaxGuests, MaxOpens <- a_MaxOpens,
  node <- a_node, room <- a_room, answers <- a_answers, kick <- a_kick,
  screen <- a_screen, view <- a_view, IsConnecting <- a_IsConnecting,
  dialogs <- a_dialogs, invite <- a_invite, armed <- a_armed, offers <- a_offers,
  media <- a_media, knocks <- a_knocks, kicked <- a_kicked, running <- a_running,
  rooms <- a_rooms, guests <- a_guests, opens <- a_opens, crossed <- a_crossed
C == INSTANCE ChatPanel WITH
  MaxShown <- c_MaxShown, Kept <- c_Kept, Times <- c_Times, MinRows <- c_MinRows,
  MaxRows <- c_MaxRows, MaxMessages <- c_MaxMessages, MaxActs <- c_MaxActs,
  Messages <- c_Messages, ChatScrollOffset <- c_ChatScrollOffset,
  chatMaxScroll <- c_chatMaxScroll, chatLineCount <- c_chatLineCount,
  chatPageRows <- c_chatPageRows, ChatHeight <- c_ChatHeight, toast <- c_toast,
  IsCompactMode <- c_IsCompactMode, lastLines <- c_lastLines, view <- c_view,
  drawn <- c_drawn, touched <- c_touched, said <- c_said, acts <- c_acts
R == INSTANCE RelayDialog WITH
  MaxLen <- r_MaxLen, MaxActs <- r_MaxActs, shown <- r_shown, active <- r_active,
  length <- r_length, Cursor <- r_Cursor, selField <- r_selField, selStart <- r_selStart,
  selEnd <- r_selEnd, acts <- r_acts
I == INSTANCE ChatInput WITH
  Texts <- i_Texts, MaxHistory <- i_MaxHistory, Kept <- i_Kept, MaxActs <- i_MaxActs,
  MaxUnread <- i_MaxUnread, value <- i_value, IsChatFocused <- i_IsChatFocused,
  chatHistory <- i_chatHistory, historyIndex <- i_historyIndex,
  savedCurrentChat <- i_savedCurrentChat, UnreadChatCount <- i_UnreadChatCount,
  draft <- i_draft, arrived <- i_arrived, refocused <- i_refocused, acts <- i_acts
S == INSTANCE Settings WITH
  MaxActs <- s_MaxActs, file <- s_file, running <- s_running, audio <- s_audio,
  device <- s_device, chat <- s_chat, nick <- s_nick, want <- s_want,
  plugged <- s_plugged, saved <- s_saved, writer <- s_writer, chosen <- s_chosen,
  torn <- s_torn, roomed <- s_roomed, unplugged <- s_unplugged, acts <- s_acts
U == INSTANCE SelfUpdate WITH
  Copies <- u_Copies, MaxVersion <- u_MaxVersion, MaxFaults <- u_MaxFaults,
  platform <- u_platform, install <- u_install, signing <- u_signing, latest <- u_latest,
  target <- u_target, old <- u_old, at <- u_at, image <- u_image, found <- u_found,
  tmp <- u_tmp, faults <- u_faults, updaters <- u_updaters
L == INSTANCE InviteLinks WITH
  Procs <- l_Procs, Links <- l_Links, Cap <- l_Cap, at <- l_at, link <- l_link,
  env <- l_env, window <- l_window, socket <- l_socket, bound <- l_bound, wire <- l_wire,
  peer <- l_peer, invites <- l_invites, asked <- l_asked, lost <- l_lost,
  starts <- l_starts
X == INSTANCE SoundMixer WITH
  Streams <- x_Streams, Backlog <- x_Backlog, Quiet <- x_Quiet, Late <- x_Late,
  MaxTime <- x_MaxTime, MaxStops <- x_MaxStops, srcs <- x_srcs, buf <- x_buf,
  last <- x_last, clock <- x_clock, playing <- x_playing, due <- x_due, now <- x_now,
  emitted <- x_emitted, heard <- x_heard, stops <- x_stops
D == INSTANCE ScrolledDialogs WITH
  Heights <- d_Heights, Ahead <- d_Ahead, Lengths <- d_Lengths, Widths <- d_Widths,
  Pages <- d_Pages, Filters <- d_Filters, Cap <- d_Cap, Kept <- d_Kept,
  MaxActs <- d_MaxActs, MaxLines <- d_MaxLines, opened <- d_opened, height <- d_height,
  scroll <- d_scroll, set <- d_set, frame <- d_frame, captured <- d_captured,
  log <- d_log, view <- d_view, cut <- d_cut, acts <- d_acts
G == INSTANCE RoomStage WITH
  Peers <- g_Peers, Limit <- g_Limit, Widths <- g_Widths, Heights <- g_Heights,
  Footer <- g_Footer, Status <- g_Status, Ping <- g_Ping, Pill <- g_Pill,
  Volume <- g_Volume, Name <- g_Name, Watch <- g_Watch, Stop <- g_Stop,
  Preview <- g_Preview, Sound <- g_Sound, HudLines <- g_HudLines, MaxActs <- g_MaxActs,
  present <- g_present, live <- g_live, own <- g_own, watched <- g_watched,
  volume <- g_volume, sound <- g_sound, jobs <- g_jobs, seen <- g_seen, acts <- g_acts
P == INSTANCE AppStreams WITH
  Own <- {"own"}, Wanted <- {"app"}, Others <- {}, OnClient <- {"own", "app"},
  MaxChanges <- 3, MaxFaults <- 1, all <- p_all, server <- p_server, sink <- p_sink,
  sinks <- p_sinks, recs <- p_recs, broken <- p_broken, mixed <- p_mixed, at <- p_at,
  inputs <- p_inputs, monitors <- p_monitors, clients <- p_clients, todo <- p_todo,
  stop <- p_stop, changes <- p_changes, faults <- p_faults
B == INSTANCE Clipboard WITH
  Reachable <- b_Reachable, Tools <- b_Tools, MaxCopies <- b_MaxCopies,
  MaxPastes <- b_MaxPastes, owner <- b_owner, held <- b_held, conn <- b_conn,
  told <- b_told, kept <- b_kept, copy <- b_copy, asks <- b_asks, open <- b_open,
  read <- b_read, copies <- b_copies, last <- b_last

\* What the components assume of their parameters
ASSUME MCAppAssumption ==
  /\ A!AppScreenAssumption
  /\ C!ChatPanelAssumption
  /\ R!RelayDialogAssumption
  /\ I!ChatInputAssumption
  /\ S!SettingsAssumption
  /\ U!SelfUpdateAssumption
  /\ L!InviteLinksAssumption
  /\ X!SoundMixerAssumption
  /\ D!ScrolledDialogsAssumption
  /\ G!RoomStageAssumption
  /\ P!AppStreamsAssumption
  /\ B!ClipboardAssumption

aVars ==
  <<a_node, a_room, a_answers, a_kick, a_screen, a_view, a_IsConnecting, a_dialogs,
    a_invite, a_armed, a_offers, a_media, a_knocks, a_kicked, a_running, a_rooms,
    a_guests, a_opens, a_crossed>>
cVars ==
  <<c_Messages, c_ChatScrollOffset, c_chatMaxScroll, c_chatLineCount, c_chatPageRows,
    c_ChatHeight, c_toast, c_IsCompactMode, c_lastLines, c_view, c_drawn, c_touched,
    c_said, c_acts>>
rVars ==
  <<r_shown, r_active, r_length, r_Cursor, r_selField, r_selStart, r_selEnd, r_acts>>
iVars ==
  <<i_value, i_IsChatFocused, i_chatHistory, i_historyIndex, i_savedCurrentChat,
    i_UnreadChatCount, i_draft, i_arrived, i_refocused, i_acts>>
sVars ==
  <<s_file, s_running, s_audio, s_device, s_chat, s_nick, s_want, s_plugged, s_saved,
    s_writer, s_chosen, s_torn, s_roomed, s_unplugged, s_acts>>
uVars ==
  <<u_platform, u_install, u_signing, u_latest, u_target, u_old, u_at, u_image, u_found,
    u_tmp, u_faults, u_updaters>>
lVars ==
  <<l_at, l_link, l_env, l_window, l_socket, l_bound, l_wire, l_peer, l_invites, l_asked,
    l_lost, l_starts>>
xVars ==
  <<x_srcs, x_buf, x_last, x_clock, x_playing, x_due, x_now, x_emitted, x_heard, x_stops>>
dVars ==
  <<d_opened, d_height, d_scroll, d_set, d_frame, d_captured, d_log, d_view, d_cut, d_acts>>
gVars ==
  <<g_present, g_live, g_own, g_watched, g_volume, g_sound, g_jobs, g_seen, g_acts>>
pVars ==
  <<p_all, p_server, p_sink, p_sinks, p_recs, p_broken, p_mixed, p_at, p_inputs,
    p_monitors, p_clients, p_todo, p_stop, p_changes, p_faults>>
bVars ==
  <<b_owner, b_held, b_conn, b_told, b_kept, b_copy, b_asks, b_open, b_read, b_copies,
    b_last>>

all == <<part, aVars, cVars, rVars, iVars, sVars, uVars, lVars, xVars, dVars, gVars, pVars, bVars>>

Init ==
  /\ part \in {"screen", "panel", "address", "line", "settings", "update", "links", "mixer", "dialogs", "stage", "streams", "clipboard"}
  /\ A!Init /\ C!Init /\ R!Init /\ I!Init
  /\ S!Init /\ U!Init /\ L!Init /\ X!Init
  /\ D!Init /\ G!Init /\ P!Init /\ B!Init
  /\ part = "screen" \/ ~a_invite
  /\ part = "panel" \/ c_ChatHeight = 1
  /\ part = "update" \/ (u_platform = "linux" /\ u_install = "own" /\ u_signing)
  /\ part = "streams" \/ p_all
  /\ part = "stage" \/ g_present = {}
  /\ part = "dialogs" \/ d_opened = "log"
  /\ d_opened = "settings" \/ d_height = CHOOSE h \in d_Heights : TRUE

Others(p) ==
  /\ part = p /\ UNCHANGED part
  /\ p = "screen" \/ UNCHANGED aVars
  /\ p = "panel" \/ UNCHANGED cVars
  /\ p = "address" \/ UNCHANGED rVars
  /\ p = "line" \/ UNCHANGED iVars
  /\ p = "settings" \/ UNCHANGED sVars
  /\ p = "update" \/ UNCHANGED uVars
  /\ p = "links" \/ UNCHANGED lVars
  /\ p = "mixer" \/ UNCHANGED xVars
  /\ p = "dialogs" \/ UNCHANGED dVars
  /\ p = "stage" \/ UNCHANGED gVars
  /\ p = "streams" \/ UNCHANGED pVars
  /\ p = "clipboard" \/ UNCHANGED bVars

Next ==
  \/ Others("screen") /\ A!Next
  \/ Others("panel") /\ C!Next
  \/ Others("address") /\ R!Next
  \/ Others("line") /\ I!Next
  \/ Others("settings") /\ S!Next
  \/ Others("update") /\ U!Next
  \/ Others("links") /\ L!Next
  \/ Others("mixer") /\ X!Next
  \/ Others("dialogs") /\ D!Next
  \/ Others("stage") /\ G!Next
  \/ Others("streams") /\ P!Next
  \/ Others("clipboard") /\ B!Next

\* The fairness of each component
Fairness ==
  /\ WF_(pVars)(part = "streams" /\ P!Scan)
  /\ \A x \in B!Conns: WF_(bVars)(part = "clipboard" /\ B!Lost(x))

Spec == Init /\ [][Next]_all /\ Fairness

-----------------------------------------------------------------------------
\* Every component is in a state the code can be in.
TypeOK ==
  /\ part = "screen" => A!TypeOK
  /\ part = "panel" => C!TypeOK
  /\ part = "address" => R!TypeOK
  /\ part = "line" => I!TypeOK
  /\ part = "settings" => S!TypeOK
  /\ part = "update" => U!TypeOK
  /\ part = "links" => L!TypeOK
  /\ part = "mixer" => X!TypeOK
  /\ part = "dialogs" => D!TypeOK
  /\ part = "stage" => G!TypeOK
  /\ part = "streams" => P!TypeOK
  /\ part = "clipboard" => B!TypeOK

\* What is drawn is what gets the keys, the room on screen is the room the node is in,
\* a setting that is not shown can be scrolled to, no member of a room is drawn over another,
\* and the volume of each is where it is drawn.
ScreenAndKeysAgree ==
  /\ part = "screen" => A!KeysGoToWhatIsDrawn
  /\ part = "screen" => A!ScreenShowsTheRoom
  /\ part = "dialogs" => D!SettingsStayInReach
  /\ part = "stage" => G!MembersAreShown
  /\ part = "stage" => G!VolumeIsAtHand

\* Cursors and selections stay inside the text, and a draft comes back as it was.
TypedTextIsKept ==
  /\ part = "address" => R!CursorsStayInside
  /\ part = "line" => I!DraftComesBack

\* What the user chose is in the file when the program has ended, as far as Settings says: no
\* two writes crossed, none broke off, and nothing stood in for a device that was gone.
ChoicesAreSaved == part = "settings" => S!ChoicesAreSaved

\* A program is left to start, however many updates meet when nothing fails, or if one step of
\* the only copy that updates does.
ProgramSurvives == part = "update" => U!ProgramSurvives

\* A link the user opened is asked about by some process, and processes do not multiply.
LinkIsTaken ==
  /\ part = "links" => L!LinkIsTaken
  /\ part = "links" => L!FewProcesses

\* The mixer gives out frames as fast as time passes.
OutputKeepsPace == part = "mixer" => X!OutputKeepsPace

\* A paste gets what was copied last.
CopiedTextIsPasted == part = "clipboard" => B!CopiedTextIsPasted

\* The lines and settings a user scrolled to are shown and stay where they are, and a click
\* is for the setting or the member that is drawn under it.
ScrolledViewStays ==
  /\ C!ScrolledViewStays
  /\ D!LogStaysPut
  /\ D!ScrollReachesAll
  /\ D!ClickMeansTheRow
  /\ G!ClickIsForTheMember

\* In the end the sound that should be is shared, and no connection to a display is left over.
ServicesSettle ==
  /\ part = "streams" => P!SharesWhatItShould
  /\ part = "clipboard" => B!ConnectionsEnd
====
