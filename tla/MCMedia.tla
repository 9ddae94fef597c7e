---- MODULE MCMedia ----
(* The components of sound and screen, and the queues of the relay that carry them,
   on small instances, one at a time. *)
EXTENDS Naturals, Sequences

CONSTANTS
  v_Wrap, v_First, v_Slots, v_TooOld, v_Targets, v_MaxConceal, v_ResyncGap, v_MaxBuffered,
  v_Slack, v_TrimAfter, v_Hangover, v_PreRoll, v_MaxFrames,
  c_MaxActs,
  d_Devices, d_MaxStreams, d_MaxChanges,
  m_MaxMoves,
  r_MaxSeq, r_Slots, r_Cap, r_MaxGap, r_MaxWait, r_Grace, r_Retry, r_MaxNacks,
  r_MaxWatches, r_MaxReopens,
  s_MaxShares, s_MaxViews, s_MaxEvents, s_MaxActs,
  e_MaxGens

VARIABLE part   \* the component whose steps are taken; the others stay as they start

VARIABLES v_captured, v_silenceHangover, v_audioPreRoll, v_sent, v_spoken, v_net, v_seqs,
  v_maxSeq, v_packets, v_started, v_next, v_target, v_concealRun, v_lastSpeaking,
  v_highWater, v_played, v_again
VARIABLES c_screen, c_Muted, c_Deafened, c_InTestMode, c_PrevMuted, c_PrevDeafened, c_Loopback,
  c_showTestModal, c_meant, c_frame, c_heard, c_told, c_shown, c_acts
VARIABLES d_plugged, d_changes, d_InputDevices, d_SelectedInput, d_wantInput, d_running, d_opened,
  d_closed, d_twice, d_captureStream, d_step, d_hand, d_overlapped, d_listed, d_simulated
VARIABLES m_source, m_microphone, m_onMonitor, m_looking, m_seen, m_sent, m_moves
VARIABLES k_GlobalPTT, k_pushToTalk, k_key, k_pttKey, k_pttWatcher, k_starting, k_keyOf, k_portals,
  k_alive, k_closed, k_down, k_IsPTTActive, k_unreported, k_held, k_acts
VARIABLES r_seq, r_keys, r_ring, r_lastKey, r_watching, r_replay, r_live, r_retx, r_net, r_nacks,
  r_rx, r_queue, r_skipToKey, r_hand, r_fed, r_gone, r_oldPump, r_released, r_hole, r_watches,
  r_reopens
VARIABLES q_up, q_upStep, q_waiting, q_down, q_ctrl, q_downStep, q_closed, q_active, q_bound,
  q_followed
VARIABLES s_connected, s_leaving, s_starting, s_share, s_made, s_running, s_closing, s_stopsDue,
  s_registered, s_opening, s_preview, s_air, s_asks, s_knows, s_begun, s_viewer,
  s_players, s_loops, s_closes, s_views, s_events
VARIABLES e_stopped, e_restarting, e_finished, e_cancelled, e_gen, e_started, e_alive, e_killed,
  e_waits, e_step

V == INSTANCE VoicePath WITH
  Wrap <- v_Wrap, First <- v_First, Slots <- v_Slots, TooOld <- v_TooOld,
  Targets <- v_Targets, MaxConceal <- v_MaxConceal, ResyncGap <- v_ResyncGap,
  MaxBuffered <- v_MaxBuffered, Slack <- v_Slack, TrimAfter <- v_TrimAfter,
  Hangover <- v_Hangover, PreRoll <- v_PreRoll, MaxFrames <- v_MaxFrames,
  captured <- v_captured, silenceHangover <- v_silenceHangover,
  audioPreRoll <- v_audioPreRoll, sent <- v_sent, spoken <- v_spoken, net <- v_net,
  seqs <- v_seqs, maxSeq <- v_maxSeq, packets <- v_packets, started <- v_started,
  next <- v_next, target <- v_target, concealRun <- v_concealRun,
  lastSpeaking <- v_lastSpeaking, highWater <- v_highWater, played <- v_played,
  again <- v_again
C == INSTANCE VoiceControls WITH
  MaxActs <- c_MaxActs, screen <- c_screen, Muted <- c_Muted, Deafened <- c_Deafened,
  InTestMode <- c_InTestMode, PrevMuted <- c_PrevMuted, PrevDeafened <- c_PrevDeafened,
  Loopback <- c_Loopback, showTestModal <- c_showTestModal, meant <- c_meant,
  frame <- c_frame, heard <- c_heard, told <- c_told, shown <- c_shown, acts <- c_acts
D == INSTANCE AudioDevices WITH
  Devices <- d_Devices, MaxStreams <- d_MaxStreams, MaxChanges <- d_MaxChanges,
  plugged <- d_plugged, changes <- d_changes, InputDevices <- d_InputDevices,
  SelectedInput <- d_SelectedInput, wantInput <- d_wantInput, running <- d_running,
  opened <- d_opened, closed <- d_closed, twice <- d_twice,
  captureStream <- d_captureStream, step <- d_step, hand <- d_hand, overlapped <- d_overlapped, listed <- d_listed,
  simulated <- d_simulated
M == INSTANCE CaptureSource WITH
  MaxMoves <- m_MaxMoves, source <- m_source, microphone <- m_microphone,
  onMonitor <- m_onMonitor, looking <- m_looking, seen <- m_seen, sent <- m_sent,
  moves <- m_moves
K == INSTANCE PushToTalk WITH
  Keys <- {1, 2}, MaxWatchers <- 3, MaxActs <- 4,
  GlobalPTT <- k_GlobalPTT, pushToTalk <- k_pushToTalk, key <- k_key, pttKey <- k_pttKey,
  pttWatcher <- k_pttWatcher, starting <- k_starting, keyOf <- k_keyOf, alive <- k_alive,
  portals <- k_portals, closed <- k_closed, down <- k_down, IsPTTActive <- k_IsPTTActive,
  unreported <- k_unreported, held <- k_held, acts <- k_acts
R == INSTANCE VideoPath WITH
  MaxSeq <- r_MaxSeq, Slots <- r_Slots, Cap <- r_Cap, MaxGap <- r_MaxGap,
  MaxWait <- r_MaxWait, Grace <- r_Grace, Retry <- r_Retry, MaxNacks <- r_MaxNacks,
  MaxWatches <- r_MaxWatches, MaxReopens <- r_MaxReopens, seq <- r_seq, keys <- r_keys,
  ring <- r_ring, lastKey <- r_lastKey, watching <- r_watching, replay <- r_replay,
  live <- r_live, retx <- r_retx, net <- r_net, nacks <- r_nacks, rx <- r_rx,
  queue <- r_queue, skipToKey <- r_skipToKey, hand <- r_hand, fed <- r_fed,
  gone <- r_gone, oldPump <- r_oldPump, released <- r_released, hole <- r_hole, watches <- r_watches, reopens <- r_reopens
Q == INSTANCE RelayQueues WITH
  Caps <- [realtime |-> 1, reliable |-> 1, bulk |-> 2], CtrlCap <- 1, up <- q_up,
  upStep <- q_upStep, waiting <- q_waiting, down <- q_down, ctrl <- q_ctrl,
  downStep <- q_downStep, closed <- q_closed, active <- q_active, bound <- q_bound,
  followed <- q_followed
S == INSTANCE ScreenShare WITH
  MaxShares <- s_MaxShares, MaxViews <- s_MaxViews, MaxEvents <- s_MaxEvents,
  MaxActs <- s_MaxActs, connected <- s_connected, leaving <- s_leaving,
  starting <- s_starting, share <- s_share, made <- s_made, running <- s_running,
  closing <- s_closing, stopsDue <- s_stopsDue, registered <- s_registered,
  opening <- s_opening, preview <- s_preview, air <- s_air, asks <- s_asks,
  knows <- s_knows, begun <- s_begun, viewer <- s_viewer, players <- s_players,
  loops <- s_loops, closes <- s_closes, views <- s_views, events <- s_events
E == INSTANCE CaptureSession WITH
  MaxGens <- e_MaxGens, stopped <- e_stopped, restarting <- e_restarting,
  finished <- e_finished, cancelled <- e_cancelled, gen <- e_gen, started <- e_started,
  alive <- e_alive, killed <- e_killed, waits <- e_waits, step <- e_step

\* What the components assume of their parameters
ASSUME MCMediaAssumption ==
  /\ V!VoicePathAssumption
  /\ C!VoiceControlsAssumption
  /\ D!AudioDevicesAssumption
  /\ M!CaptureSourceAssumption
  /\ R!VideoPathAssumption
  /\ S!ScreenShareAssumption
  /\ E!CaptureSessionAssumption

vVars ==
  <<v_captured, v_silenceHangover, v_audioPreRoll, v_sent, v_spoken, v_net, v_seqs,
    v_maxSeq, v_packets, v_started, v_next, v_target, v_concealRun, v_lastSpeaking,
    v_highWater, v_played, v_again>>
cVars ==
  <<c_screen, c_Muted, c_Deafened, c_InTestMode, c_PrevMuted, c_PrevDeafened, c_Loopback,
    c_showTestModal, c_meant, c_frame, c_heard, c_told, c_shown, c_acts>>
dVars ==
  <<d_plugged, d_changes, d_InputDevices, d_SelectedInput, d_wantInput, d_running,
    d_opened, d_closed, d_twice, d_captureStream, d_step, d_hand, d_overlapped, d_listed,
    d_simulated>>
mVars ==
  <<m_source, m_microphone, m_onMonitor, m_looking, m_seen, m_sent, m_moves>>
kVars ==
  <<k_GlobalPTT, k_pushToTalk, k_key, k_pttKey, k_pttWatcher, k_starting, k_keyOf,
    k_portals, k_alive, k_closed, k_down, k_IsPTTActive, k_unreported, k_held, k_acts>>
rVars ==
  <<r_seq, r_keys, r_ring, r_lastKey, r_watching, r_replay, r_live, r_retx, r_net,
    r_nacks, r_rx, r_queue, r_skipToKey, r_hand, r_fed, r_gone, r_oldPump, r_released,
    r_hole, r_watches, r_reopens>>
qVars ==
  <<q_up, q_upStep, q_waiting, q_down, q_ctrl, q_downStep, q_closed, q_active, q_bound,
    q_followed>>
sVars ==
  <<s_connected, s_leaving, s_starting, s_share, s_made, s_running, s_closing, s_stopsDue,
    s_registered, s_opening, s_preview, s_air, s_asks, s_knows, s_begun, s_viewer,
    s_players, s_loops, s_closes, s_views, s_events>>
eVars ==
  <<e_stopped, e_restarting, e_finished, e_cancelled, e_gen, e_started, e_alive, e_killed,
    e_waits, e_step>>

all == <<part, vVars, cVars, dVars, mVars, kVars, rVars, qVars, sVars, eVars>>

Init ==
  /\ part \in {"voice", "switches", "devices", "source", "key", "video", "queues", "share", "encoder"}
  /\ V!Init /\ C!Init /\ D!Init /\ M!Init
  /\ K!Init /\ R!Init /\ Q!Init /\ S!Init
  /\ E!Init
  /\ part = "devices" \/ (d_plugged = {} /\ d_simulated = 0)
  /\ part = "source" \/ m_source = "mic"
  /\ part = "key" \/ k_key = 1

Others(p) ==
  /\ part = p /\ UNCHANGED part
  /\ p = "voice" \/ UNCHANGED vVars
  /\ p = "switches" \/ UNCHANGED cVars
  /\ p = "devices" \/ UNCHANGED dVars
  /\ p = "source" \/ UNCHANGED mVars
  /\ p = "key" \/ UNCHANGED kVars
  /\ p = "video" \/ UNCHANGED rVars
  /\ p = "queues" \/ UNCHANGED qVars
  /\ p = "share" \/ UNCHANGED sVars
  /\ p = "encoder" \/ UNCHANGED eVars

Next ==
  \/ Others("voice") /\ V!Next
  \/ Others("switches") /\ C!Next
  \/ Others("devices") /\ D!Next
  \/ Others("source") /\ M!Next
  \/ Others("key") /\ K!Next
  \/ Others("video") /\ R!Next
  \/ Others("queues") /\ Q!Next
  \/ Others("share") /\ S!Next
  \/ Others("encoder") /\ E!Next

\* The fairness of each component
Fairness ==
  /\ WF_(vVars)(part = "voice" /\ V!Pull)
  /\ WF_(cVars)(part = "switches" /\ C!Ping)
  /\ WF_(cVars)(part = "switches" /\ C!Refresh)
  /\ WF_(kVars)(part = "key" /\ K!Work)
  /\ WF_(rVars)(part = "video" /\ R!Loop)
  /\ WF_(qVars)(part = "queues" /\ (Q!DownLook \/ Q!DownTake))
  /\ WF_(sVars)(part = "share" /\ S!Work)
  /\ WF_(sVars)(part = "share" /\ S!Asks)
  /\ WF_(sVars)(part = "share" /\ S!Stall)
  /\ WF_(sVars)(part = "share" /\ S!ExpireWatcher)
  /\ WF_(eVars)(part = "encoder" /\ E!Work)

Spec == Init /\ [][Next]_all /\ Fairness

-----------------------------------------------------------------------------
\* Every component is in a state the code can be in.
TypeOK ==
  /\ part = "voice" => V!TypeOK
  /\ part = "switches" => C!TypeOK
  /\ part = "devices" => D!TypeOK
  /\ part = "source" => M!TypeOK
  /\ part = "key" => K!TypeOK
  /\ part = "video" => R!TypeOK
  /\ part = "queues" => Q!TypeOK
  /\ part = "share" => S!TypeOK
  /\ part = "encoder" => E!TypeOK

\* Voice is played as it was spoken; the video of a share leaves the reorder buffer in order, and
\* its player is fed without holes, or from a keyframe on, except for what was queued for a
\* player that was replaced.
PlayedAsRecorded ==
  /\ [](part = "voice" => V!PlayedInOrder)
  /\ [](part = "video" => R!NoHoleButAtKeyframe)
  /\ R!ReleasedInOrder

\* A jitter buffer that plays gets through what it holds, and a chunk of video held back is
\* released or dropped in the end.
PlaybackGoesOn ==
  /\ part = "voice" => V!PlayoutGoesOn
  /\ part = "video" => R!GapNeverFreezes

\* What was said while muted is never heard, nor a monitor once it was seen.
OnlyMeantSoundIsSent ==
  /\ part = "switches" => C!MutedSoundStaysHere
  /\ part = "source" => M!FoundMonitorIsSilent

\* The other members come to show the switches as they are, and a user who holds no key does
\* not go on talking, unless the desktop portal's watcher was closed with the key held.
SwitchesTakeEffect ==
  /\ part = "switches" => C!MembersLearnTheSwitches
  /\ part = "key" => K!ReleaseEndsTalk

\* Every audio stream has one who closes it, unless two reopened at the same time, is closed
\* once, and none is current after Stop; every capture and preview is of the share there is, or
\* is being closed; two encoders never feed one share.
ResourcesAreOwned ==
  /\ part = "devices" => D!StreamsAreOwned
  /\ part = "share" => S!SharesAreOwned
  /\ part = "encoder" => E!OneEncoder

\* The microphone the user chose is selected whenever it is there.
ChosenDeviceIsUsed == part = "devices" => D!ChosenDeviceIsUsed

\* A signal goes out, or its connection is given up.
SignalGoesOut == part = "queues" => Q!SignalGoesOut

\* Watching ends at both ends when the share or the viewer is gone, and a stopped session
\* captures nothing for long.
SharingEnds ==
  /\ part = "share" => S!WatchingEnds
  /\ part = "encoder" => E!StopEndsCapture
====
