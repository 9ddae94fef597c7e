----------------------------- MODULE ScreenShare -----------------------------
(* The life of screen shares between a member that shares and one that       *)
(* watches (internal/p2p/screen.go): starting through a picker, stopping,    *)
(* announcements, the registration of the viewer with its keepalives, the    *)
(* viewer's player and its stall guard, and the sharer's local preview.      *)
(* Shares and viewers are numbered in the order they are started.            *)
EXTENDS Naturals

CONSTANTS MaxShares,  \* bound: shares started
          MaxViews,   \* bound: viewers opened
          MaxEvents,  \* bound: leaves of the sharer and outages of the link
          MaxActs     \* bound: all of these together

ScreenShareAssumption == {MaxShares, MaxViews, MaxEvents, MaxActs} \subseteq Nat

VARIABLES
  connected, leaving, \* the sharer is in the room, is about to leave it
  starting,           \* shares it is setting up, perhaps in the picker
  share, made,        \* screenTx (0: none); shares made so far
  running,            \* shares whose capture runs
  closing,            \* shares being stopped, and what comes next
  stopsDue,           \* StopScreenShare calls on their way from its watchdogs
  registered,         \* the viewer is a watcher of the share
  opening, preview,   \* share a preview is being opened for; share previewed
  air,                \* announcements on their way: what IsSharingScreen became
  asks,               \* watch and unwatch requests on their way
  knows,              \* the viewer's IsSharingScreen of the sharer
  begun, viewer,      \* viewers being opened; screenRx (0: none)
  players, loops,     \* viewers whose player, whose loop runs
  closes,             \* StopWatchingScreen calls on their way
  views, events

room == <<connected, leaving>>
sharer == <<room, starting, share, made, running, closing, stopsDue, registered, opening, preview>>
wire == <<air, asks, events>>
watcher == <<knows, begun, viewer, players, loops, closes, views>>
vars == <<sharer, wire, watcher>>

Shares == 1..MaxShares
Views == 1..MaxViews
Acts == made + starting + views + events < MaxActs

Init ==
  /\ connected = TRUE /\ leaving = FALSE /\ starting = 0 /\ share = 0 /\ made = 0 /\ running = {} /\ closing = {}
  /\ stopsDue = 0 /\ registered = FALSE /\ opening = 0 /\ preview = 0
  /\ air = {} /\ asks = {} /\ knows = FALSE
  /\ begun = {} /\ viewer = 0 /\ players = {} /\ loops = {} /\ closes = 0 /\ views = 0 /\ events = 0

-----------------------------------------------------------------------------
(* The sharer *)

\* An announcement is sent at once and again through the reliable queue: a copy that is heard
\* may be followed by another.
StartShare ==
  /\ connected /\ share = 0 /\ starting = 0 /\ made < MaxShares /\ Acts
  /\ starting' = 1
  /\ UNCHANGED <<room, share, made, running, closing, stopsDue, registered, opening, preview, wire, watcher>>

\* The picker returned and the capture runs.
ShareStarted ==
  /\ starting > 0 /\ made < MaxShares
  /\ made' = made + 1 /\ share' = made + 1
  /\ running' = running \union {made + 1}
  /\ starting' = starting - 1 /\ registered' = FALSE
  /\ air' = air \union {TRUE}
  /\ UNCHANGED <<room, closing, stopsDue, opening, preview, asks, events, watcher>>

ShareFailed ==
  /\ starting > 0
  /\ starting' = starting - 1
  /\ UNCHANGED <<room, share, made, running, closing, stopsDue, registered, opening, preview, wire, watcher>>

\* StopScreenShare: the share is taken down, then the preview closed and the room told, then
\* the capture ended.
TakeDown ==
  /\ share' = 0 /\ registered' = FALSE
  /\ closing' = IF share = 0 THEN closing ELSE closing \union {[of |-> share, next |-> "preview"]}

StopShare ==
  /\ share # 0
  /\ TakeDown
  /\ UNCHANGED <<room, starting, made, running, stopsDue, opening, preview, wire, watcher>>

WatchdogStops ==
  /\ stopsDue > 0
  /\ stopsDue' = stopsDue - 1
  /\ TakeDown
  /\ UNCHANGED <<room, starting, made, running, opening, preview, wire, watcher>>

ClosePreviewAndTell ==
  \E c \in closing :
    /\ c.next = "preview"
    /\ closing' = (closing \ {c}) \union {[c EXCEPT !.next = "capture"]}
    /\ preview' = 0
    /\ air' = air \union {FALSE}
    /\ UNCHANGED <<room, starting, share, made, running, stopsDue, registered, opening, asks, events, watcher>>

ShutDown ==
  \E c \in closing :
    /\ c.next = "capture"
    /\ closing' = closing \ {c}
    /\ running' = running \ {c.of}
    /\ UNCHANGED <<room, starting, share, made, stopsDue, registered, opening, preview, wire, watcher>>

\* The encoder ends or stalls: watchSession and controlLoop check the share, then stop it.
CaptureEnds ==
  \E t \in running :
    /\ running' = running \ {t}
    /\ stopsDue' = IF share = t THEN stopsDue + 1 ELSE stopsDue
    /\ UNCHANGED <<room, starting, share, made, closing, registered, opening, preview, wire, watcher>>

\* LeaveRoom stops the share first, then leaves.
BeginLeave ==
  /\ connected /\ ~leaving /\ events < MaxEvents /\ Acts
  /\ TakeDown
  /\ leaving' = TRUE /\ events' = events + 1
  /\ UNCHANGED <<connected, starting, made, running, stopsDue, opening, preview, air, asks, watcher>>

LeaveRoom ==
  /\ leaving /\ closing = {}
  /\ leaving' = FALSE /\ connected' = FALSE
  /\ UNCHANGED <<starting, share, made, running, closing, stopsDue, registered, opening, preview, wire, watcher>>

JoinRoom ==
  /\ ~connected
  /\ connected' = TRUE
  /\ UNCHANGED <<leaving, starting, share, made, running, closing, stopsDue, registered, opening, preview, wire, watcher>>

StartPreview ==
  /\ share # 0 /\ preview = 0 /\ opening = 0
  /\ opening' = share
  /\ UNCHANGED <<room, starting, share, made, running, closing, stopsDue, registered, preview, wire, watcher>>

\* Faulty: the share is not looked at again when the player is up
PreviewOpened_NoRecheck ==
  /\ opening # 0
  /\ preview' = IF preview = 0 THEN opening ELSE preview
  /\ opening' = 0
  /\ UNCHANGED <<room, starting, share, made, running, closing, stopsDue, registered, wire, watcher>>

PreviewOpened ==
  /\ opening # 0
  /\ preview' = IF opening = share /\ preview = 0 THEN opening ELSE preview
  /\ opening' = 0
  /\ UNCHANGED <<room, starting, share, made, running, closing, stopsDue, registered, wire, watcher>>

StopPreview ==
  /\ preview # 0
  /\ preview' = 0
  /\ UNCHANGED <<room, starting, share, made, running, closing, stopsDue, registered, opening, wire, watcher>>

-----------------------------------------------------------------------------
(* Requests of the viewer at the sharer *)

OnWatch ==
  /\ "watch" \in asks
  /\ asks' = asks \ {"watch"}
  /\ registered' = (registered \/ share # 0)
  /\ UNCHANGED <<room, starting, share, made, running, closing, stopsDue, opening, preview, air, events, watcher>>

OnUnwatch ==
  /\ "unwatch" \in asks
  /\ asks' = asks \ {"unwatch"}
  /\ registered' = FALSE
  /\ UNCHANGED <<room, starting, share, made, running, closing, stopsDue, opening, preview, air, events, watcher>>

LoseAsk ==
  \E a \in asks :
    /\ asks' = asks \ {a}
    /\ UNCHANGED <<sharer, air, events, watcher>>

\* No request for watchExpiry: the viewer closed, or (CutOff) the link was down for as long.
ExpireWatcher ==
  /\ registered /\ loops = {} /\ "watch" \notin asks
  /\ registered' = FALSE
  /\ UNCHANGED <<room, starting, share, made, running, closing, stopsDue, opening, preview, wire, watcher>>

-----------------------------------------------------------------------------
(* The viewer *)

StartWatching ==
  /\ knows /\ viewer = 0 /\ views < MaxViews /\ Acts
  /\ views' = views + 1 /\ begun' = begun \union {views + 1}
  /\ UNCHANGED <<sharer, wire, knows, viewer, players, loops, closes>>

\* The player has been started; it takes the place of another that was opened meanwhile.
ViewerOpened ==
  \E v \in begun :
    /\ begun' = begun \ {v}
    /\ viewer' = v
    /\ players' = players \union {v} /\ loops' = loops \union {v}
    /\ asks' = asks \union {"watch"}
    /\ UNCHANGED <<sharer, air, events, knows, closes, views>>

KeepAlive ==
  /\ loops # {}
  /\ asks' = asks \union {"watch"}
  /\ UNCHANGED <<sharer, air, events, watcher>>

\* StopWatchingScreen
CloseViewer ==
  /\ viewer' = 0
  /\ players' = players \ {viewer} /\ loops' = loops \ {viewer}
  /\ asks' = IF viewer = 0 THEN asks ELSE asks \union {"unwatch"}

\* bound: more calls on their way than viewers make no difference
OneMoreClose == closes' = IF closes < MaxViews THEN closes + 1 ELSE closes

StopWatching ==
  /\ viewer # 0
  /\ CloseViewer
  /\ UNCHANGED <<sharer, air, events, knows, begun, closes, views>>

DoClose ==
  /\ closes > 0
  /\ closes' = closes - 1
  /\ CloseViewer
  /\ UNCHANGED <<sharer, air, events, knows, begun, views>>

\* The player's window is closed or the player ends.
PlayerEnds ==
  \E v \in players :
    /\ IF v = viewer
       THEN CloseViewer
       ELSE players' = players \ {v} /\ UNCHANGED <<viewer, loops, asks>>
    /\ UNCHANGED <<sharer, air, events, knows, begun, closes, views>>

\* Video reaches the current viewer only.
Flowing(v) == v = viewer /\ share # 0 /\ registered

\* Faulty: the loop waits for announcements only
Stall_Never == FALSE /\ UNCHANGED vars

\* The loop of a viewer that got nothing for too long has the watching stopped.
Stall ==
  \E v \in loops :
    /\ ~Flowing(v)
    /\ loops' = loops \ {v}
    /\ OneMoreClose
    /\ UNCHANGED <<sharer, wire, knows, begun, viewer, players, views>>

Hear ==
  \E a \in air :
    /\ air' \in {air, air \ {a}}
    /\ knows' = a
    /\ IF ~a /\ viewer # 0 THEN OneMoreClose ELSE UNCHANGED closes
    /\ UNCHANGED <<sharer, asks, events, begun, viewer, players, loops, views>>

LoseNews ==
  \E a \in air :
    /\ air' = air \ {a}
    /\ UNCHANGED <<sharer, asks, events, watcher>>

\* Pings and pongs carry IsSharingScreen.
Ping ==
  /\ connected
  /\ knows' = (share # 0)
  /\ UNCHANGED <<sharer, wire, begun, viewer, players, loops, closes, views>>

\* An outage: either side gives the other up.
CutOff ==
  /\ events < MaxEvents /\ Acts
  /\ events' = events + 1
  /\ \/ /\ registered /\ registered' = FALSE
        /\ UNCHANGED <<loops, closes>>
     \/ \E v \in loops : loops' = loops \ {v} /\ OneMoreClose /\ UNCHANGED registered
  /\ UNCHANGED <<room, starting, share, made, running, closing, stopsDue, opening, preview, air, asks,
                 knows, begun, viewer, players, views>>

Next ==
  \/ StartShare \/ ShareStarted \/ ShareFailed \/ StopShare \/ WatchdogStops
  \/ ClosePreviewAndTell \/ ShutDown \/ CaptureEnds \/ BeginLeave \/ LeaveRoom \/ JoinRoom
  \/ StartPreview \/ PreviewOpened \/ StopPreview
  \/ OnWatch \/ OnUnwatch \/ LoseAsk \/ ExpireWatcher
  \/ StartWatching \/ ViewerOpened \/ KeepAlive \/ StopWatching \/ DoClose \/ PlayerEnds \/ Stall
  \/ Hear \/ LoseNews \/ Ping \/ CutOff

\* Goroutines run on, a request does not stay on its way for good, and the loops of both
\* sides tick.
Work == WatchdogStops \/ ClosePreviewAndTell \/ ShutDown \/ DoClose \/ ViewerOpened
Asks == OnWatch \/ OnUnwatch \/ LoseAsk
Fairness == WF_vars(Work) /\ WF_vars(Asks) /\ WF_vars(Stall) /\ WF_vars(ExpireWatcher)
Spec == Init /\ [][Next]_vars

-----------------------------------------------------------------------------
(* Properties *)

\* Counters and sets are what the code can hold.
TypeOK ==
  /\ connected \in BOOLEAN /\ leaving \in BOOLEAN /\ starting \in 0..MaxShares /\ registered \in BOOLEAN /\ knows \in BOOLEAN
  /\ made \in 0..MaxShares /\ share \in 0..made /\ running \subseteq 1..made
  /\ closing \subseteq [of : Shares, next : {"preview", "capture"}]
  /\ stopsDue \in 0..MaxShares /\ opening \in 0..made /\ preview \in 0..made
  /\ air \subseteq BOOLEAN /\ asks \subseteq {"watch", "unwatch"}
  /\ begun \subseteq Views /\ viewer \in 0..MaxViews /\ players \subseteq Views /\ loops \subseteq Views
  /\ closes \in 0..MaxViews /\ views \in 0..MaxViews /\ events \in 0..MaxEvents

\* A capture that runs is the room's share, or is being stopped: none is left that nobody can
\* stop (startScreenShare: "A second start meanwhile made a second capture, and the first, no
\* longer the room's share, could not be stopped").  The local preview shows the share there
\* is, or is about to be closed with the one there was.
SharesAreOwned ==
  /\ \A t \in running : t = share \/ \E c \in closing : c.of = t
  /\ preview # 0 => preview = share \/ [of |-> preview, next |-> "preview"] \in closing

\* Watching ends at both ends, also when every announcement and request is lost or overtaken by
\* an older one: the viewer of a share that ended is closed, and a member that no longer
\* watches does not stay a watcher the share is sent to.
WatchingEnds ==
  /\ []<>(viewer = 0 \/ share # 0)
  /\ []<>(~registered \/ loops # {} \/ begun # {})

=============================================================================
