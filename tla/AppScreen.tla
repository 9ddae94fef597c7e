------------------------------ MODULE AppScreen ------------------------------
(* The terminal application's screens and dialogs (app.go, app_keys.go,       *)
(* app_modals.go, app_render.go, invite.go, app_knock.go, app_kick.go) beside *)
(* the node it drives (p2p/node.go).  Keys are handled by the event loop; the *)
(* answers of a join and the removal by a host come on goroutines of their    *)
(* own, which write to the same screen.  Rooms are numbered in the order they *)
(* are opened or asked for.                                                   *)
EXTENDS Naturals

CONSTANTS
  MaxRooms,    \* bound: rooms hosted or joined
  MaxGuests,   \* bound: file offers, media, knocks and invites, each
  MaxOpens     \* bound: dialogs opened

VARIABLES
  \* the node
  node,        \* what it is doing: "out", "joining", "in" as a member, "host"
  room,        \* the room it does it in
  answers,     \* goroutines that run OnJoinSuccess or OnJoinFailed of a room
  kick,        \* the goroutine of a removal: "none", "leave", "tell"
  \* the application
  screen, view,            \* currentScreen, and the room whose RoomView it holds
  IsConnecting,            \* the lobby shows that a room is searched for
  dialogs,                 \* the flags show...Modal that are set
  invite, armed,           \* pendingInvite is set; its dialog is up long enough
  offers, media, knocks,   \* file offers, an open picture, knocks that wait
  kicked,                  \* the removal the event loop is to act on
  running,                 \* cleanExit was not called
  \* bounds and history
  rooms, guests, opens, crossed

nodeVars == <<node, room, answers, kick>>
appVars == <<screen, view, IsConnecting, dialogs, invite, armed, offers, media, knocks, kicked, running>>
vars == <<nodeVars, appVars, rooms, guests, opens, crossed>>

Dialogs == {"relay", "test", "exit", "leave", "share", "debug"}
Guests == {"offer", "media", "knock", "invite"}
Rooms == 1 .. MaxRooms
AppScreenAssumption == MaxRooms \in Nat /\ MaxGuests \in Nat /\ MaxOpens \in Nat
Answers == [kind : {"success", "failure"}, room : Rooms]

\* NewApp, and openInvite for a link the program was started with
Init ==
  /\ node = "out" /\ room = 0 /\ answers = {} /\ kick = "none"
  /\ screen = "lobby" /\ view = 0 /\ IsConnecting = FALSE
  /\ dialogs = {} /\ invite \in BOOLEAN /\ armed = FALSE
  /\ offers = 0 /\ media = FALSE /\ knocks = 0 /\ kicked = FALSE /\ running = TRUE
  /\ rooms = 0 /\ guests = [g \in Guests |-> 0] /\ opens = 0 /\ crossed = FALSE

-----------------------------------------------------------------------------
(* What is shown, and who gets a key *)

Opened(d) == d \in dialogs \/ (d = "invite" /\ invite)

\* render: of the dialogs one is drawn, in an order of each screen's own; what others wait for
\* is drawn on top of it.
Layers == IF screen = "lobby" THEN <<"debug", "relay", "test", "exit", "invite">>
          ELSE <<"debug", "invite", "relay", "test", "leave", "share">>

Drawn(d) ==
  \/ /\ Opened(d)
     /\ \E i \in DOMAIN Layers : Layers[i] = d /\ \A j \in 1 .. (i - 1) : ~Opened(Layers[j])
  \/ d = "offer" /\ offers > 0
  \/ d = "media" /\ screen = "room" /\ media
  \/ d = "knock" /\ screen = "room" /\ knocks > 0 /\ offers = 0

\* handleKey: the first of these that waits for an answer gets the key, or else the screen.
Handlers == <<"relay", "debug", "media", "offer", "knock", "exit", "invite", "leave", "test", "share">>

Takes(d) ==
  \/ Opened(d)
  \/ d = "media" /\ media
  \/ d = "offer" /\ offers > 0
  \/ d = "knock" /\ screen = "room" /\ knocks > 0

GetsKeys(d) ==
  /\ Takes(d)
  /\ \E i \in DOMAIN Handlers : Handlers[i] = d /\ \A j \in 1 .. (i - 1) : ~Takes(Handlers[j])

\* A key, or a click on a button that is drawn (handleMouse, RouteMouseEvent)
Reaches(d) == running /\ (GetsKeys(d) \/ Drawn(d))
ReachesScreen(s) == running /\ screen = s /\ \A i \in DOMAIN Handlers : ~Takes(Handlers[i])

\* Something of the node's is on its way to the screen.
Pending == answers # {} \/ kick # "none" \/ kicked

-----------------------------------------------------------------------------
(* The node, as the application calls it *)

\* HostRoom and RequestJoinRoom drop whatever the node was doing.
HostRoom ==
  /\ rooms < MaxRooms /\ rooms' = rooms + 1
  /\ node' = "host" /\ room' = rooms + 1
  /\ crossed' = (crossed \/ Pending)
  /\ UNCHANGED <<answers, kick>>

RequestJoinRoom ==
  /\ rooms < MaxRooms /\ rooms' = rooms + 1
  /\ node' = "joining" /\ room' = rooms + 1
  /\ crossed' = (crossed \/ Pending)
  /\ UNCHANGED <<answers, kick>>

\* CancelJoin: a join that has succeeded meanwhile stays.
CancelJoin ==
  /\ node' = IF node = "joining" THEN "out" ELSE node
  /\ UNCHANGED <<room, answers, kick, rooms, crossed>>

LeaveRoom ==
  /\ node' = "out"
  /\ UNCHANGED <<room, answers, kick, rooms, crossed>>

NodeStays == UNCHANGED <<nodeVars, rooms, crossed>>

-----------------------------------------------------------------------------
(* Steps of the application that handlers share *)

\* open...Modal
Open(d) ==
  /\ opens < MaxOpens /\ opens' = opens + 1
  /\ dialogs' = dialogs \union {d}

\* resetToLobby; the knocks of the room are left in their queue.
ResetToLobby ==
  /\ screen' = "lobby" /\ view' = 0
  /\ offers' = 0 /\ media' = FALSE
  /\ dialogs' = dialogs \ {"share", "debug", "test", "leave"}

\* startHost: the lobby's IsConnecting stays as it is.
StartHost ==
  /\ HostRoom
  /\ screen' = "room" /\ view' = rooms + 1
  /\ UNCHANGED <<IsConnecting, dialogs, invite, armed, offers, media, knocks, kicked, running, guests, opens>>

\* joinRoom
JoinRoom == RequestJoinRoom /\ IsConnecting' = TRUE

\* leaveRoom
LeaveForLobby == LeaveRoom /\ ResetToLobby

\* cleanExit
CleanExit ==
  /\ running' = FALSE /\ node' = "out"
  /\ UNCHANGED <<room, answers, kick, screen, view, IsConnecting, dialogs, invite, armed, offers, media,
                 knocks, kicked, rooms, guests, opens, crossed>>

-----------------------------------------------------------------------------
(* Keys and clicks *)

\* Ctrl+C, and SIGINT, which asks the same way whatever dialog is open
CtrlC ==
  /\ running /\ "relay" \notin dialogs
  /\ IF dialogs \intersect {"exit", "leave"} # {}
     THEN CleanExit
     ELSE /\ Open(IF screen = "room" THEN "leave" ELSE "exit")
          /\ NodeStays
          /\ UNCHANGED <<screen, view, IsConnecting, invite, armed, offers, media, knocks, kicked, running, guests>>

Interrupt ==
  /\ running
  /\ IF dialogs \intersect {"exit", "leave"} # {}
     THEN CleanExit
     ELSE /\ Open(IF screen = "room" THEN "leave" ELSE "exit")
          /\ NodeStays
          /\ UNCHANGED <<screen, view, IsConnecting, invite, armed, offers, media, knocks, kicked, running, guests>>

\* F12
ToggleDebug ==
  /\ running /\ "relay" \notin dialogs
  /\ IF "debug" \in dialogs THEN dialogs' = dialogs \ {"debug"} /\ UNCHANGED opens ELSE Open("debug")
  /\ NodeStays
  /\ UNCHANGED <<screen, view, IsConnecting, invite, armed, offers, media, knocks, kicked, running, guests>>

Close(d) ==
  /\ d \in dialogs /\ Reaches(d)
  /\ dialogs' = dialogs \ {d}
  /\ NodeStays
  /\ UNCHANGED <<screen, view, IsConnecting, invite, armed, offers, media, knocks, kicked, running, guests, opens>>

\* Esc, or the last button: handleRelayModalKey with saveRelaySettings, switchToLAN and
\* resetRelayToDefault; handleDebugModalKey; handleTestModalKey; handleScreenShareModalKey with
\* startSelectedScreenShare
CloseRelay == Close("relay")
CloseDebug == Close("debug")
CloseTest == Close("test")
CloseShare == Close("share")

\* handleConfirmModalKey
AnswerExit ==
  \/ Close("exit")
  \/ "exit" \in dialogs /\ Reaches("exit") /\ CleanExit

AnswerLeave ==
  \/ Close("leave")
  \/ /\ "leave" \in dialogs /\ Reaches("leave")
     /\ LeaveForLobby
     /\ UNCHANGED <<IsConnecting, invite, armed, knocks, kicked, running, guests, opens>>

\* handleFileOfferKey, handleMediaKey, handleKnockKey
AnswerOffer ==
  /\ offers > 0 /\ Reaches("offer")
  /\ offers' = offers - 1
  /\ NodeStays
  /\ UNCHANGED <<screen, view, IsConnecting, dialogs, invite, armed, media, knocks, kicked, running, guests, opens>>

CloseMedia ==
  /\ media /\ Reaches("media")
  /\ media' = FALSE
  /\ NodeStays
  /\ UNCHANGED <<screen, view, IsConnecting, dialogs, invite, armed, offers, knocks, kicked, running, guests, opens>>

AnswerKnock ==
  /\ knocks > 0 /\ Reaches("knock")
  /\ knocks' = knocks - 1
  /\ NodeStays
  /\ UNCHANGED <<screen, view, IsConnecting, dialogs, invite, armed, offers, media, kicked, running, guests, opens>>

\* handleInviteKey, declineInvite, acceptInvite
DeclineInvite ==
  /\ invite /\ Reaches("invite")
  /\ invite' = FALSE
  /\ NodeStays
  /\ UNCHANGED <<screen, view, IsConnecting, dialogs, armed, offers, media, knocks, kicked, running, guests, opens>>

AcceptInvite ==
  /\ invite /\ Reaches("invite") /\ (armed \/ Drawn("invite"))
  /\ invite' = FALSE
  /\ JoinRoom
  /\ IF screen = "room" THEN ResetToLobby ELSE UNCHANGED <<screen, view, dialogs, offers, media>>
  /\ UNCHANGED <<armed, knocks, kicked, running, guests, opens>>

\* handleLobbyKey, handleLobbyMouse and the lobby's buttons: host, join, stop searching, or
\* open a dialog
LobbyHosts == ReachesScreen("lobby") /\ StartHost

LobbyJoins ==
  /\ ReachesScreen("lobby") /\ JoinRoom
  /\ UNCHANGED <<screen, view, dialogs, invite, armed, offers, media, knocks, kicked, running, guests, opens>>

LobbyCancels ==
  /\ ReachesScreen("lobby") /\ IsConnecting
  /\ CancelJoin /\ IsConnecting' = FALSE
  /\ UNCHANGED <<screen, view, dialogs, invite, armed, offers, media, knocks, kicked, running, guests, opens>>

LobbyOpens ==
  /\ ReachesScreen("lobby")
  /\ \E d \in {"exit", "test", "relay"} : Open(d)
  /\ NodeStays
  /\ UNCHANGED <<screen, view, IsConnecting, invite, armed, offers, media, knocks, kicked, running, guests>>

\* handleRoomKey and the room's buttons; the chat line opens the relay dialog (/relay)
RoomOpens ==
  /\ ReachesScreen("room")
  /\ \E d \in {"leave", "test", "relay", "share"} : Open(d)
  /\ NodeStays
  /\ UNCHANGED <<screen, view, IsConnecting, invite, armed, offers, media, knocks, kicked, running, guests>>

-----------------------------------------------------------------------------
(* What comes from elsewhere *)

\* A welcome, of the host or of the relay
Welcomed ==
  /\ running /\ node = "joining"
  /\ node' = "in"
  /\ answers' = answers \union {[kind |-> "success", room |-> room]}
  /\ UNCHANGED <<room, kick, appVars, rooms, guests, opens, crossed>>

\* failJoin, and the end of the time a join takes
JoinFails ==
  /\ running /\ node = "joining"
  /\ node' = "out"
  /\ answers' = answers \union {[kind |-> "failure", room |-> room]}
  /\ UNCHANGED <<room, kick, appVars, rooms, guests, opens, crossed>>

\* The callbacks of joinRoom, on goroutines
OnSuccess ==
  \E a \in answers :
    /\ running /\ a.kind = "success"
    /\ answers' = answers \ {a}
    /\ IsConnecting' = FALSE /\ screen' = "room" /\ view' = a.room
    /\ UNCHANGED <<node, room, kick, dialogs, invite, armed, offers, media, knocks, kicked, running,
                   rooms, guests, opens, crossed>>

OnFailed ==
  \E a \in answers :
    /\ running /\ a.kind = "failure"
    /\ answers' = answers \ {a}
    /\ IsConnecting' = FALSE
    /\ UNCHANGED <<node, room, kick, screen, view, dialogs, invite, armed, offers, media, knocks, kicked, running,
                   rooms, guests, opens, crossed>>

\* kickedLocked, then its goroutine: LeaveRoom and onKicked
Kicked ==
  /\ running /\ node = "in" /\ kick = "none"
  /\ kick' = "leave"
  /\ crossed' = (crossed \/ Pending)
  /\ UNCHANGED <<node, room, answers, appVars, rooms, guests, opens>>

KickLeaves ==
  /\ running /\ kick = "leave"
  /\ kick' = "tell" /\ node' = "out"
  /\ UNCHANGED <<room, answers, appVars, rooms, guests, opens, crossed>>

OnKicked ==
  /\ running /\ kick = "tell"
  /\ kick' = "none" /\ kicked' = TRUE
  /\ UNCHANGED <<node, room, answers, screen, view, IsConnecting, dialogs, invite, armed, offers, media, knocks,
                 running, rooms, guests, opens, crossed>>

\* Faulty: the event loop is only told
ApplyKicked_NoReset ==
  /\ running /\ kicked
  /\ kicked' = FALSE
  /\ UNCHANGED <<nodeVars, screen, view, IsConnecting, dialogs, invite, armed, offers, media, knocks, running,
                 rooms, guests, opens, crossed>>

\* applyKicked, before a frame
ApplyKicked ==
  /\ running /\ kicked
  /\ kicked' = FALSE
  /\ IF screen = "room" THEN ResetToLobby ELSE UNCHANGED <<screen, view, dialogs, offers, media>>
  /\ UNCHANGED <<nodeVars, IsConnecting, invite, armed, knocks, running, rooms, guests, opens, crossed>>

Comes(g) == running /\ guests[g] < MaxGuests /\ guests' = [guests EXCEPT ![g] = @ + 1]

\* enqueueFileOffer; a transfer that was under way may end after the room was left.
OfferArrives ==
  /\ Comes("offer")
  /\ offers' = offers + 1
  /\ NodeStays
  /\ UNCHANGED <<screen, view, IsConnecting, dialogs, invite, armed, media, knocks, kicked, running, opens>>

\* openMedia: a click on a picture in the chat
OpenMedia ==
  /\ Comes("media") /\ screen = "room" /\ \A d \in Dialogs \union Guests : ~Drawn(d)
  /\ media' = TRUE
  /\ NodeStays
  /\ UNCHANGED <<screen, view, IsConnecting, dialogs, invite, armed, offers, knocks, kicked, running, opens>>

\* onKnock; activeKnock turns away who was not answered in time
KnockArrives ==
  /\ Comes("knock") /\ node = "host"
  /\ knocks' = knocks + 1
  /\ NodeStays
  /\ UNCHANGED <<screen, view, IsConnecting, dialogs, invite, armed, offers, media, kicked, running, opens>>

KnockExpires ==
  /\ running /\ knocks > 0
  /\ knocks' = knocks - 1
  /\ NodeStays
  /\ UNCHANGED <<screen, view, IsConnecting, dialogs, invite, armed, offers, media, kicked, running, guests, opens>>

\* Faulty: the relay dialog stays open under the question
InviteArrives_UnderRelay ==
  /\ Comes("invite")
  /\ dialogs' = dialogs \ {"test", "debug", "leave", "share"}
  /\ invite' = TRUE /\ armed' = FALSE
  /\ NodeStays
  /\ UNCHANGED <<screen, view, IsConnecting, offers, media, knocks, kicked, running, opens>>

\* receiveInvite: the question goes on top of the application's own dialogs.
InviteArrives ==
  /\ Comes("invite")
  /\ dialogs' = dialogs \ {"relay", "test", "exit", "debug", "leave", "share"}
  /\ invite' = TRUE /\ armed' = FALSE
  /\ NodeStays
  /\ UNCHANGED <<screen, view, IsConnecting, offers, media, knocks, kicked, running, opens>>

\* inviteArmDelay is over.
InviteArms ==
  /\ running /\ invite /\ ~armed
  /\ armed' = TRUE
  /\ NodeStays
  /\ UNCHANGED <<screen, view, IsConnecting, dialogs, invite, offers, media, knocks, kicked, running, guests, opens>>

Next ==
  \/ CtrlC \/ Interrupt \/ ToggleDebug
  \/ CloseRelay \/ CloseDebug \/ CloseTest \/ CloseShare
  \/ AnswerExit \/ AnswerLeave \/ AnswerOffer \/ CloseMedia \/ AnswerKnock
  \/ DeclineInvite \/ AcceptInvite
  \/ LobbyHosts \/ LobbyJoins \/ LobbyCancels \/ LobbyOpens \/ RoomOpens
  \/ Welcomed \/ JoinFails \/ OnSuccess \/ OnFailed
  \/ Kicked \/ KickLeaves \/ OnKicked \/ ApplyKicked
  \/ OfferArrives \/ OpenMedia \/ KnockArrives \/ KnockExpires \/ InviteArrives \/ InviteArms

Spec == Init /\ [][Next]_vars

-----------------------------------------------------------------------------
(* Properties *)

\* The parts are in states the code knows.
TypeOK ==
  /\ node \in {"out", "joining", "in", "host"} /\ room \in 0 .. MaxRooms /\ answers \subseteq Answers
  /\ kick \in {"none", "leave", "tell"}
  /\ screen \in {"lobby", "room"} /\ view \in 0 .. MaxRooms /\ IsConnecting \in BOOLEAN
  /\ dialogs \subseteq Dialogs /\ invite \in BOOLEAN /\ armed \in BOOLEAN
  /\ offers \in 0 .. MaxGuests /\ media \in BOOLEAN /\ knocks \in 0 .. MaxGuests
  /\ kicked \in BOOLEAN /\ running \in BOOLEAN

\* A key goes to what is on the screen (handleKey against render), whatever dialogs, calls,
\* invites, offers, joins and removals have come together.  Two questions get keys without
\* being drawn: the one that Ctrl+C asks over the microphone test, and the one whether to
\* exit, asked in the lobby, when the join that was under way leads into a room.
KeysGoToWhatIsDrawn ==
  \A d \in Dialogs \union Guests : GetsKeys(d) =>
    \/ Drawn(d)
    \/ d \in {"exit", "leave"} /\ "test" \in dialogs
    \/ d = "exit" /\ screen = "room"

\* Once the node has nothing left to say, the screen shows the room it is in, or the lobby
\* when it is in none (joinRoom, resetToLobby, applyKicked), and a search that goes on can be
\* stopped.  crossed: a room was asked for, or left by force, while an answer or a removal
\* was still on its way to the screen; such an answer is applied as it is (OnSuccess).
ScreenShowsTheRoom ==
  running /\ ~Pending /\ ~crossed =>
    /\ (screen = "room") = (node \in {"in", "host"})
    /\ screen = "room" => view = room
    /\ node = "joining" => IsConnecting

====
