# A TLA+ model of Limoni Voice

Limoni Voice is a peer-to-peer voice chat. A host opens a room, joiners prove
that they know the room's words, and from then on everything in the room is
sealed with a *group key* that the host generates and replaces. Nodes talk
directly over UDP where they can and through a relay server otherwise; the
relay keeps the list of members, elects a new host when the host goes, and
cannot read anything.

This directory holds specifications of the parts of the program whose
correctness depends on the order in which things happen, the TLC runs that
check them on small instances, and TLAPS proofs of what matters most for every
instance.

## 1. Inventory

Paths are relative to `src/`. "Hard" names what makes a component hard to test;
the individual hazards, with their lines, are in `PROJECT.json`.

| component | state | operations | hard |
|---|---|---|---|
| group keyring (`internal/e2ee/keyring.go`) | active, staged and previous key, time of the last promotion | Stage, Promote, Seal, Open | order of calls; one slot for previous keys |
| rotation and recovery (`internal/p2p/handshake.go` 605-971, `keyrecovery.go`, `kick.go`) | rekeyEpoch, rekeyKey, rekeyAcks, rekeyTimer, memberKeys, removed | scheduleRekey, rotateGroupKey, its retry goroutine, handleRekey, handleRekeyAck, promotion timers, key requests and grants, KickMember, handleKick | every datagram can be lost, late, repeated; rotations overlap; members come and go meanwhile |
| member set of a node (`internal/p2p/node.go`) | Peers, HostID, IsHost | join request, welcome, auto-registration, leave, 45 s time-out, LAN election | both ends time each other out independently |
| join handshake (`handshake.go` 50-600, `e2ee/handshake.go`, `e2ee/members.go`) | joinSessions, joinClient, failure counters | hello, challenge, auth, result, knock and approval | concurrent joiners and the room limit; the host changes in between |
| relay rooms (`internal/relay/server.go`) | rooms, members, order, pending, host token, timers | hostRoom, joinRoom, admit, reject, kick, leave, disconnect, grace and pending time-outs, election | notices are sent after the lock is released; reconnects race time-outs |
| relay signalling at a node (`p2p/relay.go`) | connection, tokens, belief about the host | connection supervisor, handleRelaySignal | a node is told nothing while it is disconnected |
| relay queues (`relay/client.go`, `udp.go`, `p2p/relay.go`) | queues by class at the node and at each connection of the relay, UDP bindings | sendRelayFrame, enqueueFrame, sendSignal, the write pumps, forward | queues at their limit, priorities |
| change of host (`node.go` 1902-1963, `relay.go` 757-803) | IsHost, HostID, keys of the former host | LAN election, new_host, first rotation of a new host | the relay and the members choose by different rules; epochs that collide |
| duplicate suppression (`p2p/types.go` 170-300) | windows per sender | ShouldProcess | wrap-around, copies by two paths |
| jitter buffer (`voice/jitter.go`) | buffered frames, target, conceal count | Push, Pull, resync, latency trim | late packets after an underrun |
| video transport (`video/reorder.go`, `sender.go`, `p2p/screen.go`) | history, queues, pending chunks, requests, player queue | Push, Tick, NackDue, the sender's steps, catching up | gaps that are never filled, skips at several places |
| bitrate controller (`voice/bitrate.go`) | bitrate, loss estimate | Update | oscillation |
| file transfer (`p2p/files.go`, `media.go`) | transfers under way, offers, media kept | SendFileBytes, header, chunks, offers | copies by two paths, slots at their limit |
| chat history (`p2p/chathistory.go`) | ring, seen messages, parts | SendChatMessage, sendChatHistory, parts, the host's switch | copies live and in histories |
| screen sharing (`p2p/screen.go`, `screenpreview.go`) | share, viewer, preview, watchers | start, stop, watch, preview, announcements, stall guard | stop while starting; every message may be lost |
| screen capture (`screenshare/`) | session, encoder processes | Restart, Stop, Wait | the encoder ends at any point of a restart |
| NAT traversal (`nat/`, `p2p/nat.go`) | sockets, mapped endpoint, address of each peer | STUN, punching, port hop | announcements by three ways in any order |
| audio engine (`engine/engine.go`) | device lists, streams, switches | Start, Stop, RestartDevices, mute, capture frame | event loop, device watcher and audio threads |
| push to talk (`ptt/`, `app_settings.go`) | watcher, key state | syncGlobalPTT, pollers | watchers start on goroutines |
| capture guard (`audioio/pulse.go`) | source of the stream, silence | watchSource | the server moves the stream at any time |
| shared sound (`sysaudio/`) | recorded streams, queues of the mixer, its clock | scan, attach, drop, close, mix | the server changes between the requests of one scan |
| clipboard (`clipboard/`) | connections to the display, the process that has the clipboard | copy, paste, serve, lose | every copy has a connection and a loop of its own |
| screens and dialogs (`app.go`, `app_keys.go`, `app_modals.go`, `app_render.go`) | screen, dialogs shown, the room on screen | keys, callbacks of the node, invites, offers, knocks | callbacks on goroutines; the order in which keys and drawing ask for dialogs |
| chat panel and text fields (`ui_room.go`, `ui_room_footer.go`, `app_keys.go`) | messages shown, scroll position, cursors, selection, history of lines | draw, scroll, resize, type, browse | positions kept from an earlier state of the text |
| dialogs that scroll (`dialogs.go`, `app_mouse.go`) | rows shown, scroll position, regions of the frame drawn last, debug log | draw, scroll, click, drag, log, filter | a click meets the frame drawn last; lines arrive while one reads |
| members and shares on the screen (`ui_room_members.go`, `ui_room_hud.go`, `app_mouse.go`) | the frame drawn last, volumes, viewer on its way | draw, click, key, come and go | four layouts by size; the room moves on between frame and click |
| settings (`config.go`, `app_settings.go`) | what is set, what was saved, the file | save twice a second, write on change, load | two writers, devices that go |
| single instance, invite links (`main.go`, `instance.go`, `invite.go`, `relaunch_linux.go`) | sockets by name, links handed over | send, serve, relaunch, move to a window | several processes start and end at once |
| updater (`updater.go`) | the program's file and the one set aside | fetch, verify, replace, roll back, clean up | several copies; every step can fail |
| dsp, Opus, other platform code | sample buffers | capture, play | numerical code, operating system |
| installer, signing tool, relay executable | none that is kept | start up | I/O |

How they interact: a node's `P2PNode` owns the keyring, the member set and the
rotation state under one mutex; datagrams (direct or through the relay) are
opened with the keyring and handed to `handlePacket`, which registers the
sender and dispatches to the handlers of rotation, recovery, chat, files and
screen sharing. Timers and goroutines (promotion, rotation retries, heartbeat)
come back to the same mutex later. Relay signals arrive on a WebSocket and
change the member set (`peer_left` schedules a rotation) and the host
(`new_host` makes the elected node rotate the key).

What makes each part correct, in one line: a key that is in use was never
sealed for someone who is gone, and everyone who acknowledged it has it
(rotation); a ring never goes back (keyring); exactly the members the host let
in hold a slot, and the host token is its host's alone (relay); someone acts
as host as long as the room is inhabited (change of host); frames are played
at most once and never backwards (jitter, reordering, deduplication); what is
shown, offered or asked of the user is so once and not lost (chat, files,
knocking); whatever was opened, a stream, a process, a share, has exactly
one owner until it is closed (engine, capture, screen shares); what is drawn is
what gets the keys, and what the user typed, chose, copied or opened is not lost
(application); and whatever fails in an update, a program is left to start.

## 2. Modules

| module | models | kind |
|---|---|---|
| `Keyring` | `e2ee/keyring.go` | operators on rings |
| `GroupRekey` | rotation, recovery, removal, and how members enter and go, for a room whose host stays | state machine |
| `KeyPolicy` | what key distribution promises, without the protocol | abstract specification |
| `MCGroupRekey` | `GroupRekey` on small instances | model checking |
| `MCRelayRoom`, `MCRelayRoomSizes` | `RelayRoom` on small instances | model checking |
| `GroupRekeyProofs` | type correctness, the inductive invariant, refinement of `KeyPolicy`, what an acknowledgement is worth | theorems |
| `RelayRoom` | one room on the relay server, the connections to it and the nodes' side of them | state machine |
| `RoomHosting` | who is in a room, connected and host, without tokens, requests, timers and notices | abstract specification |
| `RelayRoomProofs` | type correctness, consistency, the limit, graces, the host token, refinement of `RoomHosting` | theorems |
| `RoomSizesProofs` | the limit in `MCRelayRoomSizes` | theorems |
| `HostHandover` | a host that leaves: election, the relay's word, the rotation of the next host | state machine |
| `Admission` | handshakes of several joiners with a host, knocking, the room limit | state machine |
| `ChatHistory` | messages, histories and parts, and what is on the screen | state machine |
| `FileTransfer` | a transfer by two paths, the offers and the media kept | state machine |
| `PeerPath` | the path between two members behind routers, with port hops | state machine |
| `MCMembers` | these five, and key recovery of `GroupRekey`, side by side | model checking |
| `MembersProofs` | type correctness, the host agreed on, the door and the chat, in `MCMembers` | theorems |
| `RelayQueues` | the queues of a frame and a signal on their way through the relay | state machine |
| `VoicePath` | voice from the sender's pre-roll to the listener's player | state machine |
| `VoiceControls` | mute, deafen, microphone test, and what others show of them | state machine |
| `AudioDevices` | device list, selection and streams of the audio engine | state machine |
| `CaptureSource` | the guard against recording a speaker monitor | state machine |
| `PushToTalk` | watchers of the system-wide talk key | state machine |
| `VideoPath` | chunks of a share, retransmission, reordering and the player's queue | state machine |
| `ScreenShare` | shares, viewers and previews as sessions | state machine |
| `CaptureSession` | the encoder processes of a share | state machine |
| `MCMedia` | these nine side by side | model checking |
| `FoldFacts` | folds of sequences, for any operator | theorems |
| `MediaProofs` | owners, devices, switches, the order of voice and video, and the types in `MCMedia` | theorems |
| `AppScreen` | screens and dialogs of the application beside its node | state machine |
| `ChatPanel` | the chat on the screen: wrapping, cutting, scrolling | state machine |
| `RelayDialog` | the text fields of the relay dialog, cursors and selection | state machine |
| `ChatInput` | the line chat is typed into, its history and draft | state machine |
| `Settings` | what is set, what was saved, and the file | state machine |
| `SelfUpdate` | the updater in several copies of the program | state machine |
| `InviteLinks` | invite links, processes and the socket of the open copy | state machine |
| `SoundMixer` | the mixer of shared sound and its clock | state machine |
| `AppStreams` | which streams of the sound server are recorded for a share | state machine |
| `Clipboard` | the clipboard on Linux, its connections and pastes | state machine |
| `ScrolledDialogs` | the settings dialog and the debug log: rows, scrolling, clicks | state machine |
| `RoomStage` | the members of a room and the shares on the screen: layout, click areas, volumes | state machine |
| `MCApp` | these twelve side by side | model checking |
| `AppProofs` | screens, texts, settings, links, the clipboard, the updater and the mixer in `MCApp` | theorems |
| `ScreenProofs` | dialogs, the members of a room and the chat on the screen in `MCApp` | theorems |

`MCMedia`, `MCMembers` and `MCApp` instantiate their components side by side. The
components share no state, so the choice `part` picks the one whose steps a
behaviour takes and the others stay at their start: the run is the union of the
components' runs, not their product. Fairness is that of the component chosen.
The constants of a component about which something is proved are constants of the
composing module, with the component's assumption (`MCMediaAssumption`,
`MCMembersAssumption`, `MCAppAssumption`): the run gives them values, the theorems
hold for all of them.

### GroupRekey

State. `ring[n]` is `n.keyring`; `peers`, `ident`, `removed` are the host's
`Peers`, `memberKeys` (the number of the stay whose identity key is stored) and
`removed`; `session` is what an admitted `joinSession` granted; `rot` is
`rekeyEpoch`, `rekeyAcks` and the retry goroutine of the last rotation; `due`
is `rekeyTimer != nil`, `spawned` counts rotations started with `go
n.rotateGroupKey`. Every stay of a member has its own identity key
(`NewIdentity` in `RequestJoinRoom`), so a grant, kick or leave proof of an
earlier stay does not fit a later one: that is the field `stay` of the
messages. `given` is a history variable: the keys that were ever sealed for a
member.

Network. `net` only grows (except for key requests and grants, which the
recovery loop repeats anyway): the handler of a datagram may run at any later
time, several times, or never, and only if the receiver holds the key that
sealed it. This covers loss, delay, reordering, duplication and retransmission
over several paths. Dropping the freshness window and the deduplication of
`handlePacket` only adds behaviours.

Actions, in the order of the code they translate:

| action | code |
|---|---|
| `Admit`, `CompleteJoin`, `GiveUpJoin`, `ExpireSession` | processAuth/finishAdmissionLocked, processResult, failJoin, expireJoinSessionsLocked |
| `Register` | automatic registration of a sender in handlePacket |
| `Leave`, `HandleLeave`, `TimeOutMember`, `TimeOutHost` | LeaveRoom, PacketLeave, heartbeatLoop on either side |
| `Kick`, `HandleKick` | KickMember, handleKickLocked + kickedLocked |
| `RotateOnTimer`, `RotateOnRemoval`, `RotatePort` | scheduleRekeyLocked, KickMember, port hop |
| `RotateGroupKey`, `RekeyAttempt`, `FinishRotation` | rotateGroupKey and its goroutine |
| `HandleRekey`, `PromoteStaged`, `HandleAck` | handleRekeyLocked and its timer, handleRekeyAckLocked |
| `AskForKey`, `AnswerKeyRequest`, `InstallKeyGrant` | noteUndecryptable/requestGroupKey, answerKeyRequest, installKeyGrant |
| `GraceLapses` | PreviousKeyGrace in Keyring.Open |

Abstractions. The notice, the drop and the timer stop of a kick are one step,
although the code releases the lock after the notice; the notice is a datagram
that may arrive at any time, which gives the same behaviours. `Register` may or
may not happen, which stands for locked and full rooms. Vouches (how members
learn of each other's identity from a third party, `acceptVouchLocked`), bans
by address and a change of host are not in this module.

### RelayRoom

State. `exists`, `hostID`, `hostToken`, `members`, `order` and `pending` are the
fields of `room`; `client[i]` is `member.client`, `token[i]` the member's token
(tokens are numbers, drawn anew each time); `grace` are the members whose
`graceTimer` runs. A connection is a pair of its node and a number; `roomOf` and
`pendOf` are the connections with `roomCode` and `pendingRoom` set, which the
server keeps beside the room and has to keep in step with it. `link` is the life
of a connection: open, shut by the node (what it sent before is still read), cut
by the network or by the server, done when the server noticed. `up` and `down`
are the signals on their way, in order. `node[i]` has what a `P2PNode` believes:
`state` (out, joining, keyed: the handshake gave it the group key, in, or moved
to another room code), `isHost`, its tokens, the `action` its connection
supervisor was started with, its connection, and `asked`, its `joinHostID`.

The server handles the signals of one connection one after another and sends
what it has to say after releasing its lock: `out[g]` is what goroutine g (a
connection's, or a member's grace timer) still has to send, in any order.
Between the two, handlers of other connections and timers run. That is where a
token, a welcome and a new_host can cross.

| action | code |
|---|---|
| `CreateRoom`, `ReclaimRoom`, `RefuseHost` | the branches of hostRoom |
| `Rejoin`, `RequestJoin`, `RefuseJoin` | the branches of joinRoom |
| `Admit`, `Reject`, `Kick`, `Leave`, `Disconnect`, `Ignore` | admit, reject, kick, leave, onDisconnect, and their early returns |
| `Detach`, `RemoveMember`, `NextHost` | detachLocked, removeMemberLocked with the election |
| `GraceEnds`, `RequestExpires`, `CloseRoom` | the timers |
| `Send` | notices.send, sendSignal |
| `StartHost`, `StartJoin`, `GoAway`, `CancelJoin` | HostRoom, RequestJoinRoom, LeaveRoom, CancelJoin and the join time-out |
| `Connect`, `Receive` | relayConnectionSupervisor, handleRelaySignal |
| `Handshake` | the PAKE frames through forwardPake and handleRelayPake, with the verdict |
| `KickMember` | the kick signal of KickMember |
| `Cut` | a broken connection, also one dropped for a full signal queue |

Abstractions. The room is never locked; bans, rate limits, endpoints and port
updates are left out, and so are peer_joined and peer_left, which change only
the list of peers a node shows. A node sends host or join once per connection,
so the detach with which both handlers begin finds nothing. The frames of the
handshake are one step: the relay forwards each only between the current host
and a joiner that waits, which is the guard of the step. A grace timer that
was stopped too late needs no state of its own: it acts only on a member that is
disconnected again, and then the timer of that disconnect, which `GraceEnds` may
fire at any time, does the same. `failJoin` and
`LeaveRoom`, which the signal handler starts as goroutines, run with the signal.
There is one relay; a node whose code is in use goes on in another room, which
is outside the model.

### HostHandover

Every node has its list of peers, its directory of identity keys, whom it takes
for the host, its ring and its last rotation. A key is an epoch and the host that
made it, because two hosts may choose the same epoch. When the host leaves,
the members hear it from the host (`HandleLeave`, with the election of the least
ID), from the relay (`PeerLeft` and `NewHost`, in the order in which the relay
sends them for one removal) or from the 45 s time-out; in any order. `Relay` says
whether there is a relay. Removals of two members may cross at the relay, so
`batches` is a set. The member `leaving` has not yet been removed by the relay.
Not modelled: joins, kicks and key requests meanwhile, and the PIN.

### Admission

The host's `joinSessions`, the knock queue of its user interface and the state of
each joiner. Frames are kept in `net` and may be handled again, late or never. A
session is told from an earlier one of the same joiner by `server`, its number
(in the code: the ephemeral keys), an attempt by `attempt`. `relayed` chooses
between the LAN, where the joiner registers with a join request, and the relay,
which makes it a member. Members come into the host's list in three ways, and the three
do not ask the same: `JoinRequest` looks at the limit of the room, `RelayWelcome` at
nothing, since the relay did, and `ListAgain` only at `MaxPeers`, the most any room may
hold: it is `handlePacket`, which lists whoever is heard with the key of the room, and the
welcome from which a host that lost everybody takes the list of another member. A member
is dropped when it leaves (`Leave`, whose notice may be lost) and when nothing was heard
of it for 45 s (`TimeOut`, which says nothing of where the member is: it may be gone, or
in the room with the key and about to be heard again). `allowed`, `forgotten`, `members`
and `returned` are history: the sessions the user let in, the knockers that waited when the
queue was cleared, the joiners that were ever let in, and those listed again when the room
was full. Left out: PIN, bans and the pause after failed attempts, which refuse joiners
the model lets in, and a limit the host lowers while the room is open.

### ChatHistory

Messages are numbered; what the code compares (sender, time, text) is their
identity. `owed` counts the histories a member still has to send to another
(`shareChatHistoryLater` sends two). A long message has two parts. `shown` counts
how often a message was put on the screen. The host's pings carry the switch of
the history and are taken over in whatever order they come.

### FileTransfer

One sender, one receiver, a path that keeps the order (the relay) and one that
does not. The relay's path loses a packet where a queue on it stays full: the
sender's for 2 s (`p2p/relay.go:440`), the relay's for the receiver at once
(`relay/client.go:99`), or with the connection; `lost` remembers of which file. Any
transfers may be found older than five minutes when a header comes, with packets of
theirs still under way (`expired`). `RelayQueues` has the queues themselves; here a loss
may happen at any packet.

### PeerPath

A router maps a socket to the same port or to another one (`Preserving`) and lets
in what comes from where something was sent (`holes`). `addr`, `via` and `recent`
are `peer.Addr`, `peer.ViaRelay` and whether `LastDirectSeen` is less than 3 s
old. A hop opens a new socket; its announcements (old socket, new socket, relay)
and one other datagram may be late; STUN answers and `peer_port_updated` follow.
IPv6, punch sockets and spraying of ports are left out, and so are losses of a
good path for longer than 3 s.

### RelayQueues

Lengths of the queues of a sending node and of the receiver's connection, and the
step at which each write pump is: first looking without waiting, in order of
priority, then waiting for whatever comes. Among the signals one is followed.
Frames that may be lost go by UDP while both ends believe in it.

### VoicePath, VideoPath

A frame is its sequence number, modulo `Wrap` for voice (`VoicePathAssumption`: the
speaker does not get half way round, which takes 497 days of speech). Both paths
are sets of packets, so that loss, delay and reordering need no action of their own;
`VoicePath` follows each packet from `Speak` (with the pre-roll kept back before
an onset) through the check for copies into the jitter buffer, and `Pull` in its
branches (`PlayNext`, `SkipLost`, conceal, restart). In `VideoPath` time is
counted in turns of the viewer's loop; a chunk knows whether a keyframe starts in
it, and an item of the player's queue what became of the chunk before it: `cut` is "none",
"thrown" (away, to catch up) or "player" (it went with a player that was replaced).
A player is replaced when it exits within its first seconds (`Exit`, `FallBack`) and when
it takes nothing any more (`Reopen`); both call `replacePlayer` (`Replaced`), which
resets the reorder buffer and waits for a keyframe but leaves the queue as it is. The pump
of the player before may take chunks from that queue for a while (`OldPumpTakes`). A player
that exits and finds no successor ends the watching, which is in `ScreenShare`.

### VoiceControls, AudioDevices, PushToTalk, CaptureSource, CaptureSession, ScreenShare

Each has the threads of its part as actors whose steps end where the code
releases a lock, waits or calls out: the capture callback reads the switches
before and after it processes a frame; a stream is closed, opened and assigned in
three steps by event loop and device watcher, and `overlapped` remembers that both
were at it at once; a key watcher, a poller or the desktop portal's, starts on a
goroutine; the look of `watchSource`, its verdict and its move are apart; an
encoder may exit between any two steps of `Restart`; a share or preview starts
with no lock held. In `ScreenShare` the captures and players that run are sets,
besides the one the node knows of, so that one that nobody owns shows.

### AppScreen, ChatPanel, RelayDialog, ChatInput

`AppScreen` has the flags the application keeps (`currentScreen`, the `show...Modal`
flags, `IsConnecting`, offers, media, knocks) next to what the node is doing. Keys
and the loop's own work are steps of the event loop; the answers of a join and
the two steps of a removal run on goroutines, in between. Rooms are numbered, so
that an answer of an earlier room is told from one of the present. `Layers` and
`Drawn` are the order in which render draws, `Takes` and `GetsKeys` the order in
which handleKey asks. In the other three a text or a message is its length or its
lines: `ChatPanel` draws a message as one or more rows and keeps the view of the
last draw; the chat is cut at `MaxShown`. What a key does inside a field without
a selection is the widget library's and may leave any text and a cursor in it.

### ScrolledDialogs, RoomStage

Both keep the frame drawn last beside the state it was drawn from: keys, clicks, other
members and a resized terminal come between two frames, and a click is for what it meets
on the last one.

`ScrolledDialogs` is one of two dialogs. Of the settings it has every row and what each
row's click regions may do to which settings (`Clicked`), the keys, and the layout in
lines: `Top`, `Gaps`, `Line` and `RowMap` are `testModalRowMap` and its helpers, which
leave rows out of a dialog that is too low for all 28. Of the debug log it has the lines by
their tags and lengths; `DrawLog` wraps them, and follows the lines that arrived while one
was scrolled up. Which device a row takes, and colours and labels, are left out.

`RoomStage` lays the room out in `Rect`s as the code does: cards in a grid (`GridCell`), a
list, a sidebar beside the stage with its tiles and controls, the mini HUD. `Areas` are
the click areas of a frame in the order in which they are registered; where they overlap,
the last has the click (`OnTop`). Starting and stopping to watch run on goroutines
(`jobs`). Header and footer are in other modules or, but for the footer's buttons for
shares, left out; texts are their widths.

### Settings, SelfUpdate, InviteLinks

The settings file, the program's file with the one set aside, and the name of the
socket are shared by threads or processes that do not lock them: every system
call is a step. A write empties the file first (`os.WriteFile`). In
`SelfUpdate` a step may fail or a copy end at it, `MaxFaults` times together; which
platform, who installed the program and whether releases can be verified is chosen
at the start. A file is its version, whether it is whole, and who writes it. In
`InviteLinks` a process is at a step of main; the socket's name is taken over by
removing it and binding again, so that a process may hold a socket without a name.

### SoundMixer, AppStreams, Clipboard

Time in `SoundMixer` and the sound of a stream are counted in frames; a stream gives
what it played within `Late` frames, which is sooner than it counts as quiet
(`Late <= Quiet`: recordings answer every 20 ms, `pulse_app.go:188`, and a clock is given
60 ms, `sysaudio.go:203`). `AppStreams` splits the scan into its three
requests, between which the server changes; a request may fail. In `Clipboard` the
display tells a connection that it lost the clipboard some time later, and each
connection has a loop that then ends; a paste asks one way after another.

## 3. What is checked

All TLC runs set `CHECK_DEADLOCK FALSE`: the bounds on epochs, stays,
connections, messages and sessions stop the models where the program would go on.

| run | instance | checks |
|---|---|---|
| `rekey_rejoin` | one member, two stays, epochs 1-3, the grace of a member may lapse after the first rotation | `TypeOK`, `RingsOrdered`, `DepartedCannotFollow`, `AckedMembersAgree`, `EpochsOnlyGrow`, `FollowsKeyPolicy` |
| `relay_either` | a founder and a member, one of which has two connections, fairness | `TypeOK`, `TokenIsTheHosts`, `RoomIsConsistent`, `GraceIsLimited`, `FollowsRoomHosting`, `RoomIsGivenUp` |
| `relay_sizes` | three nodes, one connection each, room for two or for three | `EveryRoomFits`, `FollowsRoomHosting` |
| `media` | nine components, each on its own, fairness | see below |
| `members` | six components, each on its own, fairness | see below |
| `app` | twelve components, each on its own, fairness | see below |
| `rekey_deaf` | one member, epochs 1-2, fairness | `DeafMembersRecover` is violated |
| `relay_untold` | a founder and a member with two connections | `NamedHostKnows` is violated |
| `relay_cancel` | as `relay_untold` | `CancelledStaysOut` is violated |
| `relay_lost_token` | a founder with two connections and a member | `HostReclaimsRoom` is violated |
| `handover` | three nodes, no relay | `AckedMembersFollow` is violated |
| `files` | two files of one chunk, one of them media; two paths, one slot | `OfferedOnce` is violated |

A property of a composed run joins what its components promise of one matter; in
brackets the component's own name for it where it differs.

| property of `media` | component | what it says |
|---|---|---|
| `TypeOK` | all | besides the ranges, for `RelayQueues` that no queue exceeds its limit |
| `PlayedAsRecorded` | `VoicePath` (`PlayedInOrder`), `VideoPath` (`ReleasedInOrder`, `NoHoleButAtKeyframe`) | voice is decoded once and in order; chunks of a share leave in order, and a player is fed past a chunk thrown away only from a keyframe on; what was queued for a player that was replaced is excepted |
| `PlaybackGoesOn` | `VoicePath` (`PlayoutGoesOn`), `VideoPath` (`GapNeverFreezes`) | no gap stops voice or video for good |
| `OnlyMeantSoundIsSent` | `VoiceControls` (`MutedSoundStaysHere`), `CaptureSource` (`FoundMonitorIsSilent`) | what was said while muted is not heard; sound of a monitor is not sent once a look has found it (nothing is said of the up to 250 ms before the look) |
| `SwitchesTakeEffect` | `VoiceControls` (`MembersLearnTheSwitches`), `PushToTalk` (`ReleaseEndsTalk`) | the others come to show the switches as they are; a talk key that is not held does not go on talking, unless the watcher that saw it pressed was the portal's and was closed meanwhile |
| `ResourcesAreOwned` | `AudioDevices` (`StreamsAreOwned`), `ScreenShare` (`SharesAreOwned`), `CaptureSession` (`OneEncoder`) | every audio stream is the current one, held by an actor that closes it or makes it so, or closed, as long as no two reopenings overlapped; even then none is closed twice, and none is current after Stop; no capture or preview without an owner; one encoder feeds a share |
| `ChosenDeviceIsUsed` | `AudioDevices` | the chosen device is selected whenever it is there |
| `SignalGoesOut` | `RelayQueues` | a signal is written, or the connection given up, whatever media there is |
| `SharingEnds` | `ScreenShare` (`WatchingEnds`), `CaptureSession` (`StopEndsCapture`) | watching ends at both ends although messages are lost; a stopped session ends its encoders |

| property of `members` | component | what it says |
|---|---|---|
| `HostsAgree` | `HostHandover` | who has heard all of the relay agrees with it on the host |
| `DoorIsKept` | `Admission` (`RoomFits`, `OnlyTheAllowedGetIn`) | on a LAN nobody is let in beyond the limit, though members are dropped and come back; with those that come back beyond it there are never more than `MaxPeers`; the key goes to whom the user let in, for that attempt |
| `KnockersAreAsked` | `Admission` | no knocker waits unseen |
| `ShownOnce` | `ChatHistory` | no message is on a screen twice, as long as the room keeps all of them |
| `EveryFileIsOffered` | `FileTransfer` | a file sent is offered or refused aloud, unless the relay's path lost a packet of it or its transfer took too long |
| `MembersRecover` | `GroupRekey` (`TrackedMembersRecover`), `PeerPath` (`PathRecovers`) | a member that missed every rekey reads the host again while both know each other; after hops both find the direct path again |

| property of `app` | component | what it says |
|---|---|---|
| `ScreenAndKeysAgree` | `AppScreen` (`KeysGoToWhatIsDrawn`, `ScreenShowsTheRoom`), `ScrolledDialogs` (`SettingsStayInReach`), `RoomStage` (`MembersAreShown`, `VolumeIsAtHand`) | a key goes to what is drawn; the screen shows the room the node is in; at any height every setting is shown or an arrow points to it; no member is drawn over another, and a member's volume is on its card or row with nothing over it |
| `TypedTextIsKept` | `RelayDialog` (`CursorsStayInside`), `ChatInput` (`DraftComesBack`) | cursors and selections stay inside the text; a draft comes back |
| `ScrolledViewStays` | `ChatPanel`, `ScrolledDialogs` (`LogStaysPut`, `ScrollReachesAll`, `ClickMeansTheRow`), `RoomStage` (`ClickIsForTheMember`) | scrolled up, what is on screen stays while messages or lines arrive; the setting scrolled to is shown; a click changes what is drawn under it and nothing else, whatever has moved since |
| `ChoicesAreSaved` | `Settings` | the file has what the user chose last |
| `ProgramSurvives` | `SelfUpdate` | a program is left to start |
| `LinkIsTaken` | `InviteLinks` (`LinkIsTaken`, `FewProcesses`) | a link is asked about; one link does not start process after process |
| `OutputKeepsPace` | `SoundMixer` | shared sound runs as fast as time |
| `CopiedTextIsPasted` | `Clipboard` | a paste gets what was copied last |
| `ServicesSettle` | `AppStreams` (`SharesWhatItShould`), `Clipboard` (`ConnectionsEnd`) | wanted streams come to be recorded and own ones not; no connection outlives its copy |

Each joined property was also checked against a faulty variant of each of its
components; `PROJECT.json` lists one of them per property.

Bounds. Two rotations after the first key (epochs up to 3) are enough for one
rotation to supersede another in flight and for late messages of either; two
stays are enough for messages of an earlier stay to meet a later one; one
attempt per rotation is enough because the network may repeat and delay what
was sent. A recovery needs one rotation to be missed, so `members` has epochs up
to 2 (epochs up to 3 hold as well).

A node of `RelayRoom` has as many lives as connections (`Conns`), which bounds
the model: a second connection is what it takes to reconnect in time or too
late, to meet what is left of the first one, and to join again. `relay_sizes`
gives up reconnects for a third node, which a race for the last place and a
choice of the next host need; symmetry between the two joiners is sound, since
only the founder is told apart.

The components of `media`, `members` and `app` are bounded by what one interference
takes: three frames, of which the first is too old for the window of copies when the
last has come, two keyframes and a queue shorter than what is between them, one player
that is replaced, two shares at once, one stop during a restart, one hop with one late
packet, two joiners and one place in a room that could be one larger, one session
fewer than joiners, a message that leaves the ring, a file of two chunks and one that
finds no slot, two rooms and two dialogs, a chat cut once, a history of lines cut
once, six changes to the settings (choose, unplug, plug in, end, start again), two
copies of the program, two releases and two faults, three processes and two links for
a queue of one, two copies and a paste, two streams that give late, three heights of
the settings dialog (all rows, some blank, scrolled) and one change, two widths and
pages of a log cut once, two members, two heights and three acts in a room.
`VideoPath` counts turns instead of milliseconds: requests wait fewer turns than a gap
is held open, as in the code.

Fairness. Timers, goroutines and write pumps of the program run eventually; what the
code repeats until it is answered (key requests, pings, punching, keepalives) gets
through in the end, and so does one of the STUN servers' answers. Nothing is assumed
of what is sent once: rekeys, acknowledgements, leave and kick notices, announcements,
hops, packets of a file. Of a file it is assumed that the sender goes on and that what
the relay's path has taken and not lost arrives, since a connection keeps the order
and its pumps run; what it loses is the exception of `EveryFileIsOffered`. For the
relay rooms (`relay_either`) only the relay's own goroutines and timers are fair,
grouped as its goroutines (handlers and notices) and its timers: as long as one of a
group has something to do, one of them does it. Nothing is assumed of the nodes or the
network. `RelayQueues` assumes that the writer of the receiver's connection goes on,
which its write deadline of 5 s justifies. In `app` the scan of the streams goes on
and the loop of a connection to the display that was told to end does; nothing is
assumed of the user.

Statements of the repository that are not what the code does:

* `README.md:532` says that a missed rotation is recovered by asking the host. A
  member cut off for longer than the 45 s time-out is forgotten by the host,
  forgets the host, or both; its requests are not answered, or the answer is not
  accepted, and it stays deaf (`DeafMembersRecover`). What does hold is
  `TrackedMembersRecover`: as long as both still know each other, the member
  recovers from any loss.
* `README.md:527` says that the key is rotated when the host changes. A member
  that the relay elects while it is disconnected is not told, and the welcome it
  gets on its return does not make it host either (`NamedHostKnows`).
* `node.go:602` says that CancelJoin cancels a pending join. The request at the
  relay stays, and the host may still admit it (`CancelledStaysOut`).
* `reconnect_test.go:60` says that a host reclaims its room after its connection
  dropped. If the connection drops before `room_created` arrives, the host has no
  token, is refused by its own room and moves to another code
  (`HostReclaimsRoom`).
* `README.md:528` says that a newly elected host rekeys the same way. If it missed
  the last rotation of its predecessor it chooses an epoch that members have
  already; they acknowledge its key and keep theirs, so that host and member hold
  different keys of one epoch, and the answer to a key request is refused for the
  same reason (`AckedMembersFollow`).
* `files.go:142` leaves out a duplicate header, but only while the transfer is under
  way: copies of the slower path that come later make a second transfer and a
  second offer (`OfferedOnce`).

Exceptions that properties make, because the code does not do what the property would say
without them. Each is reached in the runs: TLC refutes the property without it.

* The queue of a replaced player (`NoHoleButAtKeyframe`). The comment at
  `screen.go:1298` says that a new player is fed from the next keyframe.
  `replacePlayer` resets the buffer and sets `skipToKey`, which holds for chunks that
  arrive later, but `playerCh` is not drained: the new player is fed what was queued for the
  old one, whose first chunks belong to a picture it never saw the beginning of. The
  chunk the old pump held is gone, and it may take more.
* Reopenings that overlap (`StreamsAreOwned`). `restartCapture` takes the current
  stream, closes it and opens another in three steps. When the event loop and the
  device watcher are both between them, each opens a stream; the later assignment
  (`engine.go:969`) overwrites the earlier, and that stream runs on, feeding the
  engine, also after `Stop`.
* The portal's watcher (`ReleaseEndsTalk`). A poller that is closed while its key is held
  reports the release (`ptt.go:169`); the portal's watcher, the first choice on
  Wayland, closes its connection and says nothing (`ptt_linux.go:143`). When the settings
  change with the key held the engine goes on talking until a later watcher reports.
* Members that come back (`RoomFits`). The host forgets a member it has heard nothing
  of for 45 s; its place may be taken, and its next packet, readable with the key or
  the one before, lists it again (`node.go:1456`) as long as there are fewer than
  `MaxPeers`: the room is above the limit its host set.
* Files over a relay (`EveryFileIsOffered`). A frame that finds the sender's queue
  full for 2 s or the relay's full is dropped, neither end is told, and nothing is
  sent again; so a large file to a slow receiver may be neither offered nor refused.
  The same goes for one whose transfer is five minutes old when another begins
  (`files.go:145`).

Things the models show and no run states, because nothing in the repository
promises otherwise or because a property says so where it makes an exception:

* Keys. A ring has one previous slot and a superseding rotation overwrites a staged
  key that members may already use, so a superseded key can be refused before the
  `PreviousKeyGrace` that `keyring.go:57` speaks of. Any readable packet resets the
  count of unreadable ones (`keyrecovery.go:92`), whoever sent it. A kick notice
  that is lost with the host that sent it is not repeated by the next one.
* Voice. The check for packets that are too old compares without wrapping
  (`types.go:207`): half the numbers on, after 497 days of one speaker's speech, every
  packet would look old.
* `hopTarget` (`node.go:769`) has a branch for an announcement from the new socket,
  which is never taken: `handlePacket` has just made that address `peer.Addr`. Behind
  a router that gives the new socket another port the direct address is wrong
  after a hop, and if nobody speaks until the 45 s are over the members drop each
  other; voice, which always goes by the relay as well, makes `via` true and
  punching finds the path again. `PathRecovers` is checked with somebody speaking.
* Joining. On a LAN nobody takes over from a host that disappears without a leave
  (`node.go:1051`). Switching knocking off clears the queue; those who waited are not
  answered. A refusal carries no proof of the attempt it answers
  (`handshake.go:193`), and the relay tells requests apart by member only
  (`p2p/relay.go:249`). `RequestJoinRoom` overwrites the channel that stops the port
  hops of an earlier attempt without closing it.
* Chat. A late copy of a message that has left the ring is shown again (`recordChat`
  forgets what it drops), which is why `ShownOnce` speaks of rooms within the limit.
  A ping that overtakes another takes the history setting back until the next one.
  The lines drawn last stay selectable after /clear and in the mini HUD.
* Audio devices. Leaving a room restores the mute switch of before an earlier microphone
  test.
* Screens. Ctrl+C over the microphone test asks a question that is not drawn and gets
  the keys; so does the question whether to exit, asked in the lobby, after the join
  under way has led into a room. An answer of an earlier attempt is applied to the
  present one (`crossed`). Hosting a room while a join is under way leaves
  `IsConnecting` set. Pasting and copying go past the dialogs of media, offers and
  knocks. The probe of a relay that ends last sets the status, not the newest.
* Fields. After typing or cutting, the anchor of a selection may lie beyond the text;
  a selection made to the left is not highlighted.
* Dialogs. A click on the mode changes push-to-talk without `syncGlobalPTT`
  (`dialogs.go:709`, `ui_room_footer.go:522`), which the key calls; a click on the mode, or
  closing the dialog, leaves it waiting for the talk key.
* Shares. Heard from the relay or by the time-out, a sharer's leaving, or that of the last
  member, ends whatever is watched; the sharer's own leave ends only the watching of
  its stream. A click on the volume of a member who has left stores a volume again after
  `RemovePeer` forgot it. The banner inside one's own card is drawn only if the share
  begins while the frame is drawn: a frame with a share has no cards.
* Settings. A choice that equals what stands in for a missing headset is not written,
  nor is one made after the headset came back and before the next tick; the microphone
  chosen is overwritten by what stands in for it. `ChoicesAreSaved` says nothing of
  these once they happened in a behaviour (`unplugged`), nor after two writes crossed
  or one broke off (`torn`), nor of the height of the chat after a room was entered
  (`roomed`). A write that breaks off leaves an empty file, which is read as the
  defaults, and is not tried again. Entering a room resets the chat's height, which
  `README.md:430` says is saved (`ChatHeightIsSaved`, not checked by a run).
* Updates. Two copies and one fault, or one copy and two, can leave neither the
  program nor the file set aside. A copy that ends between its two renames leaves only
  the latter. A slower copy or its rollback may put an older version back.
* Links. Copies that start together remove each other's socket, and closing removes
  whichever socket has the name. A link whose answer is late is asked about twice. A full
  queue is answered as if the link was taken; a later link replaces the question.
* Shared sound. A failed list of clients makes a stream of the app itself recorded
  until the next scan. A stream that stops may put out twice what it was late by: it
    loses the pace, comes back with what it owes, and loses it again. Errors of the scan
  are ignored for good once the server is gone.
* Clipboard. A copy nobody confirms loses what was copied before; `CopyToClipboard`
  succeeds when no way worked; a source that ends gives a paste that is cut.

## 4. What is proved

All theorems are listed in `PROJECT.json`. Each rests on the named assumptions on
the constants of its module and nothing else; TLC evaluates every one of them.
A theorem about a component holds for any values that satisfy the assumption; in
a composed module, for any values of the constants it leaves open.

### Group keys

From `GroupRekeyAssumption` (the host is not among the members, the bounds are
positive) and `NoKeyAssumption` (an empty slot is not a key):

* `TypeCorrect`, `RingsStayOrdered`, `DepartedMembersCannotFollow`: from the
  inductive invariant `IInv`. The safety property speaks only of moments at which
  the host is idle and is not inductive; what carries it are three facts about
  the moments in between: the staged key is the one of the running rotation
  (`StagedIsRotation`), nobody holds a key newer than the host's newest
  (`GivenExists`), and a dropped member may hold the newest key only while a
  timer or goroutine owes a rotation (`RotationOwed`).
* `EpochsNeverGoBack`: the action property, from the order of the rings.
* `ImplementsKeyPolicy`: every step of the protocol is a step of `KeyPolicy` or
  leaves its variables alone.
* `AcknowledgedMembersAgree`: strengthens `IInv` by
  what relates the members to the rotation: no message or ring holds a key newer
  than the host's newest, a staged key has its timer, timers run only in the
  room, and an acknowledgement of the last rotation was sent by a member that
  has its key staged or active unless it has left since.

### Relay rooms

`RelayRoomProofs` shows `RelayRoom` for any set of nodes and connections, any limit
and any number of requests that may wait. `IInv` has three parts next to the types.

* `RoomInv`: the join order lists each member once (`OrderIsRoom`), what a connection
  remembers of the room is what the room remembers of it (`SlotsAgree`), a room
  has a host and the host is a member, the limit, and a grace for each member without
  a connection. `RoomStaysConsistent`, `GraceStaysLimited` and `RoomAlwaysFits`
  follow. The step that carries it is the handover of a slot: a returning member
  detaches the connection it had, and an approval counts again.
* `TokenInv`: no host token anywhere, in a notice, a signal or a node, is newer than
  the room's, and the room's own is only where the host is: in what is still to be
  sent or read by its connections, or with it. `ConnsAreOwn` says that nobody reads
  the signals of another node's connection. `OnlyTheHostHasTheToken` follows: a
  token is made once and told to one node, and a new one is made before anyone
  else is told that it is the host.
* `ImplementsRoomHosting`: each step is a step of `RoomHosting` or a stutter.
  `EveryRoomStaysSmall` (`RoomSizesProofs`) carries the limit over to the module of the
  run, whose two rooms have different limits.

### Members

`MembersProofs`, about `MCMembers`:

* `HostsComeToAgree`, from `HostInv`: what the relay has still to say to a node is a
  leave, a leave and the new host, or only the latter; a host of the relay that has
  left is one whose leave the relay has not noticed; and a node that holds another one
  for the host is still to be told. The election of the LAN may choose otherwise
  meanwhile, which is why the property speaks of nodes that have heard the relay out.
  Only the first host leaves while it is host, so this is one change of host; any
  number of other members leave meanwhile.
* `DoorStaysKept` and `KnockersStayAsked`, from `DoorInv`: the members listed beyond
  the limit are those that were dropped and heard again, and every way into the list
  asks for a place under the limit or under `MaxPeers`, so that neither count is
  passed; a joiner has one session and an answer under way is the only one
  (`DoorShape`), and while knocking stays on every "ok", in a session, on its way or
  at a joiner that has the key, is of a session the user let in (`OnlyAllowed`); what
  a joiner holds of an earlier attempt does not count for another.
* `MessagesStayShownOnce`, from `ChatInv`: as long as no more was said than the room keeps,
  a ring has no message twice and each it has is known as seen (`Ring`), so that there is
  room for one it does not know (`RoomForOne`) and none is forgotten; and what is on a
  screen was shown once and is known as seen (`Once`). A history is recorded message by
  message (`RecordAllKeeps`). It holds for any members and limit and any number of joins,
  returns, messages and switches of the history.
* `MembersStayTyped`: `TypeOK` of all six components, from an invariant for each. The
  types of the code alone would not do: what is said of a host's keyring needs the keys
  on their way (`HostTypes`), the sessions of a door that numbers are given out once
  (`DoorTypes`), the log of the chat that a ring has no message twice (`ChatTypes`, with
  `ChatInv`), the one slot of a receiver that a header is let in only for a transfer that
  is gone (`FileTypes`), and an address that it was a port of the other member when it was
  sent, late datagrams and signals included (`PathTypes`). The keys are an instance of
  `GroupRekeyProofs`: its `IInv` holds there because every action of `GroupRekey` is the one
  of the instance (`KeysNext`).

### Sound, screen and voice

`MediaProofs`, about `MCMedia`:

* `ResourcesStayOwned`: `StreamInv` (a stream that an actor holds, to close it or to
  make it the current one, is not closed and is held by no other), `OwnedInv` (while
  no two reopenings overlapped only one actor is between taking a stream and making
  one current, so that there is no current stream for its own to overwrite, and every
  stream has its owner), `ShareInv` (one share is set up at a time, and only while
  there is none, so that a capture or preview is of the share there is or due to be
  closed) and `EncoderInv` (from the killing of the old encoder until the new one is
  current, the old one is told to end).
* `ChosenDeviceStaysUsed`, from `DeviceInv`; `OnlyMeantSoundGoesOut`, from `SwitchesInv`
  (a frame captured while muted has no sound left when it is sent) and `SourceInv` (as
  long as a look at a monitor is the last that counts, the writer knows of it).

The rest of the module shows `PlaybackStaysRecorded`: the whole of
`PlayedAsRecorded`, for any depths, gaps, patience and sizes of the buffers and queues, of
the window of copies and of the sharer's history.

* Voice, from `VoiceInv`: `SpeakerInv` (the frames sent and those kept back are ordered),
  `CheckInv` (what the buffer holds or has played still has its slot of the window, or is
  too old to be let in again) and `BufferInv` (what is held was not played and its turn has
  not passed). It assumes that the numbers do not come half way round: what happens after
  a wrap is outside it.
* The order of video, from `OrderInv`: the buffer holds numbers from the next one to the
  highest only, and what was released comes before the next one (`Buffer`, `Later`). The
  release stops at a number inside that range, skipped gaps and new streams included
  (`StopsInside`, `StoreKeepsBuffer`).
* Holes in the picture, from `VideoInv`: a chunk queued after one that was thrown away
  is a keyframe, and while something was thrown away a keyframe is waited for
  (`NoSmear`); where a player was replaced, a chunk that lacks the one before went
  with that player or is one of those (`WithoutOneKeeps`), and there has been a
  replacement (`PumpInv`). One release puts any number of chunks into the queue, which
  the model folds; `FoldKeepsWhole` goes through them place by place.

`MediaStaysTyped` is `TypeOK` of all nine components, from an invariant for each, which for
voice, video, devices, shares and encoders rests on those above. What the types of the code
would not give by themselves:

* the fields of a video's buffer: what is released of it are chunks that were sent, because
  every place in the order is taken by one of those held (`HasRank`, an induction over their
  numbers, and `InOrderGiven`), so that the player's queue has room for what `Put` adds
  (`Fits`, through the fold); and the count of requests for a chunk stays below its limit
  because only one that is due is asked for again (`AskedMiss`);
* that the calls for the end of a share do not outnumber the shares: a share that runs
  has not called for its own end (`SharerTypes`);
* that the control message that is followed, while it counts as queued, is in the
  queue, unless the connection closed (`QueueTypes`); that every watcher of a key,
  whether it starts, runs or closes, is one that was made (`KeyTypes`); that the
  buffer of voice holds finitely many of the numbers that were sent (`BufferTypes`).

Both the proof about playback and the one about the chat rest on `FoldFacts`: that a
fold takes one step for each element, from the first to the last (`FoldStepByStep`).
The operator that is folded is a parameter of the module, so that an instance of it
gives the fact for any operator. An induction over the places is within reach of the
prover because the set of those up to which the statement holds can be named, and the
least one outside it is a contradiction (`UpTo`).

### Application

`AppProofs` and `ScreenProofs`, about `MCApp`; the last three theorems are in
`ScreenProofs`, which extends the other:

* `TypedTextStaysKept`: `AddressInv` and `LineInv` (browsing stands within the history or
  at the draft, and what was put aside is the draft).
* `ChoicesComeToBeSaved`: `SettingsInv`, which follows what is set, what counts as saved,
  what a write under way holds and what the file has.
* `LinksStayTaken`: `LinksInv`; at most one live process has a link, and starts are counted
  against the two marks in the environment.
* `CopiedTextStaysPasted`: `ClipInv`; an owner that is a connection is one that is served
  and not yet told, and a reader gets the text of the owner it asked.
* `ProgramAlwaysSurvives`: `UpdateInv`; without faults the program's file is missing
  only in the hands of a copy that is about to put a whole one there (`UnderRepair`), and
  with one fault of the only copy at work one of the two files is whole (`OneLeaves`).
* `OutputAlwaysKeepsPace`: `MixerInv`. `PaceIsKept` bounds how far the output will be ahead
  once each stream has given what it owes (`Lead`), by less when the clock has begun to be
  missed, since another may then set the pace; `SoundGoesOn` bounds the silence. For any
  number of streams and any `Late` up to `Quiet`.
* `ScreenAndKeysAlwaysAgree`: `ScreenInv`; `DialogsFit` says which dialogs can be up
  together, `RoomIsShown` what the screen and the node may differ by while an answer or a
  removal is on its way. `DialogInv` and `StageInv` say that the frame kept is one that was
  drawn of some state; the rest is about any frame of any size. In the settings dialog the
  lines of the settings grow with their number and leave the last line to the buttons
  (`Line`, `RowMap`), and the spare lines are fewer than the gaps they go into. In the room
  the cells of a grid are apart because the quotients that are their edges grow with
  their number; every area for a member lies in the member's place, the areas of one
  place are apart, and so are the places. It holds for any number of members, any sizes of
  the terminal and any widths of the texts down to those of the assumption.
* `ScrolledViewStaysPut`, the action property, from `PanelInv`. The lines of the chat
  are each there once and those of a message are there if the message is
  (`LinesOfAll`, with `FoldFacts`). As long as the first message of the last frame is
  there, so is every line of that frame (`Held`): messages that come, go in between,
  grow or are cut move the others in their order (`Moves`), and what is cut is cut
  from the front. So there are not fewer lines than there were, and the offset grows
  by how many came. The place a message of the history goes to is found by a recursive
  search of a model function; that it ends, at a place between the messages, is an
  induction over the length of what is left to search (`FirstAfterIsAPlace`). For the
  debug log, a draw adds the rows that came to the offset, which then is below the
  last page unless that would not be full. A click reaches one row of the frame, whose
  regions change the settings of that row; on a room it meets an area of one member,
  and every area is for the member in whose place it lies (`Aimed`).
* `AppStaysTyped`: `TypeOK` of all twelve components. For most of them the invariants
  above give the types, and the rest follows from the type itself (`AddressTypes`,
  `LineTypes`, `StreamTypes`). More is needed where a limit is the sum of many steps:
  the frames a stream has put into the mixer and not given (`MixerBounds`), the links
  a process hands on (`LinkQueues`), the texts a paste may get, each one that was
  copied (`CopiesFit`, `HeldFits`), the rooms and the questions of a screen
  (`RoomsAreCounted`, `GuestsAreCounted`), and the lines of the chat: there are at
  most two for each message ever said, because every line names a message and one of
  its rows and none is there twice (`LinesAreBounded`).

Four of these proofs failed at first because the property was false. `TypeOK` of
`ChatPanel` gave the offset of the chat the limit of its lines, but nothing limits it
before the first frame, when `ScrollChat` does not know yet how many lines there are;
an instance with more acts of the user than lines would have shown it. It now says
what holds before the first frame and what after. For the other three TLC then showed
why on a larger instance: the choice of a microphone that is made just after the
headset came back (`Settings`), one copy whose rename and overwrite both fail
(`SelfUpdate`), and a stream that sets the pace again after it stopped (`SoundMixer`:
with three streams and four stops the output was further ahead than the property first
allowed, and silent for longer). Two of the properties now make these exceptions, and
the runs have the bounds at which they occur; the bounds of the third are now those of
the theorem, and the instance that needs them has more streams than its run.

### What stays with TLC

* Liveness under fairness, which the prover cannot show: `RoomIsGivenUp`, `PlaybackGoesOn`,
  `SwitchesTakeEffect`, `SignalGoesOut`, `SharingEnds`, `EveryFileIsOffered`,
  `MembersRecover`, `ServicesSettle`.

Every invariant and action property of a passing run is stated by a theorem.

## 5. Not modelled

* Numerical code: signal processing, the Opus wrapper, the bitrate controllers,
  round-trip and loss estimates. Floating-point functions of one thread.
* Bindings to the operating system and its services, desktop portals, encoders' and
  players' command lines: what they do is external to the program.
* Encodings of packets, signals and invitations: one call in, one value out, reached
  by the repository's round-trip tests; the models carry the fields that are read.
* Layout and drawing of the user interface, except where what is drawn decides what
  a key or a position means.
* The installer, the signing tool and the relay's executable.
* Within modelled components: PINs, bans and rate limits, a room limit that the host
  lowers while the room is open, vouches, the count of unreadable packets before a key
  request, the choice among several relays, LAN discovery; the expiry of parts of a
  long message that never becomes whole and of the table of copies. In the run the
  lines of the debug log have one length (the theorem holds for any).

## 6. Plan

1. Group keys while the host stays, relay rooms: modelled, checked, proved.
2. Change of host, admission, voice, devices, shares, capture, settings, updates,
   links, clipboard, screens and text fields: modelled, checked, their types and
   safety proved.
3. Left to model: the lock of a room across a change of host, vouches, LAN discovery.
