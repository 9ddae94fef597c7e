---------------------------- MODULE VoiceControls ----------------------------
(***************************************************************************)
(* The switches of one user's voice: mute, deafen and the microphone test  *)
(* (internal/engine/engine.go, the keys in app_keys.go, the dialog in      *)
(* app_modals.go, leaving a room in app.go), the capture goroutine that    *)
(* reads them twice for every frame, and what the other members are told   *)
(* (SendMuteState, pings, chat messages; the refresh at the top of         *)
(* handlePacket in internal/p2p/node.go).                                  *)
(*                                                                         *)
(* Users act on the event loop; frames are captured on a thread of the     *)
(* audio library; packets reach another member in any order.               *)
(***************************************************************************)
EXTENDS Naturals

CONSTANT MaxActs    \* what the user does (bound)

VoiceControlsAssumption == MaxActs \in Nat

VARIABLES
    screen,                 \* "lobby" or "room"
    Muted, Deafened, InTestMode, PrevMuted, PrevDeafened, Loopback,
    showTestModal,
    meant,      \* the mute state the user set last outside the test
    frame,      \* what the capture thread has in its hands between its reads
    heard,      \* what of the frames sent to the room could be heard
    told,       \* mute and deafen states on their way to another member
    shown,      \* what that member shows
    acts

controls == <<Muted, Deafened, InTestMode, PrevMuted, PrevDeafened, Loopback,
              showTestModal, meant>>
vars == <<screen, controls, frame, heard, told, shown, acts>>

\* No frame is being processed.
Idle == [sound |-> FALSE, muted |-> FALSE, testing |-> FALSE, taken |-> FALSE]

Init ==
    /\ screen = "lobby"
    /\ Muted = FALSE /\ Deafened = FALSE /\ InTestMode = FALSE
    /\ PrevMuted = FALSE /\ PrevDeafened = FALSE /\ Loopback = FALSE
    /\ showTestModal = FALSE /\ meant = FALSE
    /\ frame = Idle /\ heard = {}
    /\ told = {} /\ shown = <<FALSE, FALSE>>
    /\ acts = 0

TypeOK ==
    /\ screen \in {"lobby", "room"}
    /\ {Muted, Deafened, InTestMode, PrevMuted, PrevDeafened, Loopback,
        showTestModal, meant} \subseteq BOOLEAN
    /\ frame \in [sound : BOOLEAN, muted : BOOLEAN, testing : BOOLEAN, taken : BOOLEAN]
    /\ heard \subseteq [muted : BOOLEAN, testing : BOOLEAN]
    /\ told \subseteq BOOLEAN \X BOOLEAN /\ shown \in BOOLEAN \X BOOLEAN
    /\ acts \in 0 .. MaxActs

Acts == acts < MaxActs /\ acts' = acts + 1

Tell(state) == told' = IF screen = "room" THEN told \cup {state} ELSE told

-----------------------------------------------------------------------------
(* The event loop                                                          *)

\* ToggleMute and SendMuteState: the key of the room or of the test dialog.
ToggleMute ==
    /\ Acts
    /\ screen = "room" \/ showTestModal
    /\ Muted' = ~Muted
    /\ meant' = IF InTestMode THEN meant ELSE Muted'
    /\ Tell(<<Muted', Deafened>>)
    /\ UNCHANGED <<screen, Deafened, InTestMode, PrevMuted, PrevDeafened,
                   Loopback, showTestModal, frame, heard, shown>>

\* ToggleDeafen, SendDeafenState and SendMuteState: deafening mutes.
ToggleDeafen ==
    /\ Acts
    /\ screen = "room" \/ showTestModal
    /\ Deafened' = ~Deafened
    /\ Muted' = (Muted \/ Deafened')
    /\ meant' = IF InTestMode THEN meant ELSE Muted'
    /\ Tell(<<Muted', Deafened'>>)
    /\ UNCHANGED <<screen, InTestMode, PrevMuted, PrevDeafened, Loopback,
                   showTestModal, frame, heard, shown>>

\* openTestModal: the key works where no dialog is open.
OpenTest ==
    /\ Acts
    /\ ~showTestModal
    /\ PrevMuted' = Muted /\ PrevDeafened' = Deafened
    /\ InTestMode' = TRUE /\ Loopback' = TRUE
    /\ Muted' = FALSE /\ Deafened' = TRUE
    /\ showTestModal' = TRUE
    /\ UNCHANGED <<screen, meant, frame, heard, told, shown>>

\* closeTestModal: LeaveTestMode restores what EnterTestMode kept.
closeTestModal ==
    /\ InTestMode' = FALSE /\ Loopback' = FALSE
    /\ Muted' = PrevMuted /\ Deafened' = PrevDeafened
    /\ showTestModal' = FALSE
    /\ UNCHANGED <<PrevMuted, PrevDeafened>>

CloseTest ==
    /\ showTestModal
    /\ closeTestModal
    /\ UNCHANGED <<screen, meant, frame, heard, told, shown, acts>>

\* joinRoom's answer comes on a goroutine, also while the test dialog is open.
\* The other members learn the state from the hello.
JoinRoom ==
    /\ Acts
    /\ screen = "lobby"
    /\ screen' = "room"
    /\ shown' = <<Muted, Deafened>> /\ told' = {}
    /\ UNCHANGED <<controls, frame, heard>>

\* leaveRoom, or applyKicked: resetToLobby closes the test dialog, open or not.
LeaveRoom ==
    /\ Acts
    /\ screen = "room"
    /\ screen' = "lobby"
    /\ closeTestModal
    /\ told' = {}
    /\ UNCHANGED <<meant, frame, heard, shown>>

-----------------------------------------------------------------------------
(* The capture thread                                                      *)

\* Faulty variant: a muted frame keeps its sound; only the send is prevented.
CaptureFrame_Raw ==
    /\ ~frame.taken
    /\ \E voice \in BOOLEAN :
           frame' = [sound |-> voice, muted |-> Muted,
                     testing |-> InTestMode, taken |-> TRUE]
    /\ UNCHANGED <<screen, controls, heard, told, shown, acts>>

\* processCaptureFrame, under the lock: a muted frame is silence.
CaptureFrame ==
    /\ ~frame.taken
    /\ \E voice \in BOOLEAN :
           frame' = [sound |-> voice /\ ~Muted, muted |-> Muted,
                     testing |-> InTestMode, taken |-> TRUE]
    /\ UNCHANGED <<screen, controls, heard, told, shown, acts>>

\* The callback of App.Run, after the lock is released: it reads the switches
\* again.
SendFrame ==
    /\ frame.taken
    /\ frame' = Idle
    /\ heard' = IF screen = "room" /\ ~InTestMode /\ ~Muted /\ frame.sound
                THEN heard \cup {[muted |-> frame.muted, testing |-> frame.testing]}
                ELSE heard
    /\ UNCHANGED <<screen, controls, told, shown, acts>>

-----------------------------------------------------------------------------
(* The other members                                                       *)

\* Faulty variant: pings do not carry the state.
Ping_Bare ==
    /\ screen = "room"
    /\ told' = told \cup {<<FALSE, FALSE>>}
    /\ UNCHANGED <<screen, controls, frame, heard, shown, acts>>

\* sendPingToPeer, every heartbeat.
Ping ==
    /\ screen = "room"
    /\ told' = told \cup {<<Muted, Deafened>>}
    /\ UNCHANGED <<screen, controls, frame, heard, shown, acts>>

\* A chat message carries no state, which reads as neither muted nor deafened.
Chat ==
    /\ Acts
    /\ screen = "room"
    /\ told' = told \cup {<<FALSE, FALSE>>}
    /\ UNCHANGED <<screen, controls, frame, heard, shown>>

\* Every packet but audio refreshes what the other member shows.
Refresh ==
    \E state \in told :
        /\ told' = told \ {state}
        /\ shown' = state
        /\ UNCHANGED <<screen, controls, frame, heard, acts>>

Next ==
    \/ ToggleMute \/ ToggleDeafen \/ OpenTest \/ CloseTest
    \/ JoinRoom \/ LeaveRoom
    \/ CaptureFrame \/ SendFrame
    \/ Ping \/ Chat \/ Refresh

Spec == Init /\ [][Next]_vars

\* The heartbeat ticks, and the network delivers something now and then.
Fairness == WF_vars(Ping) /\ WF_vars(Refresh)

-----------------------------------------------------------------------------
(* Properties                                                              *)

\* What was said while muted is never heard, also when the microphone is
\* switched on while the frame is on its way to the network.
MutedSoundStaysHere == \A h \in heard : ~h.muted

\* Whatever packets are lost between pings or overtake one another, the other
\* members come to show the switches as they are.
MembersLearnTheSwitches ==
    <>[](screen = "room" => shown = <<Muted, Deafened>>)

=============================================================================
