------------------------------- MODULE Settings ------------------------------
(* The settings of one running copy and their file (config.go,                *)
(* app_settings.go, the handlers that call UpdateAppConfig).  The event loop  *)
(* compares what is set with what it saved last, twice a second, and writes   *)
(* what changed; other settings are written when they are changed, the        *)
(* nickname on a goroutine.  Every write loads the file, changes some fields  *)
(* and writes all of them; os.WriteFile empties the file first.               *)
EXTENDS Naturals

CONSTANT MaxActs    \* bound: what the user and the machine do

SettingsAssumption == MaxActs \in Nat

VARIABLES
  file,                     \* the file: a record of settings, or Empty
  running,
  audio, device, chat,      \* what is set: sound, the microphone selected, the chat's size
  nick,
  want,                     \* the microphone the engine waits for
  plugged,                  \* the headset is there
  saved,                    \* savedSettings
  writer,                   \* of the event loop and the nickname's goroutine: the write under way
  chosen,                   \* history: what the user chose last
  torn, roomed, unplugged,  \* history: writes crossed or broke off; a room was entered since the
                            \* chat's size was chosen; the headset was missed since a chosen
                            \* microphone was written with it there
  acts

settings == <<audio, device, chat, nick, want>>
vars == <<file, running, settings, plugged, saved, writer, chosen, torn, roomed, unplugged, acts>>

Config == [audio : {0, 1}, device : {"default", "headset"}, chat : {0, 1}, nick : {0, 1}]
Defaults == [audio |-> 0, device |-> "default", chat |-> 0, nick |-> 0]
Empty == [empty |-> TRUE]
Files == Config \union {Empty}
Writers == {"loop", "nick"}
Idle == [at |-> "idle", cfg |-> Defaults]

\* LoadAppConfig: a file that cannot be read counts as no settings at all.
LoadAppConfig == IF file = Empty THEN Defaults ELSE file

\* currentSettings
Snapshot == [audio |-> audio, device |-> device, chat |-> chat]

Act == acts < MaxActs /\ acts' = acts + 1
Quiet == \A w \in Writers : writer[w] = Idle

Init ==
  /\ file = Defaults /\ running = FALSE
  /\ audio = 0 /\ device = "default" /\ chat = 0 /\ nick = 0 /\ want = "default"
  /\ plugged = TRUE /\ saved = Snapshot
  /\ writer = [w \in Writers |-> Idle]
  /\ chosen = Defaults /\ torn = FALSE /\ roomed = FALSE /\ unplugged = FALSE /\ acts = 0

-----------------------------------------------------------------------------
(* Start and end *)

\* NewApp, applySettings: a saved microphone that is not there is waited for.
Start ==
  /\ ~running /\ Act
  /\ running' = TRUE
  /\ LET cfg == LoadAppConfig
     IN  /\ audio' = cfg.audio /\ chat' = cfg.chat /\ nick' = cfg.nick /\ want' = cfg.device
         /\ device' = IF cfg.device = "headset" /\ ~plugged THEN "default" ELSE cfg.device
         /\ saved' = [audio |-> audio', device |-> device', chat |-> chat']
  /\ UNCHANGED <<file, plugged, writer, chosen, torn, roomed, unplugged>>

\* cleanExit: persistSettings wrote what was left.
CleanExit ==
  /\ running /\ Quiet /\ saved = Snapshot
  /\ running' = FALSE
  /\ UNCHANGED <<file, settings, plugged, saved, writer, chosen, torn, roomed, unplugged, acts>>

\* The program or the machine ends, or the disk is full: a write that began is not finished.
Crash ==
  /\ running /\ Act
  /\ running' = FALSE
  /\ writer' = [w \in Writers |-> Idle]
  /\ torn' = (torn \/ ~Quiet \/ saved # Snapshot)
  /\ UNCHANGED <<file, settings, plugged, saved, chosen, roomed, unplugged>>

-----------------------------------------------------------------------------
(* The user and the machine *)

\* The controls of sound and layout: CycleSuppressionMode and its like, ResizeChat
ChangeAudio ==
  /\ running /\ Act
  /\ audio' = 1 - audio /\ chosen' = [chosen EXCEPT !.audio = audio']
  /\ UNCHANGED <<file, running, device, chat, nick, want, plugged, saved, writer, torn, roomed, unplugged>>

ResizeChat ==
  /\ running /\ Act
  /\ chat' = 1 - chat /\ chosen' = [chosen EXCEPT !.chat = chat'] /\ roomed' = FALSE
  /\ UNCHANGED <<file, running, audio, device, nick, want, plugged, saved, writer, torn, unplugged>>

\* SetInputDevice
PickDevice ==
  /\ running /\ Act
  /\ \E d \in {"default", "headset"} :
       /\ d = "headset" => plugged
       /\ device' = d /\ want' = d /\ chosen' = [chosen EXCEPT !.device = d]
  /\ UNCHANGED <<file, running, audio, chat, nick, plugged, saved, writer, torn, roomed, unplugged>>

\* RefreshDevices, reselect: the wanted device is selected when it is there.
Plug ==
  /\ Act
  /\ plugged' = ~plugged
  /\ device' = IF ~running THEN device ELSE IF plugged' THEN want ELSE "default"
  /\ unplugged' = (unplugged \/ ~plugged')
  /\ UNCHANGED <<file, running, audio, chat, nick, want, saved, writer, chosen, torn, roomed>>

\* startHost, joinRoom: a new RoomView, with the chat's default size
EnterRoom ==
  /\ running /\ Act
  /\ chat' = 0 /\ roomed' = TRUE
  /\ UNCHANGED <<file, running, audio, device, nick, want, plugged, saved, writer, chosen, torn, unplugged>>

-----------------------------------------------------------------------------
(* Writes: UpdateAppConfig, SaveAppConfig, writePrivateFile *)

Begin(w, cfg) ==
  /\ writer[w] = Idle
  /\ writer' = [writer EXCEPT ![w] = [at |-> "loaded", cfg |-> cfg]]
  /\ torn' = (torn \/ \E v \in Writers \ {w} : writer[v] # Idle)

\* A chosen microphone that was missed is written while it is there.
Regained == plugged /\ device # saved.device /\ device = chosen.device

\* Faulty: the file is written anew from what is set
PersistSettings_Anew ==
  /\ running /\ saved # Snapshot
  /\ saved' = Snapshot
  /\ Begin("loop", [Defaults EXCEPT !.audio = audio, !.device = device, !.chat = chat])
  /\ unplugged' = (unplugged /\ ~Regained)
  /\ UNCHANGED <<file, running, settings, plugged, chosen, roomed, acts>>

\* persistSettings: what is being written counts as saved.
PersistSettings ==
  /\ running /\ saved # Snapshot
  /\ saved' = Snapshot
  /\ Begin("loop", [LoadAppConfig EXCEPT !.audio = audio, !.device = device, !.chat = chat])
  /\ unplugged' = (unplugged /\ ~Regained)
  /\ UNCHANGED <<file, running, settings, plugged, chosen, roomed, acts>>

\* OnChangeNick, on a goroutine; the other fields are written by the event loop in the same
\* way (setLanguage, setRoomLimit, saveRelaySettings, saveScreenSettings, toggleNotifications).
ChangeNick ==
  /\ running /\ Act
  /\ nick' = 1 - nick /\ chosen' = [chosen EXCEPT !.nick = nick']
  /\ Begin("nick", [LoadAppConfig EXCEPT !.nick = nick'])
  /\ UNCHANGED <<file, running, audio, device, chat, want, plugged, saved, roomed, unplugged>>

Truncate(w) ==
  /\ running /\ writer[w].at = "loaded"
  /\ file' = Empty /\ writer' = [writer EXCEPT ![w].at = "emptied"]
  /\ UNCHANGED <<running, settings, plugged, saved, chosen, torn, roomed, unplugged, acts>>

Write(w) ==
  /\ running /\ writer[w].at = "emptied"
  /\ file' = writer[w].cfg /\ writer' = [writer EXCEPT ![w] = Idle]
  /\ UNCHANGED <<running, settings, plugged, saved, chosen, torn, roomed, unplugged, acts>>

Next ==
  \/ Start \/ CleanExit \/ Crash
  \/ ChangeAudio \/ ResizeChat \/ PickDevice \/ Plug \/ EnterRoom
  \/ PersistSettings \/ ChangeNick
  \/ \E w \in Writers : Truncate(w) \/ Write(w)

Spec == Init /\ [][Next]_vars

-----------------------------------------------------------------------------
(* Properties *)

\* The parts are in states the code knows.
TypeOK ==
  /\ file \in Files /\ Snapshot \in [audio : {0, 1}, device : {"default", "headset"}, chat : {0, 1}]
  /\ saved \in [audio : {0, 1}, device : {"default", "headset"}, chat : {0, 1}]
  /\ nick \in {0, 1} /\ want \in {"default", "headset"} /\ chosen \in Config
  /\ writer \in [Writers -> [at : {"idle", "loaded", "emptied"}, cfg : Config]]
  /\ {running, plugged, torn, roomed, unplugged} \subseteq BOOLEAN /\ acts \in 0 .. MaxActs

\* When nothing is left to write, the file holds what the user chose last, whatever was
\* changed while it was written, and over starts and ends (persistSettings; UpdateAppConfig:
\* "preserving fields the caller does not touch").  Writes that cross on two goroutines, or
\* break off, may lose any field; the chat's size is lost by entering a room, and a microphone
\* by missing it: what stands in for it is written, and a choice of what counts as saved is not,
\* until a choice is written with the headset there.
ChoicesAreSaved ==
  Quiet /\ ~torn /\ (running => saved = Snapshot) =>
    /\ file # Empty /\ file.audio = chosen.audio /\ file.nick = chosen.nick
    /\ roomed \/ file.chat = chosen.chat
    /\ unplugged \/ file.device = chosen.device

\* The size the user gave the chat is in the file (README: "the choice is saved in
\* settings.json, like the audio settings, microphone and speakers, theme, mini HUD and chat
\* height").
ChatHeightIsSaved ==
  Quiet /\ ~torn /\ (running => saved = Snapshot) => file.chat = chosen.chat

====
