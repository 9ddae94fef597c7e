---------------------------- MODULE AudioDevices ----------------------------
(***************************************************************************)
(* The device streams of the audio engine in one direction, capture or     *)
(* playback (internal/engine/engine.go): the list of devices and the       *)
(* selection that follows it, and reopening the stream, which the event    *)
(* loop (the user picks a device, leaves) and the watcher of devices (a    *)
(* device came or went, a stream stalled; watchAudioDevices in app.go) do  *)
(* side by side, in several steps each.                                    *)
(*                                                                         *)
(* A device is known by its name.  Opening one that is not there fails, and *)
(* opening one that is there may.                                          *)
(***************************************************************************)
EXTENDS Integers, Sequences

CONSTANTS
    Devices,        \* beside the system default
    MaxStreams,     \* streams opened (bound)
    MaxChanges      \* devices plugged in or removed (bound)

Default == "default"

AudioDevicesAssumption ==
    /\ Default \notin Devices
    /\ MaxStreams \in Nat \ {0} /\ MaxChanges \in Nat

Actors == {"loop", "watcher"}
None == 0           \* no stream; streams are numbered from 1

VARIABLES
    plugged,        \* devices that are there
    changes,
    InputDevices,   \* the list as of the last refresh, without the default
    SelectedInput, wantInput,
    running,
    opened,         \* device of each stream opened so far
    closed,         \* streams closed
    twice,          \* streams closed more than once
    captureStream,
    step,           \* what each actor is doing
    hand,           \* the stream an actor holds: to close, or just opened
    overlapped,     \* history: one actor began to reopen while the other was at it
    listed,         \* what the watcher has enumerated
    simulated       \* loops that stand in for a device that would not open

selection == <<InputDevices, SelectedInput, wantInput>>
streams == <<opened, closed, twice>>
reopening == <<step, hand, overlapped>>
vars == <<plugged, changes, selection, running, streams, captureStream,
          reopening, listed, simulated>>

\* After Start, which opened the default device or failed to.
Init ==
    /\ plugged \in {{}, Devices} /\ changes = 0
    /\ InputDevices = plugged
    /\ SelectedInput = Default /\ wantInput = Default
    /\ running = TRUE
    /\ \/ opened = <<Default>> /\ captureStream = 1 /\ simulated = 0
       \/ opened = <<>> /\ captureStream = None /\ simulated = 1
    /\ closed = {} /\ twice = {}
    /\ step = [p \in Actors |-> "idle"]
    /\ hand = [p \in Actors |-> None]
    /\ overlapped = FALSE
    /\ listed = plugged

Streams == DOMAIN opened

TypeOK ==
    /\ plugged \subseteq Devices /\ changes \in 0 .. MaxChanges
    /\ InputDevices \subseteq Devices /\ listed \subseteq Devices
    /\ {SelectedInput, wantInput} \subseteq Devices \cup {Default}
    /\ running \in BOOLEAN
    /\ \A s \in Streams : opened[s] \in Devices \cup {Default}
    /\ Len(opened) <= MaxStreams
    /\ closed \subseteq Streams /\ twice \subseteq closed
    /\ captureStream \in Streams \cup {None}
    /\ step \in [Actors -> {"idle", "take", "close", "open", "assign", "failed",
                            "refresh", "stopped"}]
    /\ hand \in [Actors -> Streams \cup {None}]
    /\ overlapped \in BOOLEAN
    /\ simulated \in 0 .. MaxStreams

At(p, s) == step[p] = s
Goto(p, s) == step' = [step EXCEPT ![p] = s]

-----------------------------------------------------------------------------
(* The system                                                              *)

\* A device is plugged in or removed.  Bound: MaxChanges.
PlugOrUnplug ==
    /\ changes < MaxChanges
    /\ changes' = changes + 1
    /\ \E d \in Devices :
           plugged' = IF d \in plugged THEN plugged \ {d} ELSE plugged \cup {d}
    /\ UNCHANGED <<selection, running, streams, captureStream, reopening,
                   listed, simulated>>

-----------------------------------------------------------------------------
(* The selection                                                           *)

\* SetInputDevice: the user picks a device of the list.
SetInputDevice ==
    /\ At("loop", "idle")
    /\ \E d \in InputDevices \cup {Default} :
           /\ wantInput' = d
           /\ SelectedInput' = d
           /\ Goto("loop", IF SelectedInput # d /\ running THEN "take" ELSE "idle")
    /\ UNCHANGED <<plugged, changes, InputDevices, running, streams,
                   captureStream, hand, overlapped, listed, simulated>>

\* RefreshDevices enumerates without the lock.
EnumerateDevices ==
    /\ At("watcher", "idle")
    /\ listed' = plugged
    /\ Goto("watcher", "refresh")
    /\ UNCHANGED <<plugged, changes, selection, running, streams,
                   captureStream, hand, overlapped, simulated>>

\* Faulty variant: the selection only follows the device that was selected.
Reselect_Only(devs) ==
    IF SelectedInput \in devs \cup {Default} THEN SelectedInput ELSE Default

\* reselect: the device the user wanted comes first; one that is gone makes
\* way for the default.
Reselect(devs) ==
    IF wantInput \in devs \cup {Default} THEN wantInput
    ELSE IF SelectedInput \in devs \cup {Default} THEN SelectedInput
    ELSE Default

\* And then updates list and selection under it.
ApplyDevices ==
    /\ At("watcher", "refresh")
    /\ IF listed = InputDevices
       THEN UNCHANGED selection /\ Goto("watcher", "idle")
       ELSE /\ InputDevices' = listed
            /\ SelectedInput' = Reselect(listed)
            /\ Goto("watcher", IF SelectedInput' # SelectedInput /\ running
                               THEN "take" ELSE "idle")
            /\ UNCHANGED wantInput
    /\ UNCHANGED <<plugged, changes, running, streams, captureStream, hand,
                   overlapped, listed, simulated>>

\* ReopenStalledStreams: no frame came for two seconds.
ReopenStalled ==
    /\ At("watcher", "idle")
    /\ running /\ captureStream # None
    /\ Goto("watcher", "take")
    /\ UNCHANGED <<plugged, changes, selection, running, streams,
                   captureStream, hand, overlapped, listed, simulated>>

-----------------------------------------------------------------------------
(* restartCapture                                                          *)

\* Between taking the old stream and making a new one the current one
Reopening(p) == step[p] \in {"close", "open", "assign"}

\* Under the lock: whoever takes a stream to close it leaves none.
TakeOld(p) ==
    /\ At(p, "take")
    /\ overlapped' = (overlapped \/ \E q \in Actors : Reopening(q))
    /\ hand' = [hand EXCEPT ![p] = captureStream]
    /\ captureStream' = None
    /\ Goto(p, "close")
    /\ UNCHANGED <<plugged, changes, selection, running, streams, listed, simulated>>

Close(s) ==
    IF s = None THEN UNCHANGED streams
    ELSE /\ closed' = closed \cup {s}
         /\ twice' = twice \cup (closed \cap {s})
         /\ UNCHANGED opened

CloseOld(p) ==
    /\ At(p, "close")
    /\ Close(hand[p])
    /\ hand' = [hand EXCEPT ![p] = None]
    /\ Goto(p, "open")
    /\ UNCHANGED <<plugged, changes, selection, running, captureStream,
                   overlapped, listed, simulated>>

\* startCapture opens the selected device, without the lock.
\* Bound: MaxStreams.
Open(p) ==
    /\ At(p, "open")
    /\ \/ /\ SelectedInput \in plugged \cup {Default}
          /\ Len(opened) < MaxStreams
          /\ opened' = Append(opened, SelectedInput)
          /\ hand' = [hand EXCEPT ![p] = Len(opened')]
          /\ Goto(p, "assign")
       \/ /\ Goto(p, "failed")
          /\ UNCHANGED <<opened, hand>>
    /\ UNCHANGED <<plugged, changes, selection, running, closed, twice,
                   captureStream, overlapped, listed, simulated>>

\* It would not open: a loop of silent frames takes its place until Stop.
OpenFailed(p) ==
    /\ At(p, "failed")
    /\ simulated' = IF running /\ simulated < MaxStreams THEN simulated + 1 ELSE simulated
    /\ Goto(p, "idle")
    /\ UNCHANGED <<plugged, changes, selection, running, streams, captureStream,
                   hand, overlapped, listed>>

\* Faulty variant: a stream opened while the engine stopped becomes the current one.
Assign_Always(p) ==
    /\ At(p, "assign")
    /\ captureStream' = hand[p]
    /\ UNCHANGED streams
    /\ hand' = [hand EXCEPT ![p] = None]
    /\ Goto(p, "idle")
    /\ UNCHANGED <<plugged, changes, selection, running, overlapped, listed,
                   simulated>>

\* The opened stream becomes the current one, whichever was it before, or is
\* closed again when the engine has stopped.
Assign(p) ==
    /\ At(p, "assign")
    /\ IF running
       THEN captureStream' = hand[p] /\ UNCHANGED streams
       ELSE Close(hand[p]) /\ UNCHANGED captureStream
    /\ hand' = [hand EXCEPT ![p] = None]
    /\ Goto(p, "idle")
    /\ UNCHANGED <<plugged, changes, selection, running, overlapped, listed,
                   simulated>>

\* Stop takes the stream under the lock and closes it; the loops end.
Stop ==
    /\ At("loop", "idle") /\ running
    /\ running' = FALSE
    /\ Close(captureStream)
    /\ captureStream' = None
    /\ simulated' = 0
    /\ Goto("loop", "stopped")
    /\ UNCHANGED <<plugged, changes, selection, hand, overlapped, listed>>

Next ==
    \/ PlugOrUnplug
    \/ SetInputDevice \/ EnumerateDevices \/ ApplyDevices \/ ReopenStalled
    \/ \E p \in Actors : TakeOld(p) \/ CloseOld(p) \/ Open(p) \/ OpenFailed(p) \/ Assign(p)
    \/ Stop

Spec == Init /\ [][Next]_vars

-----------------------------------------------------------------------------
(* Properties                                                              *)

\* Streams that run, with nobody who could close them
Unowned == Streams \ (closed \cup {captureStream} \cup {hand[p] : p \in Actors})

\* Every stream that was opened is the current one, in the hand of one who closes it or makes
\* it the current one, or closed: none is lost while devices come and go and the engine stops
\* (Stop "shuts down the audio engine and closes device streams").  The exception is what the
\* code does not do: when the loop and the watcher reopen at the same time, the one that
\* finishes last puts its stream in the place of the other's (startCapture), which then runs
\* until the program ends.  But even so no two close the same stream, the current stream is
\* not one that somebody closes, and after Stop none is or becomes current.
StreamsAreOwned ==
    /\ ~overlapped => Unowned = {}
    /\ twice = {}
    /\ captureStream \notin closed
    /\ \A p \in Actors : hand[p] # None => hand[p] # captureStream
    /\ ~running => captureStream = None /\ simulated = 0

\* The device the user chose is selected whenever it is listed: also when it
\* was gone in between and another one took its place.
ChosenDeviceIsUsed == wantInput \in InputDevices \cup {Default} => SelectedInput = wantInput
=============================================================================
