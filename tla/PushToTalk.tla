----------------------------- MODULE PushToTalk -----------------------------
(***************************************************************************)
(* The system-wide push-to-talk key: the settings (app_keys.go,            *)
(* toggleGlobalPTT), syncGlobalPTT in app_settings.go, which starts and    *)
(* closes watchers to match them, and the watchers (internal/ptt), which   *)
(* start on a goroutine, sample the key and report its changes to the      *)
(* engine.                                                                 *)
(*                                                                         *)
(* The pollers of X11, Windows and macOS report the release of a held key  *)
(* when they are closed; the watcher of the desktop portal, the first      *)
(* choice on Wayland, does not.                                            *)
(***************************************************************************)
EXTENDS Integers, Sequences

CONSTANTS
    Keys,
    MaxWatchers,    \* watchers started (bound)
    MaxActs         \* changes of the settings and of the keys (bound)

None == 0

VARIABLES
    GlobalPTT, pushToTalk,  \* settings; InputMode = InputModePushToTalk
    key,            \* PTTKeyName
    pttKey,         \* the key of the watcher started last
    pttWatcher,
    starting,       \* watchers ptt.Start is busy with, by number
    keyOf,          \* the key of each watcher
    portals,        \* watchers of the desktop portal; the others poll
    alive,          \* watchers whose goroutine runs
    closed,         \* watchers told to end
    down,           \* watchers that reported their key held last
    IsPTTActive,
    unreported,     \* history: the watcher that reported the press is gone without a word
    held,           \* keys the user holds
    acts

settings == <<GlobalPTT, pushToTalk, key>>
sync == <<pttKey, pttWatcher, starting, keyOf>>
talk == <<IsPTTActive, unreported>>
watchers == <<portals, alive, closed, down, talk>>
vars == <<settings, sync, watchers, held, acts>>

Init ==
    /\ GlobalPTT = FALSE /\ pushToTalk = FALSE /\ key \in Keys
    /\ pttKey = None /\ pttWatcher = None /\ starting = {} /\ keyOf = <<>>
    /\ portals = {} /\ alive = {} /\ closed = {} /\ down = {}
    /\ IsPTTActive = FALSE /\ unreported = FALSE
    /\ held = {} /\ acts = 0

Watchers == DOMAIN keyOf

TypeOK ==
    /\ GlobalPTT \in BOOLEAN /\ pushToTalk \in BOOLEAN /\ key \in Keys
    /\ pttKey \in Keys \cup {None} /\ pttWatcher \in Watchers \cup {None}
    /\ keyOf \in Seq(Keys) /\ Len(keyOf) <= MaxWatchers
    /\ starting \subseteq Watchers /\ alive \subseteq Watchers
    /\ closed \subseteq Watchers /\ portals \subseteq Watchers /\ down \subseteq alive
    /\ IsPTTActive \in BOOLEAN /\ unreported \in BOOLEAN /\ held \subseteq Keys
    /\ acts \in 0 .. MaxActs

Acts == acts < MaxActs /\ acts' = acts + 1

\* SetPTT, called by a watcher.
Report(pressed) == IsPTTActive' = pressed /\ unreported' = FALSE

-----------------------------------------------------------------------------
(* The event loop                                                          *)

\* syncGlobalPTT, after the settings have changed.  Bound: MaxWatchers.
syncGlobalPTT ==
    LET want  == GlobalPTT' /\ pushToTalk'
        stale == pttWatcher # None /\ (~want \/ key' # pttKey)
    IN  /\ closed' = IF stale THEN closed \cup {pttWatcher} ELSE closed
        /\ IF want /\ (pttWatcher = None \/ stale)
           THEN /\ Len(keyOf) < MaxWatchers
                /\ pttKey' = key'
                /\ keyOf' = Append(keyOf, key')
                /\ starting' = starting \cup {Len(keyOf')}
           ELSE UNCHANGED <<pttKey, keyOf, starting>>
        /\ pttWatcher' = IF stale THEN None ELSE pttWatcher

\* toggleGlobalPTT: switching it on means push-to-talk.
toggleGlobalPTT ==
    /\ Acts
    /\ GlobalPTT' = ~GlobalPTT
    /\ pushToTalk' = (pushToTalk \/ GlobalPTT')
    /\ UNCHANGED key
    /\ syncGlobalPTT
    /\ UNCHANGED <<portals, alive, down, talk, held>>

\* CycleInputMode.
CycleInputMode ==
    /\ Acts
    /\ pushToTalk' = ~pushToTalk
    /\ UNCHANGED <<GlobalPTT, key>>
    /\ syncGlobalPTT
    /\ UNCHANGED <<portals, alive, down, talk, held>>

\* SetPTTKey: the next key pressed in the dialog, in push-to-talk.
SetPTTKey ==
    /\ Acts
    /\ pushToTalk
    /\ key' \in Keys
    /\ UNCHANGED <<GlobalPTT, pushToTalk>>
    /\ syncGlobalPTT
    /\ UNCHANGED <<portals, alive, down, talk, held>>

-----------------------------------------------------------------------------
(* The goroutine of ptt.Start                                              *)

\* The watcher runs, on whichever of its ways the system offers
\* (startPlatform): it is closed again when the settings ask for another key
\* or none.
Started(w) ==
    /\ w \in starting
    /\ starting' = starting \ {w}
    /\ portals' \in {portals, portals \cup {w}}
    /\ alive' = alive \cup {w}
    /\ IF pttKey # keyOf[w] \/ ~GlobalPTT
       THEN closed' = closed \cup {w} /\ UNCHANGED pttWatcher
       ELSE pttWatcher' = w /\ UNCHANGED closed
    /\ UNCHANGED <<settings, pttKey, keyOf, down, talk, held, acts>>

\* The system offers no watcher.
StartFailed(w) ==
    /\ w \in starting
    /\ starting' = starting \ {w}
    /\ UNCHANGED <<settings, pttKey, pttWatcher, keyOf, watchers, held, acts>>

-----------------------------------------------------------------------------
(* The watchers                                                            *)

\* One sample of a poller, or a signal of the portal, that shows a change.
Sample(w) ==
    /\ w \in alive
    /\ (keyOf[w] \in held) # (w \in down)
    /\ Report(keyOf[w] \in held)
    /\ down' = IF keyOf[w] \in held THEN down \cup {w} ELSE down \ {w}
    /\ UNCHANGED <<settings, sync, portals, alive, closed, held, acts>>

\* Faulty variant: a poller that is closed says nothing.
End_Silent(w) ==
    /\ w \in alive \cap closed
    /\ alive' = alive \ {w} /\ down' = down \ {w}
    /\ UNCHANGED <<settings, sync, portals, closed, talk, held, acts>>

\* A closed watcher ends.  The portal's reports nothing: the key it saw pressed stays so for
\* the engine (IsPTTActive), until a later watcher reports.
End(w) ==
    /\ w \in alive \cap closed
    /\ alive' = alive \ {w} /\ down' = down \ {w}
    /\ IF w \in down \ portals
       THEN Report(FALSE)
       ELSE UNCHANGED IsPTTActive /\ unreported' = (unreported \/ w \in down)
    /\ UNCHANGED <<settings, sync, portals, closed, held, acts>>

\* The user presses or releases a key; releasing is not bounded.
PressOrRelease ==
    /\ \/ \E k \in Keys \ held : Acts /\ held' = held \cup {k}
       \/ \E k \in held : held' = held \ {k} /\ UNCHANGED acts
    /\ UNCHANGED <<settings, sync, watchers>>

Next ==
    \/ toggleGlobalPTT \/ CycleInputMode \/ SetPTTKey
    \/ \E w \in Watchers : Started(w) \/ StartFailed(w) \/ Sample(w) \/ End(w)
    \/ PressOrRelease

Spec == Init /\ [][Next]_vars

Work == \E w \in Watchers : Started(w) \/ StartFailed(w) \/ Sample(w) \/ End(w)

\* Goroutines run; starting one takes its time.
Fairness == WF_vars(Work)

-----------------------------------------------------------------------------
(* Properties                                                              *)

\* A user who holds no key does not go on talking, also when a poller was closed while its key
\* was held, on whatever other settings followed.  The exception is what the code does not do:
\* a watcher of the portal that is closed while its key is held (ptt_linux.go, portalWatcher)
\* leaves the engine talking until a later watcher reports.
ReleaseEndsTalk == <>[](held = {} => ~IsPTTActive \/ unreported)

=============================================================================
