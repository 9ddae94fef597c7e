--------------------------- MODULE CaptureSource ----------------------------
(***************************************************************************)
(* The source the server connects a capture stream to                      *)
(* (internal/audioio/pulse.go): a microphone, or the monitor of a speaker, *)
(* which carries what the computer plays.  The server may move the stream  *)
(* at any time; watchSource looks every quarter of a second, in steps of   *)
(* their own, replaces the sound of a monitor by silence and moves the     *)
(* stream back.                                                            *)
(***************************************************************************)
EXTENDS Naturals

CONSTANT MaxMoves   \* how often the server moves the stream or a microphone comes or goes

CaptureSourceAssumption == MaxMoves \in Nat

VARIABLES
    source,         \* "mic" or "monitor"
    microphone,     \* one is there
    onMonitor,      \* what the writer of the frames goes by
    looking,        \* the source watchSource has read and not yet acted on
    seen,           \* a look that began since the last move has ended
    sent,           \* sources whose sound was sent, and whether they had been seen
    moves

vars == <<source, microphone, onMonitor, looking, seen, sent, moves>>

Init ==
    /\ source \in {"mic", "monitor"}
    /\ microphone \in BOOLEAN /\ (source = "mic" => microphone)
    /\ onMonitor = TRUE
    /\ looking = "no" /\ seen = FALSE
    /\ sent = {}
    /\ moves = 0

TypeOK ==
    /\ source \in {"mic", "monitor"} /\ microphone \in BOOLEAN
    /\ onMonitor \in BOOLEAN /\ seen \in BOOLEAN
    /\ looking \in {"no", "mic", "monitor", "stale", "move"}
    /\ sent \subseteq {"mic", "monitor"} \X BOOLEAN
    /\ moves \in 0 .. MaxMoves

\* A look that began before the source changed is out of date.
Outdated == seen' = FALSE /\ looking' = IF looking = "mic" THEN "stale" ELSE looking

\* The server: the session manager puts the stream on a monitor, or the
\* microphone goes away and the stream with it; while the stream is on a
\* monitor microphones come and go.
ServerMoves ==
    /\ moves < MaxMoves
    /\ moves' = moves + 1
    /\ \/ /\ source = "mic"
          /\ source' = "monitor"
          /\ microphone' \in BOOLEAN
          /\ Outdated
       \/ /\ source = "monitor"
          /\ microphone' = ~microphone
          /\ UNCHANGED <<source, seen, looking>>
    /\ UNCHANGED <<onMonitor, sent>>

\* A frame of the stream: silence while onMonitor.
Write ==
    /\ sent' = IF onMonitor THEN sent ELSE sent \cup {<<source, seen>>}
    /\ UNCHANGED <<source, microphone, onMonitor, looking, seen, moves>>

\* watchSource asks the server where the stream is.
Look ==
    /\ looking = "no"
    /\ looking' = source
    /\ UNCHANGED <<source, microphone, onMonitor, seen, sent, moves>>

\* Faulty variant: where a microphone is there the stream is moved and its
\* sound let through meanwhile.
Judge_Hopeful ==
    /\ looking \in {"mic", "stale", "monitor"}
    /\ onMonitor' = (looking = "monitor" /\ ~microphone)
    /\ seen' = (looking \in {"mic", "monitor"})
    /\ looking' = IF looking = "monitor" /\ microphone THEN "move" ELSE "no"
    /\ UNCHANGED <<source, microphone, sent, moves>>

\* And acts on the answer.
Judge ==
    /\ looking \in {"mic", "stale", "monitor"}
    /\ onMonitor' = (looking = "monitor")
    /\ seen' = (looking \in {"mic", "monitor"})
    /\ looking' = IF looking = "monitor" /\ microphone THEN "move" ELSE "no"
    /\ UNCHANGED <<source, microphone, sent, moves>>

\* MoveSourceOutput, which does nothing when the microphone is gone again.
MoveBack ==
    /\ looking = "move"
    /\ looking' = "no"
    /\ IF microphone THEN source' = "mic" /\ seen' = FALSE
                     ELSE UNCHANGED <<source, seen>>
    /\ UNCHANGED <<microphone, onMonitor, sent, moves>>

Watch == Look \/ Judge \/ MoveBack

Next == ServerMoves \/ Write \/ Watch

Spec == Init /\ [][Next]_vars


-----------------------------------------------------------------------------
(* Properties                                                              *)

\* Once a look has found the stream on a monitor none of the monitor's sound
\* is sent, also while the stream is being moved back and when it is moved
\* away again.
FoundMonitorIsSilent == <<"monitor", TRUE>> \notin sent

=============================================================================
