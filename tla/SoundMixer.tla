----------------------------- MODULE SoundMixer -----------------------------
(* The mixer of shared sound: several playback streams, recorded one by one,
   become one stream of frames.  One of them sets the pace; the others add what
   they have.  Time and sound are counted in frames.                         *)
EXTENDS Integers, FiniteSetsExt

CONSTANTS
  Streams,      \* playback streams, numbered from 1
  Backlog,      \* maxMixBacklog
  Quiet,        \* how long the clock may be silent
  Late,         \* how far the sound of a stream may be behind the time
  MaxTime,      \* frames of time
  MaxStops      \* how often streams pause or end

\* A stream that plays gives something (every 20 ms) before it counts as quiet (60 ms).
SoundMixerAssumption ==
  /\ Streams \subseteq Nat \ {0}
  /\ Backlog \in Nat \ {0} /\ Quiet \in Nat /\ Late \in Nat /\ MaxTime \in Nat /\ MaxStops \in Nat
  /\ Late <= Quiet

VARIABLES
  srcs,      \* the streams the mixer has
  buf,       \* Streams -> frames queued of it
  last,      \* Streams -> when it last gave something
  clock,     \* the stream that sets the pace, 0 for none
  playing,   \* history: streams that play now
  due,       \* history: Streams -> frames it has played and not given
  now,       \* the time
  emitted,   \* history: frames that went out
  heard,     \* history: when a frame last went out, or nothing was there to be heard
  stops      \* history: how often a stream paused or ended

vars == <<srcs, buf, last, clock, playing, due, now, emitted, heard, stops>>

Init ==
  /\ srcs = {} /\ buf = [s \in Streams |-> 0] /\ last = [s \in Streams |-> 0]
  /\ clock = 0
  /\ playing = {} /\ due = [s \in Streams |-> 0]
  /\ now = 0 /\ emitted = 0 /\ heard = 0 /\ stops = 0

\* A frame of time passes: what plays has one more to give, and gives it before long.
Tick ==
  /\ now < MaxTime /\ \A s \in playing : due[s] < Late
  /\ now' = now + 1
  /\ due' = [s \in Streams |-> IF s \in playing THEN due[s] + 1 ELSE due[s]]
  /\ heard' = IF playing = {} THEN now + 1 ELSE heard
  /\ UNCHANGED <<srcs, buf, last, clock, playing, emitted, stops>>

Stop == stops < MaxStops /\ stops' = stops + 1

\* A program pauses its sound and goes on: the stream stays.
Play(s) ==
  /\ s \in srcs /\ s \notin playing /\ playing' = playing \cup {s}
  /\ UNCHANGED <<srcs, buf, last, clock, due, now, emitted, heard, stops>>

Pause(s) ==
  /\ s \in playing /\ playing' = playing \ {s} /\ Stop
  /\ UNCHANGED <<srcs, buf, last, clock, due, now, emitted, heard>>

Add(s) ==
  /\ s \notin srcs /\ srcs' = srcs \cup {s}
  /\ buf' = [buf EXCEPT ![s] = 0] /\ due' = [due EXCEPT ![s] = 0]
  /\ last' = [last EXCEPT ![s] = 0]
  /\ UNCHANGED <<clock, playing, now, emitted, heard, stops>>

Remove(s) ==
  /\ s \in srcs /\ srcs' = srcs \ {s} /\ playing' = playing \ {s}
  /\ clock' = IF clock = s THEN 0 ELSE clock
  /\ Stop
  /\ UNCHANGED <<buf, last, due, now, emitted, heard>>

\* The stream that sets the pace when s has given something
Clock_ForGood(s) == IF clock \in srcs THEN clock ELSE s
Clock_Whoever(s) == s
Clock(s) == IF clock \in srcs /\ now - last[clock] <= Quiet THEN clock ELSE s

\* push: every frame the clock completes goes out, with a frame of each stream that has one
Push(s) ==
  \E n \in 1 .. due[s] :
    LET queued == [buf EXCEPT ![s] = Min({@ + n, Backlog})]
        out == IF clock' = s THEN queued[s] ELSE 0
    IN
    /\ s \in srcs
    /\ due' = [due EXCEPT ![s] = @ - n]
    /\ last' = [last EXCEPT ![s] = now]
    /\ clock' = Clock(s)
    /\ buf' = [t \in Streams |-> IF t \in srcs THEN Max({queued[t] - out, 0}) ELSE buf[t]]
    /\ emitted' = emitted + out
    /\ heard' = IF out > 0 THEN now ELSE heard
    /\ UNCHANGED <<srcs, playing, now, stops>>

Next ==
  \/ Tick
  \/ \E s \in Streams : Play(s) \/ Pause(s) \/ Add(s) \/ Remove(s) \/ Push(s)

Spec == Init /\ [][Next]_vars

-----------------------------------------------------------------------------
\* Types.
TypeOK ==
  /\ srcs \subseteq Streams /\ playing \subseteq srcs /\ clock \in srcs \cup {0}
  /\ buf \in [Streams -> 0 .. Backlog] /\ due \in [Streams -> 0 .. Late]
  /\ last \in [Streams -> 0 .. MaxTime] /\ now \in 0 .. MaxTime
  /\ stops \in 0 .. MaxStops
  /\ emitted \in Nat /\ heard \in 0 .. MaxTime

\* "so the output never runs faster than real time however many streams there are", but for
\* what may have been late when the pace changed hands, twice for a stream that stopped: what
\* it gives late may give it the pace once more.  And the output does not stop, while a stream
\* plays, for longer than a clock may be quiet and as many streams may be late as followed one
\* another without giving anything.
OutputKeepsPace ==
  /\ emitted <= now + Late * (1 + 2 * stops)
  /\ now - heard <= Quiet + Late * (1 + stops)
=============================================================================
