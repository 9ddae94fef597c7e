--------------------------- MODULE CaptureSession ---------------------------
(* A broadcast session and its encoder processes (screenshare/session.go,    *)
(* broadcast.go): the encoder may end by itself, be replaced by Restart when *)
(* the bitrate changes, and be stopped, at any point of a restart.  Encoders *)
(* are numbered in the order they are started.                               *)
EXTENDS Naturals

CONSTANT MaxGens   \* bound: encoders started

CaptureSessionAssumption == MaxGens \in Nat \ {0}

VARIABLES
  stopped, restarting, finished,  \* the flags of the session; finished: Done is closed
  cancelled,                      \* the session's context
  gen, started,                   \* current encoder; encoders started so far
  alive, killed,                  \* encoders running; told to end
  waits,                          \* what the goroutine that waits for each does
  step                            \* where Restart is

vars == <<stopped, restarting, finished, cancelled, gen, started, alive, killed, waits, step>>
Gens == 1..MaxGens

\* StartBroadcasting
Init ==
  /\ stopped = FALSE /\ restarting = FALSE /\ finished = FALSE /\ cancelled = FALSE
  /\ gen = 1 /\ started = 1 /\ alive = {1} /\ killed = {}
  /\ waits = [g \in Gens |-> IF g = 1 THEN "waits" ELSE "none"]
  /\ step = "idle"

Finish == finished' = TRUE /\ stopped' = TRUE

\* The process ends, by itself or because it was told to.
Exit ==
  \E g \in alive :
    /\ alive' = alive \ {g}
    /\ UNCHANGED <<stopped, restarting, finished, cancelled, gen, started, killed, waits, step>>

\* wait: the end of the process is announced to Restart, then looked into.
Reaped ==
  \E g \in Gens \ alive :
    /\ waits[g] = "waits"
    /\ waits' = [waits EXCEPT ![g] = "exited"]
    /\ UNCHANGED <<stopped, restarting, finished, cancelled, gen, started, alive, killed, step>>

LookInto ==
  \E g \in Gens :
    /\ waits[g] = "exited"
    /\ waits' = [waits EXCEPT ![g] = "done"]
    /\ IF gen # g \/ restarting THEN UNCHANGED <<stopped, finished>> ELSE Finish
    /\ UNCHANGED <<restarting, cancelled, gen, started, alive, killed, step>>

\* Faulty: the old encoder is left to end by itself
Restart_NoKill ==
  /\ step = "idle" /\ ~stopped /\ started < MaxGens
  /\ restarting' = TRUE /\ step' = "wait"
  /\ UNCHANGED <<stopped, finished, cancelled, gen, started, alive, killed, waits>>

\* Restart, up to the killing of the old encoder
Restart ==
  /\ step = "idle" /\ ~stopped /\ started < MaxGens
  /\ restarting' = TRUE /\ step' = "wait"
  /\ killed' = killed \union {gen}
  /\ UNCHANGED <<stopped, finished, cancelled, gen, started, alive, waits>>

\* The old encoder has ended, or has not within 3 s.
OldIsGone ==
  /\ step = "wait"
  /\ IF stopped
     THEN restarting' = FALSE /\ step' = "idle" /\ Finish
     ELSE step' = "launch" /\ UNCHANGED <<restarting, stopped, finished>>
  /\ UNCHANGED <<cancelled, gen, started, alive, killed, waits>>

\* launchBroadcast: nothing starts under a cancelled context.
Launch ==
  /\ step = "launch" /\ ~cancelled
  /\ started' = started + 1 /\ alive' = alive \union {started + 1}
  /\ step' = "attach"
  /\ UNCHANGED <<stopped, restarting, finished, cancelled, gen, killed, waits>>

LaunchFails ==
  /\ step = "launch"
  /\ restarting' = FALSE /\ step' = "idle"
  /\ Finish
  /\ UNCHANGED <<cancelled, gen, started, alive, killed, waits>>

Attach ==
  /\ step = "attach"
  /\ gen' = started /\ waits' = [waits EXCEPT ![started] = "waits"]
  /\ step' = "restarted"
  /\ UNCHANGED <<stopped, restarting, finished, cancelled, started, alive, killed>>

Restarted ==
  /\ step = "restarted"
  /\ restarting' = FALSE /\ step' = "idle"
  /\ UNCHANGED <<stopped, finished, cancelled, gen, started, alive, killed, waits>>

\* Faulty: a stop waits for the restart to be noticed
Stop_NoCancel ==
  /\ ~stopped
  /\ stopped' = TRUE
  /\ killed' = killed \union {gen}
  /\ UNCHANGED <<restarting, finished, cancelled, gen, started, alive, waits, step>>

\* Cancelling the context ends every encoder started under it.
Stop ==
  /\ ~stopped
  /\ stopped' = TRUE /\ cancelled' = TRUE
  /\ killed' = killed \union {gen}
  /\ UNCHANGED <<restarting, finished, gen, started, alive, waits, step>>

\* The shared window or program is gone: its watcher cancels the context.
TargetGone ==
  /\ ~cancelled
  /\ cancelled' = TRUE
  /\ UNCHANGED <<stopped, restarting, finished, gen, started, alive, killed, waits, step>>

Next ==
  \/ Exit \/ Reaped \/ LookInto \/ Restart \/ OldIsGone \/ Launch \/ LaunchFails \/ Attach \/ Restarted
  \/ Stop \/ TargetGone

\* A process that is told to end does (its group is killed), and goroutines run on.
ExitWhenTold ==
  \E g \in alive :
    /\ g \in killed \/ cancelled
    /\ alive' = alive \ {g}
    /\ UNCHANGED <<stopped, restarting, finished, cancelled, gen, started, killed, waits, step>>
Work == ExitWhenTold \/ Reaped \/ LookInto \/ OldIsGone \/ Launch \/ LaunchFails \/ Attach \/ Restarted
Fairness == WF_vars(Work)
Spec == Init /\ [][Next]_vars

-----------------------------------------------------------------------------
(* Properties *)

\* Flags, numbers and goroutines are what the code can hold.
TypeOK ==
  /\ stopped \in BOOLEAN /\ restarting \in BOOLEAN /\ finished \in BOOLEAN /\ cancelled \in BOOLEAN
  /\ gen \in Gens /\ started \in gen..MaxGens /\ alive \subseteq 1..started /\ killed \subseteq Gens
  /\ waits \in [Gens -> {"none", "waits", "exited", "done"}]
  /\ step \in {"idle", "wait", "launch", "attach", "restarted"}

\* Two encoders never feed one share: besides the current one, or the one a restart is about
\* to make current, whatever runs has been told to end (Restart).
OneEncoder ==
  \A g \in alive \ killed : g = gen \/ (g = started /\ step = "attach")

\* A stopped session captures nothing for long, also when it is stopped in the middle of a
\* restart (Stop, launchBroadcast): all its encoders end.
StopEndsCapture == stopped ~> (stopped /\ alive = {})

=============================================================================
