----------------------------- MODULE AppStreams -----------------------------
(* Sharing what one application plays, or every program but this one: the sound
   server is asked now and then for its playback streams, in three requests, and
   every stream that is wanted is recorded on its own and mixed.             *)
EXTENDS Naturals

CONSTANTS
  Own,        \* streams of this program, whose process only their client names
  Wanted,     \* streams of the chosen application
  Others,     \* streams of other programs
  OnClient,   \* streams whose program only their client names
  MaxChanges, \* changes at the sound server
  MaxFaults   \* requests that fail

Streams == Own \cup Wanted \cup Others
Sinks == {"speakers", "headset"}

AppStreamsAssumption ==
  Own \subseteq OnClient /\ OnClient \subseteq Streams /\ MaxChanges \in Nat /\ MaxFaults \in Nat

VARIABLES
  all,       \* every program but this one is shared
  server,    \* Streams -> "absent", "corked" or "playing"
  sink,      \* Streams -> the output it plays on
  sinks,     \* outputs there are
  recs,      \* streams recorded
  broken,    \* those of them the server has ended
  mixed,     \* streams the mixer has
  at,        \* the step of the scan: "idle", "listed", "sinks", "attach", "closed"
  inputs,    \* the scan's list of streams, with their state and output
  monitors,  \* the outputs it has the monitor of
  clients,   \* it has the properties of the clients
  todo,      \* streams to look at still
  stop,      \* Close waits for the loop
  changes, faults

vars == <<all, server, sink, sinks, recs, broken, mixed, at, inputs, monitors, clients, todo,
          stop, changes, faults>>
World == <<server, sink, sinks>>
Lists == <<inputs, monitors, clients>>

Init ==
  /\ all \in BOOLEAN
  /\ server = [s \in Streams |-> "absent"] /\ sink = [s \in Streams |-> "speakers"]
  /\ sinks = Sinks
  /\ recs = {} /\ broken = {} /\ mixed = {}
  /\ at = "idle" /\ inputs = [s \in {} |-> {}] /\ monitors = {} /\ clients = FALSE
  /\ todo = {} /\ stop = FALSE /\ changes = 0 /\ faults = 0

Change == changes < MaxChanges /\ changes' = changes + 1
Fault == faults < MaxFaults /\ faults' = faults + 1
Idle == <<recs, mixed, at, Lists, todo, stop, all, faults>>

\* Programs open, pause and close streams; the user moves one to another output.
StreamChanges ==
  \E s \in Streams, v \in {"absent", "corked", "playing"} :
    /\ Change /\ v # server[s]
    /\ server' = [server EXCEPT ![s] = v]
    /\ broken' = IF v = "absent" THEN broken \cup (recs \cap {s}) ELSE broken
    /\ UNCHANGED <<Idle, sink, sinks>>

StreamMoves ==
  \E s \in Streams, k \in sinks :
    /\ Change /\ server[s] # "absent" /\ sink[s] # k
    /\ sink' = [sink EXCEPT ![s] = k]
    /\ broken' \in {broken, broken \cup (recs \cap {s})}
    /\ UNCHANGED <<Idle, server, sinks>>

\* Limoni Voice's own streams, as far as the lists tell
IsSelf(s) == s \in Own /\ (clients \/ s \notin OnClient)
Matches(s) == s \in Wanted /\ (clients \/ s \notin OnClient)
Chosen(s) == ~IsSelf(s) /\ (all \/ Matches(s))

\* scan: the three requests.  Without the first two there is no scan; without the list of
\* clients it goes on with what the streams tell.
ListInputs ==
  /\ at = "idle" /\ ~stop
  /\ inputs' = [s \in {t \in Streams : server[t] # "absent"} |-> <<server[s], sink[s]>>]
  /\ at' = "listed"
  /\ UNCHANGED <<World, recs, broken, mixed, monitors, clients, todo, stop, all, changes, faults>>

ListSinks ==
  /\ at = "listed" /\ monitors' = sinks /\ at' = "sinks"
  /\ UNCHANGED <<World, recs, broken, mixed, inputs, clients, todo, stop, all, changes, faults>>

ListClients ==
  /\ at = "sinks" /\ at' = "attach" /\ todo' = DOMAIN inputs
  /\ (clients' = TRUE /\ UNCHANGED faults) \/ (clients' = FALSE /\ Fault)
  /\ UNCHANGED <<World, recs, broken, mixed, inputs, monitors, stop, all, changes>>

ScanFails ==
  /\ at \in {"listed", "sinks"} /\ Fault /\ at' = "idle"
  /\ UNCHANGED <<World, recs, broken, mixed, Lists, todo, stop, all, changes>>

\* record: a paused stream waits for the next scan; what the server refuses leaves the mixer
Record(s) ==
  \/ /\ server[s] # "absent"
     /\ recs' = recs \cup {s} /\ mixed' = mixed \cup {s} /\ UNCHANGED faults
  \/ /\ Fault \/ (server[s] = "absent" /\ UNCHANGED faults)
     /\ UNCHANGED <<recs, mixed>>

Attach ==
  \E s \in todo :
    /\ at = "attach" /\ todo' = todo \ {s}
    /\ IF Chosen(s) /\ s \notin recs /\ inputs[s][1] = "playing" /\ inputs[s][2] \in monitors
       THEN Record(s)
       ELSE UNCHANGED <<recs, mixed, faults>>
    /\ UNCHANGED <<World, broken, at, Lists, stop, all, changes>>

\* and what is not wanted any more, or has ended, is dropped.
Dropped_Gone == {s \in recs : ~(s \in DOMAIN inputs /\ Chosen(s))}
Dropped == {s \in recs : ~(s \in DOMAIN inputs /\ Chosen(s))} \cup broken

Drop ==
  /\ at = "attach" /\ todo = {} /\ at' = "idle"
  /\ recs' = recs \ Dropped /\ mixed' = mixed \ Dropped /\ broken' = broken \ Dropped
  /\ UNCHANGED <<World, Lists, todo, stop, all, changes, faults>>

\* Close ends the loop, then every recording.
Close ==
  /\ ~stop /\ stop' = TRUE
  /\ UNCHANGED <<World, recs, broken, mixed, at, Lists, todo, all, changes, faults>>

Closed ==
  /\ stop /\ at = "idle" /\ at' = "closed"
  /\ recs' = {} /\ broken' = {}
  /\ UNCHANGED <<World, mixed, Lists, todo, stop, all, changes, faults>>

Scan == ListInputs \/ ListSinks \/ ListClients \/ ScanFails \/ Attach \/ Drop \/ Closed
Next == StreamChanges \/ StreamMoves \/ Scan \/ Close

\* The scan is taken every half second, and a scan that began goes on.
Spec == Init /\ [][Next]_vars /\ WF_vars(Scan)

-----------------------------------------------------------------------------
\* Types.
TypeOK ==
  /\ all \in BOOLEAN /\ stop \in BOOLEAN /\ clients \in BOOLEAN
  /\ server \in [Streams -> {"absent", "corked", "playing"}]
  /\ sink \in [Streams -> Sinks] /\ sinks \subseteq Sinks /\ monitors \subseteq Sinks
  /\ broken \subseteq recs /\ recs \subseteq Streams /\ mixed \subseteq Streams
  /\ DOMAIN inputs \subseteq Streams /\ todo \subseteq DOMAIN inputs
  /\ at \in {"idle", "listed", "sinks", "attach", "closed"}
  /\ changes \in 0 .. MaxChanges /\ faults \in 0 .. MaxFaults

\* A wanted stream that goes on playing is recorded in the end, although it was paused, moved
\* or broken off before, and what this program plays is not: an own stream taken for another
\* program's, as the clients could not be listed, is dropped.
SharesWhatItShould ==
  \A s \in Streams :
    /\ s \in (IF all THEN Wanted \cup Others ELSE Wanted) =>
         (<>[](server[s] = "playing" /\ ~stop) => []<>(s \in recs \ broken))
    /\ s \in Own => []<>(s \notin recs)
=============================================================================
