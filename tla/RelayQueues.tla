---------------------------- MODULE RelayQueues ----------------------------
(* The way of packets through the relay (internal/p2p/relay.go, internal/    *)
(* relay/client.go, udp.go, server.go): a node queues frames by class for    *)
(* its connection, the relay queues them again, with its signals, for the    *)
(* connection of the receiver; frames that may be lost go by UDP where that  *)
(* works.  Queues are modelled by their lengths, except that one signal is   *)
(* followed on its way.                                                      *)
EXTENDS Naturals, Sequences, SequencesExt

CONSTANTS
  Caps,      \* room in the queue of each class of frame
  CtrlCap    \* room in the queue of signals

VARIABLES
  up, upStep,                 \* queues of the sender and where its relayWritePump is
  waiting,                    \* a sender waits for room for a reliable frame
  down, ctrl, downStep,       \* queues of the receiver at the relay and where its writePump is
  closed,                     \* the receiver's connection
  active, bound,              \* UDP: the sender's path answers; the receiver's address is known
  followed                    \* "none", "queued", "out": the signal that is followed

vars == <<up, upStep, waiting, down, ctrl, downStep, closed, active, bound, followed>>
Classes == {"realtime", "reliable", "bulk"}

Init ==
  /\ up = [c \in Classes |-> 0] /\ upStep = "look" /\ waiting = FALSE
  /\ down = [c \in Classes |-> 0] /\ ctrl = <<>> /\ downStep = "look" /\ closed = FALSE
  /\ active = FALSE /\ bound = FALSE /\ followed = "none"

\* A full queue of video frames gives up the older half; other frames find no room.
Queued(q, class) ==
  IF q[class] < Caps[class] THEN [q EXCEPT ![class] = @ + 1]
  ELSE IF class = "bulk" THEN [q EXCEPT !.bulk = Caps.bulk - Caps.bulk \div 2 + 1]
  ELSE q
Taken(q, class) == [q EXCEPT ![class] = @ - 1]

\* deliver, enqueueFrame at the relay; a frame that went by UDP leaves no trace.
Deliver(class) ==
  IF closed \/ (bound /\ class # "reliable") THEN UNCHANGED down ELSE down' = Queued(down, class)

-----------------------------------------------------------------------------
(* The sender *)

\* sendRelayFrame, sendRelayTo: by UDP (ServeUDP passes it on, unless it is lost) ...
SendByUDP(class) ==
  /\ active /\ class # "reliable"
  /\ Deliver(class) \/ UNCHANGED down
  /\ UNCHANGED <<up, upStep, waiting, ctrl, downStep, closed, active, bound, followed>>

\* ... or queueRelayFrame.
QueueFrame(class) ==
  /\ ~active \/ class = "reliable"
  /\ IF class = "reliable" /\ up.reliable = Caps.reliable
     THEN ~waiting /\ waiting' = TRUE /\ UNCHANGED up
     ELSE up' = Queued(up, class) /\ UNCHANGED waiting
  /\ UNCHANGED <<upStep, down, ctrl, downStep, closed, active, bound, followed>>

\* There is room, or 2 s are over and the frame is lost.
WaitEnds ==
  /\ waiting /\ waiting' = FALSE
  /\ IF up.reliable < Caps.reliable THEN up' = Queued(up, "reliable") ELSE UNCHANGED up
  /\ UNCHANGED <<upStep, down, ctrl, downStep, closed, active, bound, followed>>

\* relayWritePump: a realtime frame before anything else, then whatever there is.
UpLook ==
  /\ upStep = "look"
  /\ IF up.realtime > 0
     THEN up' = Taken(up, "realtime") /\ Deliver("realtime") /\ UNCHANGED upStep
     ELSE upStep' = "wait" /\ UNCHANGED <<up, down>>
  /\ UNCHANGED <<waiting, ctrl, downStep, closed, active, bound, followed>>

UpTake(class) ==
  /\ upStep = "wait" /\ up[class] > 0
  /\ up' = Taken(up, class) /\ upStep' = "look"
  /\ Deliver(class)
  /\ UNCHANGED <<waiting, ctrl, downStep, closed, active, bound, followed>>

-----------------------------------------------------------------------------
(* The relay and the connection of the receiver *)

\* Faulty: a signal that finds no room is left out
SendSignal_Drop(signal) ==
  /\ ~closed /\ (signal = "followed" => followed = "none")
  /\ ctrl' = IF Len(ctrl) < CtrlCap THEN Append(ctrl, signal) ELSE ctrl
  /\ followed' = IF signal = "followed" THEN "queued" ELSE followed
  /\ UNCHANGED <<up, upStep, waiting, down, downStep, closed, active, bound>>

\* sendSignal: a receiver that does not keep up is disconnected.
SendSignal(signal) ==
  /\ ~closed /\ (signal = "followed" => followed = "none")
  /\ IF Len(ctrl) < CtrlCap
     THEN ctrl' = Append(ctrl, signal) /\ UNCHANGED closed
     ELSE closed' = TRUE /\ UNCHANGED ctrl
  /\ followed' = IF signal = "followed" THEN "queued" ELSE followed
  /\ UNCHANGED <<up, upStep, waiting, down, downStep, active, bound>>

WriteSignal ==
  /\ ctrl' = Tail(ctrl)
  /\ followed' = IF Head(ctrl) = "followed" THEN "out" ELSE followed

\* Faulty: frames first
DownLook_FramesFirst ==
  /\ downStep = "look"
  /\ IF down.realtime > 0 THEN down' = Taken(down, "realtime") /\ UNCHANGED <<ctrl, followed, downStep>>
     ELSE IF ctrl # <<>> THEN WriteSignal /\ UNCHANGED <<down, downStep>>
     ELSE downStep' = "wait" /\ UNCHANGED <<down, ctrl, followed>>
  /\ UNCHANGED <<up, upStep, waiting, closed, active, bound>>

\* writePump: signals, then realtime frames, then whatever there is.  It notices the end of
\* the connection when nothing more urgent is left, or when a write fails.
DownLook ==
  /\ downStep = "look"
  /\ IF ctrl # <<>> THEN WriteSignal /\ UNCHANGED <<down, downStep>>
     ELSE IF down.realtime > 0 THEN down' = Taken(down, "realtime") /\ UNCHANGED <<ctrl, followed, downStep>>
     ELSE downStep' = "wait" /\ UNCHANGED <<down, ctrl, followed>>
  /\ UNCHANGED <<up, upStep, waiting, closed, active, bound>>

DownTake ==
  /\ downStep = "wait"
  /\ \/ ctrl # <<>> /\ WriteSignal /\ downStep' = "look" /\ UNCHANGED down
     \/ \E class \in Classes :
          /\ down[class] > 0 /\ down' = Taken(down, class) /\ downStep' = "look"
          /\ UNCHANGED <<ctrl, followed>>
     \/ closed /\ downStep' = "gone" /\ UNCHANGED <<down, ctrl, followed>>
  /\ UNCHANGED <<up, upStep, waiting, closed, active, bound>>

\* A write that fails or takes longer than 5 s.
WriteFails ==
  /\ downStep \in {"look", "wait"} /\ (ctrl # <<>> \/ (\E class \in Classes : down[class] > 0))
  /\ closed' = TRUE /\ downStep' = "gone"
  /\ UNCHANGED <<up, upStep, waiting, down, ctrl, active, bound, followed>>

-----------------------------------------------------------------------------
(* UDP: keepalives and what they let each end believe *)

\* handleDatagram: the relay answered a keepalive; isActive: it has not for 20 s.
Acknowledged == active' = ~active /\ UNCHANGED <<up, upStep, waiting, down, ctrl, downStep, closed, bound, followed>>

\* ServeUDP hears from the receiver; udpPeer: it has not for 30 s.
Bind == bound' = ~bound /\ UNCHANGED <<up, upStep, waiting, down, ctrl, downStep, closed, active, followed>>

Next ==
  \/ \E class \in Classes : SendByUDP(class) \/ QueueFrame(class) \/ UpTake(class)
  \/ UpLook \/ WaitEnds
  \/ \E signal \in {"followed", "other"} : SendSignal(signal)
  \/ DownLook \/ DownTake \/ WriteFails
  \/ Acknowledged \/ Bind

\* The pump of the receiver runs: every write ends within its deadline.
Fairness == WF_vars(DownLook \/ DownTake)
Spec == Init /\ [][Next]_vars

-----------------------------------------------------------------------------
(* Properties *)

\* No queue is longer than its channel; a signal that is under way is in the queue.
TypeOK ==
  /\ \A c \in Classes : up[c] \in 0..Caps[c] /\ down[c] \in 0..Caps[c]
  /\ ctrl \in Seq({"followed", "other"}) /\ Len(ctrl) <= CtrlCap
  /\ upStep \in {"look", "wait"} /\ downStep \in {"look", "wait", "gone"}
  /\ {waiting, closed, active, bound} \subseteq BOOLEAN
  /\ followed \in {"none", "queued", "out"}
  /\ followed = "queued" => Contains(ctrl, "followed") \/ closed

\* However much sound and video there is to send, a signal goes out unless the connection is
\* given up ("dropped rather than stalling the room", sendSignal).
SignalGoesOut == followed = "queued" ~> followed = "out" \/ closed
=============================================================================
