---------------------------- MODULE FileTransfer ----------------------------
(* Files sent to a room (p2p/files.go) and what the receiver makes of them   *)
(* (app_modals.go, media.go).  Each packet goes over the relay, which keeps  *)
(* the order but may lose it where a queue on the way is full, and, when     *)
(* there is a direct path, over that as well, where it may be late or lost.  *)
EXTENDS Naturals, Sequences, SequencesExt, FiniteSets

CONSTANTS
  Files,       \* the files sent in the room
  Media,       \* pictures and sounds among them: shown in the chat
  Large,       \* bound: the files of two chunks; the others have one
  Slots,       \* MaxConcurrentTransfers
  MaxKept,     \* maxKeptMedia
  MaxOffers    \* bound: offers followed

VARIABLES
  next,                 \* what SendFileBytes sends next of each file: 0 is the header
  relay, direct,        \* packets under way on each path
  incoming,             \* the receiver's transfers: chunks received and bytes counted
  verifying,            \* complete files being put together, in the background
  refused,              \* files the log reports as refused
  current, pending,     \* the offer on the screen and those behind it
  order, media,         \* media kept to be opened: the order they came in; their IDs
  offered,              \* how often a file was offered or shown
  lost, expired         \* history: files of which the relay's path lost a packet; files whose
                        \* transfer was dropped for its age

paths == <<relay, direct>>
screen == <<current, pending, order, media, offered>>
vars == <<next, paths, incoming, verifying, refused, screen, lost, expired>>
None == "none"
Chunks(f) == IF f \in Large THEN 2 ELSE 1
Unsent(f) == Chunks(f) + 2
Absent == [got |-> {}, bytes |-> 0, here |-> FALSE]
Busy == Cardinality({f \in Files : incoming[f].here})

Init ==
  /\ next = [f \in Files |-> Unsent(f)] /\ relay = <<>> /\ direct = {}
  /\ incoming = [f \in Files |-> Absent] /\ verifying = <<>> /\ refused = {}
  /\ current = None /\ pending = <<>> /\ order = <<>> /\ media = {}
  /\ offered = [f \in Files |-> 0] /\ lost = {} /\ expired = {}

-----------------------------------------------------------------------------
(* The sender *)

\* SendFileBytes up to the header, which sendRedundant puts on every path
SendFile ==
  \E f \in Files :
    /\ next[f] = Unsent(f) /\ next' = [next EXCEPT ![f] = 0]
    /\ UNCHANGED <<paths, incoming, verifying, refused, screen, lost, expired>>

\* sendRedundant.  The relay's path may lose any packet, and nobody is told: the sender's queue
\* is full for 2 s (queueRelayFrame), the relay's for the receiver is full (enqueueFrame), or a
\* connection breaks with the packet in its queue.
SendPacket ==
  \E f \in Files :
    /\ next[f] <= Chunks(f) /\ next' = [next EXCEPT ![f] = @ + 1]
    /\ \/ relay' = Append(relay, <<f, next[f]>>) /\ UNCHANGED lost
       \/ lost' = lost \union {f} /\ UNCHANGED relay
    /\ direct' \in {direct, direct \union {<<f, next[f]>>}}
    /\ UNCHANGED <<incoming, verifying, refused, screen, expired>>

-----------------------------------------------------------------------------
(* The receiver: handleFilePacketLocked *)

\* Transfers older than five minutes make room when a header comes, whatever of them is still
\* under way.
HandleHeader(f) ==
  IF incoming[f].here THEN UNCHANGED <<incoming, refused, expired>>
  ELSE \E old \in SUBSET {g \in Files : incoming[g].here} :
         LET left == [g \in Files |-> IF g \in old THEN Absent ELSE incoming[g]] IN
         /\ expired' = expired \union old
         /\ IF Busy - Cardinality(old) >= Slots
            THEN incoming' = left /\ refused' = refused \union {f}
            ELSE incoming' = [left EXCEPT ![f] = [Absent EXCEPT !.here = TRUE]] /\ UNCHANGED refused

\* Faulty: a chunk that came by both paths is counted twice
Stored_Twice(t, c) == [t EXCEPT !.got = @ \union {c}, !.bytes = @ + 1]

Stored(t, c) == IF c \in t.got THEN t ELSE [t EXCEPT !.got = @ \union {c}, !.bytes = @ + 1]

\* "more data than announced" is the end of a transfer, as is the last chunk
HandleChunk(f, c) ==
  IF ~incoming[f].here THEN UNCHANGED <<incoming, verifying>>
  ELSE LET t == Stored(incoming[f], c) IN
       /\ incoming' = [incoming EXCEPT ![f] = IF t.bytes > Chunks(f) \/ t.got = 1..Chunks(f) THEN Absent ELSE t]
       /\ verifying' = IF t.bytes <= Chunks(f) /\ t.got = 1..Chunks(f) THEN Append(verifying, f) ELSE verifying

Handle(p) ==
  /\ IF p[2] = 0 THEN HandleHeader(p[1]) /\ UNCHANGED verifying
     ELSE HandleChunk(p[1], p[2]) /\ UNCHANGED <<refused, expired>>
  /\ UNCHANGED <<next, screen, lost>>

ReceiveRelayed == relay # <<>> /\ relay' = Tail(relay) /\ UNCHANGED direct /\ Handle(Head(relay))

\* or never: the direct path may lose it as well
ReceiveDirect == \E p \in direct : direct' = direct \ {p} /\ UNCHANGED relay /\ Handle(p)

-----------------------------------------------------------------------------
(* The application *)

\* addMedia: the oldest go first, by the order they came in
KeepMedia(f) ==
  LET all == Append(order, f) IN
  IF Len(all) > MaxKept
  THEN order' = Tail(all) /\ media' = (media \union {f}) \ {Head(all)}
  ELSE order' = all /\ media' = media \union {f}

\* enqueueFileOffer, for what is no media
EnqueueOffer(f) ==
  IF current = None THEN current' = f /\ UNCHANGED pending
  ELSE pending' = Append(pending, f) /\ UNCHANGED current

\* The goroutine that put the file together announces it; two may do so in any order.
Offer ==
  \E i \in DOMAIN verifying :
    LET f == verifying[i] IN
    /\ offered[f] < MaxOffers
    /\ verifying' = RemoveAt(verifying, i) /\ offered' = [offered EXCEPT ![f] = @ + 1]
    /\ IF f \in Media THEN KeepMedia(f) /\ UNCHANGED <<current, pending>>
       ELSE EnqueueOffer(f) /\ UNCHANGED <<order, media>>
    /\ UNCHANGED <<next, paths, incoming, refused, lost, expired>>

\* acceptCurrentOffer, declineCurrentOffer and showNextFileOffer
Answer ==
  /\ current # None
  /\ IF pending = <<>> THEN current' = None /\ UNCHANGED pending
     ELSE current' = Head(pending) /\ pending' = Tail(pending)
  /\ UNCHANGED <<next, paths, incoming, verifying, refused, order, media, offered, lost, expired>>

Next == SendFile \/ SendPacket \/ ReceiveRelayed \/ ReceiveDirect \/ Offer \/ Answer

\* The sender's goroutine goes on; what the relay's path has not lost arrives; the receiver's
\* goroutines run.
Fairness == WF_vars(SendPacket) /\ WF_vars(ReceiveRelayed) /\ WF_vars(Offer)
Spec == Init /\ [][Next]_vars

-----------------------------------------------------------------------------
(* Properties *)

\* No more transfers than slots; a transfer under way is not complete.
TypeOK ==
  /\ next \in [Files -> Nat] /\ {refused, lost, expired} \subseteq SUBSET Files
  /\ \A f \in Files :
       /\ next[f] <= Unsent(f) /\ incoming[f].got \subseteq 1..Chunks(f)
       /\ incoming[f].here => incoming[f].got # 1..Chunks(f)
  /\ Busy <= Slots /\ ToSet(verifying) \subseteq Files /\ Len(order) <= MaxKept
  /\ media \subseteq ToSet(order) /\ ToSet(pending) \subseteq Files \ Media /\ current \in (Files \ Media) \union {None}

\* However the copies of the two paths mix, a file is offered in the end, or the receiver
\* logs that it had too many transfers under way (handleFilePacketLocked).  The code promises
\* nothing of a file of which the relay's path lost a packet, and of one whose transfer took
\* more than five minutes when another began; of neither is anybody told.
EveryFileIsOffered ==
  \A f \in Files : next[f] = 0 ~> offered[f] > 0 \/ f \in refused \union lost \union expired

\* "duplicate header over a redundant path" (files.go:142): a file that was sent once is
\* offered, or shown in the chat, once.
OfferedOnce == \A f \in Files : offered[f] <= 1
=============================================================================
