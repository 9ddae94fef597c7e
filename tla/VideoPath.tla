------------------------------ MODULE VideoPath ------------------------------
(* The way of the video of a shared screen to one viewer: the encoder's      *)
(* chunks are numbered, kept in a history and queued for the network         *)
(* (internal/p2p/screen.go, internal/video/sender.go), put in order again    *)
(* at the viewer, who asks for missing ones (internal/video/reorder.go), and *)
(* fed to the player.  A chunk is its number.  Time is counted in turns of   *)
(* the viewer's loop; the numbers do not wrap (2^32 chunks are 4 TB).        *)
EXTENDS Naturals, Sequences, FiniteSetsExt, SequencesExt

CONSTANTS MaxSeq,      \* chunks captured
          Slots,       \* screenHistorySize
          Cap,         \* playerQueue
          MaxGap,      \* a larger jump is treated as a new stream
          MaxWait,     \* turns of the loop a gap is held open
          Grace,       \* turns before a chunk is asked for, it may just be late
          Retry,       \* turns between two requests
          MaxNacks,    \* requests for one chunk
          MaxWatches,  \* bound: times the viewer is taken in as a new one
          MaxReopens   \* bound: times the player is stuck or exits by itself

VideoPathAssumption ==
  /\ {Slots, Cap} \subseteq Nat \ {0}
  /\ {MaxSeq, MaxGap, MaxWait, Retry, MaxNacks, MaxReopens} \subseteq Nat

VARIABLES
  seq, keys,           \* the sharer: last number given; which chunks are keyframes
  ring, lastKey,       \* its history
  watching, replay,    \* the viewer is registered; chunks its handler has yet to queue
  live, retx,          \* the pacer's queues
  net, nacks,          \* chunks and requests on their way
  rx,                  \* the reorder buffer
  queue, skipToKey,    \* chunks for the player
  hand, fed,           \* chunk the pump holds; last chunk the player got
  gone,                \* the player exited by itself and has no successor yet
  oldPump,             \* the pump of the player before: what it takes, the player now fed misses
  released, hole,      \* history: last chunk released since a reset; what happened to the chunk
                       \* before the next one queued
  watches, reopens

tx == <<seq, keys, ring, lastKey>>
pacer == <<live, retx>>
players == <<gone, oldPump, reopens>>
player == <<queue, skipToKey, hand, fed, released, hole, players>>
vars == <<tx, watching, replay, pacer, net, nacks, rx, player, watches>>

Chunks == 1..MaxSeq
\* Why the chunk before another is missing: it is not; it was thrown away to catch up with the
\* sharer; it went with a player that was replaced.
Cuts == {"none", "thrown", "player"}
Item == [n : Chunks, cut : Cuts]
None == [n |-> 0, cut |-> "none"]
NewReorder == [started |-> FALSE, next |-> 1, high |-> 0, pending |-> {}, missing |-> <<>>]

Init ==
  /\ seq = 0 /\ keys = {} /\ ring = [i \in 0..Slots - 1 |-> 0] /\ lastKey = 0
  /\ watching = FALSE /\ replay = <<>> /\ live = <<>> /\ retx = <<>> /\ net = {} /\ nacks = {}
  /\ rx = NewReorder /\ queue = <<>> /\ skipToKey = FALSE /\ hand = None /\ fed = 0
  /\ gone = FALSE /\ oldPump = "ended"
  /\ released = 0 /\ hole = "none" /\ watches = 0 /\ reopens = 0

-----------------------------------------------------------------------------
(* The sharer *)

Held(s) == ring[s % Slots] = s

SinceKeyframe ==
  LET span == lastKey..seq IN
  IF lastKey # 0 /\ seq - lastKey < Slots /\ \A s \in span : Held(s)
  THEN [i \in 1..seq - lastKey + 1 |-> lastKey + i - 1] ELSE <<>>

\* readLoop: an encoder begins with a keyframe
Capture ==
  /\ seq < MaxSeq
  /\ \E key \in IF seq = 0 THEN {TRUE} ELSE BOOLEAN :
       /\ keys' = IF key THEN keys \union {seq + 1} ELSE keys
       /\ lastKey' = IF key THEN seq + 1 ELSE lastKey
  /\ seq' = seq + 1
  /\ ring' = [ring EXCEPT ![(seq + 1) % Slots] = seq + 1]
  /\ live' = IF watching THEN Append(live, [n |-> seq + 1, free |-> FALSE]) ELSE live
  /\ UNCHANGED <<watching, replay, retx, net, nacks, rx, player, watches>>

\* A watch request arrives, the first one or a keepalive; what is to be replayed is queued
\* after the lock is released.
OnWatch ==
  /\ ~watching /\ replay = <<>> /\ watches < MaxWatches
  /\ watching' = TRUE /\ watches' = watches + 1
  /\ replay' = SinceKeyframe
  /\ UNCHANGED <<tx, pacer, net, nacks, rx, player>>

EnqueueReplay ==
  /\ replay # <<>>
  /\ live' = live \o [i \in DOMAIN replay |-> [n |-> replay[i], free |-> TRUE]]
  /\ replay' = <<>>
  /\ UNCHANGED <<tx, watching, retx, net, nacks, rx, player, watches>>

\* No keepalive arrived for watchExpiry.
ExpireWatcher ==
  /\ watching /\ watches < MaxWatches
  /\ watching' = FALSE
  /\ UNCHANGED <<tx, replay, pacer, net, nacks, rx, player, watches>>

\* A request within 40 ms of the last one is ignored, which is like losing it.
OnNack ==
  \E s \in nacks :
    /\ nacks' = nacks \ {s}
    /\ retx' = IF watching /\ Held(s) THEN Append(retx, s) ELSE retx
    /\ UNCHANGED <<tx, watching, replay, live, net, rx, player, watches>>

LoseNack ==
  \E s \in nacks :
    /\ nacks' = nacks \ {s}
    /\ UNCHANGED <<tx, watching, replay, pacer, net, rx, player, watches>>

-----------------------------------------------------------------------------
(* The pacer: retransmissions first, replays are never dropped for age *)

SendRetx ==
  /\ retx # <<>>
  /\ net' = net \union {Head(retx)} /\ retx' = Tail(retx)
  /\ UNCHANGED <<tx, watching, replay, live, nacks, rx, player, watches>>

SendLive ==
  /\ retx = <<>> /\ live # <<>>
  /\ net' = net \union {Head(live).n} /\ live' = Tail(live)
  /\ UNCHANGED <<tx, watching, replay, retx, nacks, rx, player, watches>>

DropStale ==
  /\ \/ /\ live # <<>> /\ ~Head(live).free
        /\ live' = Tail(live) /\ UNCHANGED retx
     \/ /\ retx # <<>> /\ retx' = Tail(retx) /\ UNCHANGED live
  /\ UNCHANGED <<tx, watching, replay, net, nacks, rx, player, watches>>

LoseChunk ==
  \E s \in net :
    /\ net' = net \ {s}
    /\ UNCHANGED <<tx, watching, replay, pacer, nacks, rx, player, watches>>

-----------------------------------------------------------------------------
(* The viewer's reorder buffer *)

Waiting(r, m) == \E p \in r.pending : p > m

\* The number at which releasing stops: one that has not arrived and is waited for.
Stop(r, open(_)) == Min({m \in r.next..r.high + 1 : m \notin r.pending /\ (Waiting(r, m) => open(m))})

ReleaseUpTo(r, m) ==
  [r EXCEPT !.next = m, !.pending = {p \in @ : p >= m},
            !.missing = [s \in {s \in DOMAIN @ : s >= m} |-> @[s]]]

Drain(r) == Stop(r, LAMBDA m : TRUE)
Skip(r) == Stop(r, LAMBDA m : r.missing[m].age < MaxWait)

StartAt(s) == [started |-> TRUE, next |-> s, high |-> s - 1, pending |-> {}, missing |-> <<>>]

\* Push up to the release of what is in order
Store(r, s) ==
  LET at == IF ~r.started \/ s > r.next + MaxGap THEN StartAt(s) ELSE r
      gap == (at.high + 1)..(s - 1)
      lacking == (DOMAIN at.missing \ {s}) \union gap
  IN [at EXCEPT !.pending = @ \union {s},
                !.high = IF s > @ THEN s ELSE @,
                !.missing = [g \in lacking |-> IF g \in gap THEN [age |-> 0, nacks |-> 0, since |-> 0] ELSE at.missing[g]]]

\* Faulty: only tests for chunks that wait, not for those already released
TooLate_Never(r, s) == FALSE

TooLate(r, s) == r.started /\ s < r.next

\* What is released, by its numbers
InOrder(r, m) ==
  LET due == {p \in r.pending : p < m} IN
  [i \in 1..Cardinality(due) |-> CHOOSE p \in due : Cardinality({o \in due : o < p}) = i - 1]

-----------------------------------------------------------------------------
(* The queue of the player *)

\* One chunk; a full queue is given up and filled again from a keyframe on.
Throw(q) == [chunks |-> q.chunks, skip |-> q.skip, hole |-> "thrown"]
Add(q, c) == [chunks |-> Append(q.chunks, [n |-> c, cut |-> q.hole]), skip |-> FALSE, hole |-> "none"]
\* Faulty: a full queue is given up without waiting for a keyframe
GiveUp_AnyChunk(q, c) == [chunks |-> <<>>, skip |-> FALSE, hole |-> "thrown"]

GiveUp(q, c) == [chunks |-> <<>>, skip |-> c \notin keys, hole |-> "thrown"]
Put(q, c) ==
  CASE q.skip /\ c \notin keys -> Throw(q)
    [] ~(q.skip /\ c \notin keys) /\ Len(q.chunks) < Cap -> Add(q, c)
    [] OTHER -> IF c \in keys THEN Add(GiveUp(q, c), c) ELSE GiveUp(q, c)

Dispatch(chunks) ==
  LET q == FoldLeft(Put, [chunks |-> queue, skip |-> skipToKey, hole |-> hole], chunks) IN
  /\ queue' = q.chunks /\ skipToKey' = q.skip /\ hole' = q.hole
  /\ released' = IF chunks = <<>> THEN released ELSE Last(chunks)
  /\ UNCHANGED <<hand, fed, players>>

OnData ==
  \E s \in net :
    /\ net' = net \ {s}
    /\ IF TooLate(rx, s) \/ s \in rx.pending
       THEN UNCHANGED <<rx, player>>
       ELSE LET r == Store(rx, s) IN
            /\ rx' = ReleaseUpTo(r, Drain(r))
            /\ Dispatch(InOrder(r, Drain(r)))
    /\ UNCHANGED <<tx, watching, replay, pacer, nacks, watches>>

Due(m) ==
  /\ m.nacks < MaxNacks /\ m.age >= Grace /\ m.age <= (MaxWait * 3) \div 4
  /\ m.nacks > 0 => m.since >= Retry

Asked(m) == [m EXCEPT !.nacks = @ + 1, !.since = 0]
Ask(r, due) ==
  [r EXCEPT !.missing = [s \in DOMAIN @ |-> IF s \in due THEN Asked(@[s]) ELSE @[s]]]

\* Faulty: the age stops one short of the limit
Older_OnlyOnce(m) == [m EXCEPT !.age = IF @ < MaxWait - 1 THEN @ + 1 ELSE @, !.since = IF @ < Retry THEN @ + 1 ELSE @]

\* A turn of the loop: time passes, gaps that waited too long are skipped, others asked for.
Older(m) == [m EXCEPT !.age = IF @ < MaxWait THEN @ + 1 ELSE @, !.since = IF @ < Retry THEN @ + 1 ELSE @]
Loop ==
  LET r == [rx EXCEPT !.missing = [s \in DOMAIN @ |-> Older(@[s])]]
      left == ReleaseUpTo(r, Skip(r))
      due == {s \in DOMAIN left.missing : Due(left.missing[s])}
  IN /\ rx.started /\ rx.missing # <<>>
     /\ rx' = Ask(left, due)
     /\ Dispatch(InOrder(r, Skip(r)))
     /\ nacks' = nacks \union due
     /\ UNCHANGED <<tx, watching, replay, pacer, net, watches>>

-----------------------------------------------------------------------------
(* The pump that feeds the player *)

Take ==
  /\ hand = None /\ queue # <<>> /\ ~gone
  /\ hand' = Head(queue) /\ queue' = Tail(queue)
  /\ UNCHANGED <<tx, watching, replay, pacer, net, nacks, rx, skipToKey, fed, released, hole, players, watches>>

Write ==
  /\ hand # None
  /\ fed' = hand.n /\ hand' = None
  /\ UNCHANGED <<tx, watching, replay, pacer, net, nacks, rx, queue, skipToKey, released, hole, players, watches>>

\* The chunk waited longer than maxPlayerLag.
CatchUp ==
  /\ hand # None /\ hand.n \notin keys
  /\ queue' = <<>> /\ skipToKey' = TRUE /\ hole' = "thrown" /\ hand' = None
  /\ UNCHANGED <<tx, watching, replay, pacer, net, nacks, rx, fed, released, players, watches>>

-----------------------------------------------------------------------------
(* A player that is replaced.  Its pump may go on for a while and take       *)
(* chunks from the queue.                                                    *)

After(cut) == IF cut = "thrown" THEN cut ELSE "player"
\* What is queued, after a chunk that went with a player before
WithoutOneBefore(q) ==
  [i \in DOMAIN q |-> IF i = 1 THEN [n |-> q[i].n, cut |-> After(q[i].cut)] ELSE q[i]]

\* The player exits by itself within its first seconds: the chunk being written is lost.  The
\* pump may take others until it notices.
Exit ==
  /\ ~gone /\ oldPump = "ended" /\ reopens < MaxReopens
  /\ gone' = TRUE /\ oldPump' = "waits" /\ reopens' = reopens + 1 /\ hand' = None
  /\ UNCHANGED <<tx, watching, replay, pacer, net, nacks, rx, queue, skipToKey, fed, released, hole, watches>>

\* Faulty: what arrives next is fed to the new player, whatever it is
Replaced_NoSkip ==
  /\ gone' = FALSE /\ hand' = None /\ fed' = 0 /\ UNCHANGED skipToKey
  /\ rx' = [rx EXCEPT !.started = FALSE, !.pending = {}, !.missing = <<>>]
  /\ released' = 0
  /\ queue' = WithoutOneBefore(queue) /\ hole' = "thrown"
  /\ UNCHANGED <<tx, watching, replay, pacer, net, nacks, watches>>

\* replacePlayer.  What is queued stays, and the new player is fed it first.
Replaced ==
  /\ gone' = FALSE /\ hand' = None /\ fed' = 0 /\ skipToKey' = TRUE
  /\ rx' = [rx EXCEPT !.started = FALSE, !.pending = {}, !.missing = <<>>]
  /\ released' = 0
  /\ queue' = WithoutOneBefore(queue) /\ hole' = "thrown"
  /\ UNCHANGED <<tx, watching, replay, pacer, net, nacks, watches>>

\* Another player takes the place of one that exited (watchPlayer).
FallBack == gone /\ Replaced /\ UNCHANGED <<oldPump, reopens>>

\* The player does not take the chunk: a new one takes its place, and the stuck one is closed
\* after that (reopenStuckPlayer).
Reopen ==
  /\ hand # None /\ oldPump = "ended" /\ reopens < MaxReopens
  /\ reopens' = reopens + 1 /\ oldPump' = "waits"
  /\ Replaced

\* The pump of a player before takes a chunk.  A keyframe it writes, where nobody sees it.
OldPumpTakes ==
  /\ oldPump = "waits" /\ queue # <<>>
  /\ oldPump' = IF Head(queue).n \in keys THEN "waits" ELSE "holds"
  /\ queue' = WithoutOneBefore(Tail(queue))
  /\ hole' = IF Len(queue) = 1 THEN After(hole) ELSE hole
  /\ UNCHANGED <<tx, watching, replay, pacer, net, nacks, rx, skipToKey, hand, fed, gone, released, reopens, watches>>

OldPumpCatchesUp ==
  /\ oldPump = "holds" /\ oldPump' = "waits"
  /\ queue' = <<>> /\ skipToKey' = TRUE /\ hole' = "thrown"
  /\ UNCHANGED <<tx, watching, replay, pacer, net, nacks, rx, hand, fed, gone, released, reopens, watches>>

\* It writes, or ends with its player.
OldPumpWritesOrEnds ==
  /\ oldPump # "ended"
  /\ oldPump' \in {"waits", "ended"} \ {oldPump}
  /\ UNCHANGED <<tx, watching, replay, pacer, net, nacks, rx, queue, skipToKey, hand, fed, gone, released, hole, reopens, watches>>

Next ==
  \/ Capture \/ OnWatch \/ EnqueueReplay \/ ExpireWatcher \/ OnNack \/ LoseNack
  \/ SendRetx \/ SendLive \/ DropStale \/ LoseChunk \/ OnData \/ Loop
  \/ Take \/ Write \/ CatchUp
  \/ Exit \/ FallBack \/ Reopen \/ OldPumpTakes \/ OldPumpCatchesUp \/ OldPumpWritesOrEnds

\* The loop runs every 10 ms.
Fairness == WF_vars(Loop)
Spec == Init /\ [][Next]_vars

-----------------------------------------------------------------------------
(* Properties *)

Miss == [age : 0..MaxWait, nacks : 0..MaxNacks, since : 0..Retry]
\* Numbers, queues and ages are what the code can hold.
TypeOK ==
  /\ seq \in 0..MaxSeq /\ keys \subseteq Chunks /\ lastKey \in keys \union {0}
  /\ ring \in [0..Slots - 1 -> 0..MaxSeq]
  /\ watching \in BOOLEAN /\ replay \in Seq(Chunks)
  /\ live \in Seq([n : Chunks, free : BOOLEAN]) /\ retx \in Seq(Chunks)
  /\ net \subseteq Chunks /\ nacks \subseteq Chunks
  /\ rx.started \in BOOLEAN /\ rx.next \in 1..MaxSeq + 1 /\ rx.high \in 0..MaxSeq
  /\ rx.pending \subseteq Chunks /\ \A s \in DOMAIN rx.missing : rx.missing[s] \in Miss
  /\ queue \in Seq(Item) /\ Len(queue) <= Cap /\ skipToKey \in BOOLEAN /\ hole \in Cuts
  /\ gone \in BOOLEAN /\ oldPump \in {"ended", "waits", "holds"} /\ reopens \in 0..MaxReopens
  /\ hand \in Item \union {None} /\ fed \in 0..MaxSeq /\ released \in 0..MaxSeq

\* Chunks leave the buffer strictly in order, whatever was lost, repeated or skipped
\* (reorder.go: "Chunks are released strictly in sequence order").
ReleasedInOrder == [][released' # released => released' > released \/ released' = 0]_vars

\* What a player is fed follows what it got before without a chunk thrown away between, or is
\* a keyframe: catching up, from whichever side, never smears the picture, and what arrives
\* after a player was replaced begins with a keyframe (dispatchLocked, catchUpLocked,
\* replacePlayer).  A player that was replaced is the exception, and the only one: what was
\* queued for it is fed to its successor as it lies there, while its pump may still take some
\* of it away.  (The comment at screen.go:1298, "feeds it from the next keyframe", holds of
\* what arrives later, not of the queue.)
NoHoleButAtKeyframe ==
  \A item \in Range(queue) \union {hand} :
    /\ item.cut = "thrown" => item.n \in keys
    /\ item.cut = "player" => reopens > 0

\* A gap never freezes the picture: a chunk held back is released or dropped in the end.
GapNeverFreezes == \A s \in Chunks : []<>(s \notin rx.pending)

=============================================================================
