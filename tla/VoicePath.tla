----------------------------- MODULE VoicePath -----------------------------
(***************************************************************************)
(* The way of one speaker's voice to one listener: what SendAudio keeps    *)
(* back and sends (internal/p2p/media.go), the two redundant paths, relay  *)
(* and direct, the duplicate check (AudioDeduplicator in types.go) and the *)
(* jitter buffer the player pulls from (internal/voice/jitter.go).         *)
(*                                                                         *)
(* A frame is known by the number of its capture.  The two paths lose,     *)
(* delay and reorder packets: a lost one is one that never arrives.  How   *)
(* the measured jitter sets the target depth is arithmetic on clocks: Push *)
(* may set any depth in its range.                                         *)
(***************************************************************************)
EXTENDS Integers, Sequences, FiniteSets, FiniteSetsExt

CONSTANTS
    Wrap,           \* 2^32, the range of a sequence number
    First,          \* audioSeq before the first packet
    Slots,          \* entries of the duplicate check (2048)
    TooOld,         \* how far behind the newest a packet may be (1500)
    Targets,        \* minTargetFrames .. maxTargetFrames
    MaxConceal, ResyncGap, MaxBuffered,
    Slack,          \* frames above the target that are not yet too many (2)
    TrimAfter,      \* pulls above the target before a frame is dropped (25)
    Hangover,       \* silent frames still sent after speech (25)
    PreRoll,        \* silent frames kept for the next onset (3)
    MaxFrames       \* captured frames (bound)

\* A packet too old for its slot is refused before the slot has another, and
\* the speaker does not get half way round the numbers, which takes 497 days.
VoicePathAssumption ==
    /\ {Wrap, First, Slots, TooOld, MaxConceal, ResyncGap, MaxBuffered, Slack, TrimAfter,
        Hangover, PreRoll, MaxFrames} \subseteq Nat
    /\ TooOld < Slots /\ MaxBuffered > 0
    /\ Targets # {} /\ Targets \subseteq Nat \ {0}
    /\ 2 * (First + MaxFrames + 1) < Wrap

VARIABLES
    \* the speaker
    captured, silenceHangover, audioPreRoll,
    sent,       \* frame, in the order of their sequence numbers
    spoken,     \* frames captured as speech
    net,        \* packets on their way: position in sent, and path
    \* the listener's duplicate check
    seqs, maxSeq,
    \* the jitter buffer
    packets,    \* sequence numbers it holds
    started, next, target, concealRun, lastSpeaking, highWater,
    played,     \* sequence numbers decoded so far
    again       \* those decoded more than once

senderVars == <<captured, silenceHangover, audioPreRoll, sent, spoken>>
dedupVars == <<seqs, maxSeq>>
jitterVars == <<packets, started, next, target, concealRun, lastSpeaking,
                highWater, played, again>>
vars == <<senderVars, net, dedupVars, jitterVars>>

Init ==
    /\ captured = 0 /\ silenceHangover = 0 /\ audioPreRoll = <<>>
    /\ sent = <<>> /\ spoken = {} /\ net = {}
    /\ seqs = [i \in 0 .. Slots - 1 |-> 0] /\ maxSeq = 0
    /\ packets = {} /\ started = FALSE /\ next = 0
    /\ target = Min(Targets)
    /\ concealRun = 0 /\ lastSpeaking = FALSE /\ highWater = 0
    /\ played = {} /\ again = {}

\* The sequence number of the k-th packet, and the packet of a number.
SeqOf(k) == (First + k) % Wrap
PacketOf(s) == CHOOSE k \in DOMAIN sent : SeqOf(k) = s

\* int32(a - b).
Ahead(a, b) == LET d == (a - b) % Wrap IN IF 2 * d < Wrap THEN d ELSE d - Wrap

TypeOK ==
    /\ captured \in 0 .. MaxFrames /\ silenceHangover \in 0 .. Hangover
    /\ audioPreRoll \in Seq(1 .. MaxFrames) /\ Len(audioPreRoll) <= PreRoll
    /\ sent \in Seq(1 .. MaxFrames) /\ spoken \subseteq 1 .. MaxFrames
    /\ net \subseteq (DOMAIN sent) \X {"relay", "direct"}
    /\ seqs \in [0 .. Slots - 1 -> 0 .. Wrap - 1] /\ maxSeq \in 0 .. Wrap - 1
    /\ packets \subseteq {SeqOf(k) : k \in DOMAIN sent}
    /\ Cardinality(packets) <= MaxBuffered
    /\ started \in BOOLEAN /\ next \in 0 .. Wrap - 1 /\ target \in Targets
    /\ concealRun \in Nat /\ lastSpeaking \in BOOLEAN /\ highWater \in Nat
    /\ again \subseteq played /\ played \subseteq {SeqOf(k) : k \in DOMAIN sent}

-----------------------------------------------------------------------------
(* The speaker                                                             *)

Transmit(frames) ==
    /\ sent' = sent \o frames
    /\ net' = net \cup ((Len(sent) + 1 .. Len(sent')) \X {"relay", "direct"})

\* Faulty variant: the frames kept back are sent after the one that ended the
\* silence.
Speak_LatePreRoll(f) ==
    /\ spoken' = spoken \cup {f}
    /\ silenceHangover' = Hangover
    /\ IF silenceHangover = 0
       THEN Transmit(<<f>> \o audioPreRoll) /\ audioPreRoll' = <<>>
       ELSE Transmit(<<f>>) /\ UNCHANGED audioPreRoll

\* SendAudio of a frame with speech: at an onset what was kept back goes first.
Speak(f) ==
    /\ spoken' = spoken \cup {f}
    /\ silenceHangover' = Hangover
    /\ IF silenceHangover = 0
       THEN Transmit(Append(audioPreRoll, f)) /\ audioPreRoll' = <<>>
       ELSE Transmit(<<f>>) /\ UNCHANGED audioPreRoll

\* SendAudio of a silent frame: sent for a while after speech, then kept back.
Pause(f) ==
    /\ UNCHANGED spoken
    /\ IF silenceHangover > 0
       THEN /\ silenceHangover' = silenceHangover - 1
            /\ Transmit(<<f>>)
            /\ UNCHANGED audioPreRoll
       ELSE /\ audioPreRoll' =
                 LET kept == Append(audioPreRoll, f)
                 IN  IF Len(kept) > PreRoll THEN Tail(kept) ELSE kept
            /\ UNCHANGED <<silenceHangover, sent, net>>

\* One captured frame.  Bound: MaxFrames.
SendAudio ==
    /\ captured < MaxFrames
    /\ captured' = captured + 1
    /\ Speak(captured') \/ Pause(captured')
    /\ UNCHANGED <<dedupVars, jitterVars>>

-----------------------------------------------------------------------------
(* The duplicate check                                                     *)

\* ShouldProcess, its answer.  The comparison with the newest number does not
\* wrap around.
ShouldProcess(s) ==
    \/ s = 0
    \/ /\ seqs[s % Slots] # s
       /\ ~(maxSeq > TooOld /\ s < maxSeq - TooOld)

\* And what it remembers.
Remember(s) ==
    IF s = 0 THEN UNCHANGED dedupVars
    ELSE /\ seqs' = [seqs EXCEPT ![s % Slots] = s]
         /\ maxSeq' = IF s > maxSeq THEN s ELSE maxSeq

-----------------------------------------------------------------------------
(* The jitter buffer                                                       *)

MinSeq(S) == CHOOSE s \in S : \A t \in S : Ahead(s, t) <= 0

\* Push: a packet that comes too late for its turn is dropped, one far off
\* restarts the buffer, and of a full buffer the oldest goes.
Push(s) ==
    LET d     == Ahead(s, next)
        late  == started /\ d < 0 /\ d > -ResyncGap
        jump  == started /\ (d <= -ResyncGap \/ d > ResyncGap)
        kept  == IF jump THEN {} ELSE packets
        full  == Cardinality(kept) >= MaxBuffered
        first == MinSeq(kept)
    IN  /\ target' \in Targets
        /\ IF late
           THEN UNCHANGED <<started, packets, next>>
           ELSE /\ started' = (started /\ ~jump)
                /\ packets' = (IF full THEN kept \ {first} ELSE kept) \cup {s}
                /\ next' = IF full /\ started' /\ first = next
                           THEN (next + 1) % Wrap ELSE next
        /\ UNCHANGED <<concealRun, lastSpeaking, highWater, played, again>>

\* A packet arrives on one of the paths.
Receive ==
    \E p \in net :
        LET s == SeqOf(p[1])
        IN  /\ net' = net \ {p}
            /\ IF ShouldProcess(s)
               THEN Remember(s) /\ Push(s)
               ELSE UNCHANGED <<dedupVars, jitterVars>>
            /\ UNCHANGED senderVars

Speaking(s) == sent[PacketOf(s)] \in spoken

Plays(s) == /\ played' = played \cup {s}
            /\ again' = again \cup (played \cap {s})

\* The frame whose turn it is is decoded.  When the buffer stays deeper than
\* the target, the one after it may be dropped.
Decode(s) ==
    LET left  == packets \ {s}
        after == (s + 1) % Wrap
        high  == IF Cardinality(left) > target + Slack THEN highWater + 1 ELSE 0
        trim  == /\ high >= TrimAfter /\ after \in left
                 /\ ~Speaking(after) \/ high >= 2 * TrimAfter
    IN  /\ Plays(s)
        /\ lastSpeaking' = Speaking(s)
        /\ concealRun' = 0
        /\ packets' = IF trim THEN left \ {after} ELSE left
        /\ next' = IF trim THEN (after + 1) % Wrap ELSE after
        /\ highWater' = IF trim THEN 0 ELSE high

\* pullResyncedLocked: far from the next frame the buffer goes on with what it
\* has.
Resync(s) ==
    /\ Plays(s)
    /\ lastSpeaking' = Speaking(s)
    /\ packets' = packets \ {s}
    /\ next' = (s + 1) % Wrap
    /\ UNCHANGED <<concealRun, highWater>>

\* Faulty variant: a frame recovered from the packet after it still has its turn.
SkipLost_SameTurn(n) ==
    LET fec == (n + 1) % Wrap \in packets
    IN  /\ next' = IF fec THEN n ELSE (n + 1) % Wrap
        /\ concealRun' = IF fec THEN 0 ELSE concealRun + 1
        /\ UNCHANGED <<packets, lastSpeaking, highWater, played, again>>

\* A missing frame is recovered from the packet after it, or concealed.
SkipLost(n) ==
    /\ next' = (n + 1) % Wrap
    /\ concealRun' = IF (n + 1) % Wrap \in packets THEN 0 ELSE concealRun + 1
    /\ UNCHANGED <<packets, lastSpeaking, highWater, played, again>>

\* Nothing is left: the end of a talk spurt, or an underrun that is concealed
\* for a few frames.
RunDry ==
    IF ~lastSpeaking \/ concealRun >= MaxConceal
    THEN /\ started' = FALSE
         /\ UNCHANGED <<packets, next, concealRun, lastSpeaking, highWater, played, again>>
    ELSE /\ concealRun' = concealRun + 1
         /\ UNCHANGED <<packets, started, next, lastSpeaking, highWater, played, again>>

\* Pull, every 20 ms.
Pull ==
    /\ UNCHANGED <<senderVars, net, dedupVars, target>>
    /\ \/ /\ ~started
          /\ Cardinality(packets) >= target /\ packets # {}
          /\ started' = TRUE
          /\ LET s == MinSeq(packets)
             IN  Decode(s)
       \/ /\ started /\ next \in packets
          /\ Decode(next)
          /\ UNCHANGED started
       \/ /\ started /\ packets = {}
          /\ RunDry
       \/ /\ started /\ packets # {} /\ next \notin packets
          /\ IF Ahead(MinSeq(packets), next) > ResyncGap
             THEN Resync(MinSeq(packets))
             ELSE SkipLost(next)
          /\ UNCHANGED started

Next == SendAudio \/ Receive \/ Pull

Spec == Init /\ [][Next]_vars

\* The player asks for a frame every 20 ms.
Fairness == WF_vars(Pull)

-----------------------------------------------------------------------------
(* Properties                                                              *)

\* What was kept back before an onset neither follows the onset nor is sent again.
SentInOrder == \A j, k \in DOMAIN sent : j < k => sent[j] < sent[k]

\* Voice is played as it was spoken, however the copies of the two paths, late ones and
\* restarts of the buffer come together: it is sent in order, no packet is decoded twice
\* ("duplicate audio packets from being played", types.go:172), and a buffer that plays holds
\* nothing whose turn has passed.
PlayedInOrder ==
  SentInOrder /\ again = {} /\ (started => \A s \in packets : Ahead(s, next) >= 0)

\* A buffer that plays gets through what it holds: no gap stops it.
PlayoutGoesOn == []<>(packets = {} \/ ~started)
=============================================================================
