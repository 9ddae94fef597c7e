----------------------------- MODULE GroupRekey -----------------------------
(***************************************************************************)
(* Rotation and recovery of the group key in a room whose host stays       *)
(* (internal/p2p/handshake.go, keyrecovery.go, kick.go, with the parts of  *)
(* node.go that add and drop members).                                     *)
(*                                                                         *)
(* The host stages a fresh key, sends it to every recipient sealed for     *)
(* that recipient's identity, repeats it to whoever has not acknowledged,  *)
(* and promotes it when all have or when the attempts run out.  A member   *)
(* stages what it receives and promotes it on a timer of its own.  A       *)
(* member that can no longer read the room asks the host for the key.      *)
(*                                                                         *)
(* The network loses, delays, reorders and repeats: a datagram that was    *)
(* sent stays in "net", its handler may run at any later time, any number  *)
(* of times or never.  Clocks are abstracted to the order of events.       *)
(***************************************************************************)
EXTENDS Keyring

CONSTANTS
    Members,        \* everyone but the host
    Host,
    Initial,        \* the members already in the room at the start
    MaxEpoch,       \* bound: no rotation goes past this epoch
    MaxTries,       \* rekeyMaxRetries
    MaxStays,       \* bound: how often one member enters the room
    Lapses          \* the nodes and epochs with PreviousKeyGrace over before the next rotation

ASSUME GroupRekeyAssumption ==
    /\ Host \notin Members
    /\ Initial \subseteq Members
    /\ MaxEpoch \in Nat \ {0}
    /\ MaxTries \in Nat \ {0}
    /\ MaxStays \in Nat \ {0}
    /\ Lapses \subseteq (Members \cup {Host}) \X (1 .. MaxEpoch)

Nodes == Members \cup {Host}
Epochs == 1 .. MaxEpoch
Key == [epoch : Epochs]
KeyOf(e) == [epoch |-> e]

\* NewGroupKey never returns an empty slot.
ASSUME NoKeyAssumption == NoKey \notin Key

Stays == 0 .. MaxStays

VARIABLES
    \* the members
    phase,      \* outside the room, in the join handshake, or in the room
    stay,       \* number of the stay; each one has an identity key of its own
    ring,       \* keyrings, the host's included (a placeholder while outside)
    timers,     \* epochs whose promotion timer is still to fire
    hostKnown,  \* the members whose directory holds the host's identity key
    \* the host
    peers,      \* Peers
    ident,      \* memberKeys: the stay whose identity it knows, 0 for none
    removed,    \* removed: the members it kicked
    session,    \* the key the admitted join session granted, NoKey for none
    rot,        \* rekeyEpoch, rekeyAcks and the goroutine of the last rotation
    due,        \* rekeyTimer is set
    spawned,    \* calls of rotateGroupKey that are about to run
    \* the network, and what was ever sealed for whom (a history variable)
    net,
    given

memberVars == <<phase, stay, timers, hostKnown>>
hostVars == <<peers, ident, removed, session, rot, due, spawned>>
vars == <<memberVars, ring, hostVars, net, given>>

Outside == NewRing(KeyOf(1))    \* placeholder of a member without a keyring

NoRotation == [epoch |-> 0, to |-> [m \in Members |-> 0], acked |-> {},
               tries |-> 0, live |-> FALSE]

RekeyMsg(m, s, k, seal) ==
    [type |-> "rekey", to |-> m, stay |-> s, key |-> k, seal |-> seal]
AckMsg(m, e, seal) == [type |-> "ack", from |-> m, epoch |-> e, seal |-> seal]
KickMsg(m, s, seal) == [type |-> "kick", to |-> m, stay |-> s, seal |-> seal]
LeaveMsg(m, s, seal) ==
    [type |-> "leave", from |-> m, stay |-> s, seal |-> seal]
RequestMsg(m) == [type |-> "request", from |-> m]
GrantMsg(m, s, k) == [type |-> "grant", to |-> m, stay |-> s, key |-> k]

Message ==
    [type : {"rekey"}, to : Members, stay : Stays, key : Key, seal : Key]
    \cup [type : {"ack"}, from : Members, epoch : Epochs, seal : Key]
    \cup [type : {"kick"}, to : Members, stay : Stays, seal : Key]
    \cup [type : {"leave"}, from : Members, stay : Stays, seal : Key]
    \cup [type : {"request"}, from : Members]
    \cup [type : {"grant"}, to : Members, stay : Stays, key : Key]

Rotation == [epoch : 0 .. MaxEpoch, to : [Members -> Stays],
             acked : SUBSET Members, tries : 0 .. MaxTries, live : BOOLEAN]

\* Every slot holds what the code can put there.
TypeOK ==
    /\ phase \in [Members -> {"out", "joining", "in"}]
    /\ stay \in [Members -> Stays]
    /\ ring \in [Nodes -> Rings(Key)]
    /\ timers \in [Members -> SUBSET Epochs]
    /\ hostKnown \in SUBSET Members
    /\ peers \in SUBSET Members
    /\ ident \in [Members -> Stays]
    /\ removed \in SUBSET Members
    /\ session \in [Members -> Key \cup {NoKey}]
    /\ rot \in Rotation
    /\ due \in BOOLEAN
    /\ spawned \in Nat
    /\ net \in SUBSET Message
    /\ given \in [Members -> SUBSET Key]

\* A host and the members it admitted earlier, all on the first key.
Init ==
    /\ phase = [m \in Members |-> IF m \in Initial THEN "in" ELSE "out"]
    /\ stay = [m \in Members |-> IF m \in Initial THEN 1 ELSE 0]
    /\ ring = [n \in Nodes |-> Outside]
    /\ timers = [m \in Members |-> {}]
    /\ hostKnown = Initial
    /\ peers = Initial
    /\ ident = stay
    /\ removed = {}
    /\ session = [m \in Members |-> NoKey]
    /\ rot = NoRotation
    /\ due = FALSE
    /\ spawned = 0
    /\ net = {}
    /\ given = [m \in Members |-> IF m \in Initial THEN {KeyOf(1)} ELSE {}]

InRoom == {m \in Members : phase[m] = "in"}
HostReads(seal) == seal \in OpenKeys(ring[Host])
Reads(m, seal) == phase[m] = "in" /\ seal \in OpenKeys(ring[m])

-----------------------------------------------------------------------------
(* Joining                                                                 *)

\* processAuth and finishAdmissionLocked: the host verified a joiner that
\* starts a new stay, learns its identity key, grants it the key of the
\* rotation in flight (else the active key) and schedules a rotation.
Admit(m) ==
    LET hr == ring[Host]
        k  == IF hr.next # NoKey /\ hr.next.epoch = rot.epoch
              THEN hr.next ELSE hr.cur
    IN  /\ phase[m] = "out"
        /\ stay[m] < MaxStays
        /\ phase' = [phase EXCEPT ![m] = "joining"]
        /\ stay' = [stay EXCEPT ![m] = @ + 1]
        /\ ident' = [ident EXCEPT ![m] = stay[m] + 1]
        /\ removed' = removed \ {m}
        /\ session' = [session EXCEPT ![m] = k]
        /\ given' = [given EXCEPT ![m] = @ \cup {k}]
        /\ due' = TRUE
        /\ UNCHANGED <<ring, timers, hostKnown, peers, rot, spawned, net>>

\* Faulty variant: the key is installed before the verdict is there.
CompleteJoin_NoResult(m) ==
    /\ phase[m] = "joining"
    /\ phase' = [phase EXCEPT ![m] = "in"]
    /\ ring' = [ring EXCEPT ![m] = NewRing(session[m])]
    /\ hostKnown' = hostKnown \cup {m}
    /\ UNCHANGED <<stay, timers, hostVars, net, given>>

\* processResult: the joiner installs the granted key and the directory.
CompleteJoin(m) ==
    /\ phase[m] = "joining"
    /\ session[m] # NoKey /\ ident[m] = stay[m]
    /\ phase' = [phase EXCEPT ![m] = "in"]
    /\ ring' = [ring EXCEPT ![m] = NewRing(session[m])]
    /\ hostKnown' = hostKnown \cup {m}
    /\ UNCHANGED <<stay, timers, hostVars, net, given>>

\* failJoin: the joiner gives the handshake up.
GiveUpJoin(m) ==
    /\ phase[m] = "joining"
    /\ phase' = [phase EXCEPT ![m] = "out"]
    /\ UNCHANGED <<stay, timers, hostKnown, ring, hostVars, net, given>>

\* expireJoinSessionsLocked: joinSessionTTL passed since the hello.
ExpireSession(m) ==
    /\ session[m] # NoKey
    /\ session' = [session EXCEPT ![m] = NoKey]
    /\ UNCHANGED <<memberVars, ring, peers, ident, removed, rot, due, spawned,
                   net, given>>

\* handlePacket: any packet of a member that the host can open makes it a
\* peer, its first join request as well as voice heard after a time-out.
Register(m) ==
    /\ m \notin peers \cup removed
    /\ phase[m] = "in" /\ HostReads(SealKey(ring[m]))
    /\ peers' = peers \cup {m}
    /\ UNCHANGED <<memberVars, ring, ident, removed, session, rot, due, spawned,
                   net, given>>

-----------------------------------------------------------------------------
(* Leaving, timing out, being removed                                      *)

\* delete(n.Peers, m) and forgetMemberLocked on the host.
Forget(m) ==
    /\ peers' = peers \ {m}
    /\ ident' = [ident EXCEPT ![m] = 0]
    /\ session' = [session EXCEPT ![m] = NoKey]

\* LeaveRoom: the announcement is sealed with the active key and, for a host
\* whose key the member knows, proven with this stay's identity; keyring,
\* identity and directory are dropped.
LeaveRoom(m) ==
    /\ phase' = [phase EXCEPT ![m] = "out"]
    /\ ring' = [ring EXCEPT ![m] = Outside]
    /\ timers' = [timers EXCEPT ![m] = {}]
    /\ hostKnown' = hostKnown \ {m}
    /\ net' = IF m \in hostKnown
              THEN net \cup {LeaveMsg(m, stay[m], SealKey(ring[m]))} ELSE net
    /\ UNCHANGED stay

Leave(m) ==
    /\ phase[m] = "in"
    /\ LeaveRoom(m)
    /\ UNCHANGED <<hostVars, given>>

\* PacketLeave at the host: believed with the proof of the identity it knows.
HandleLeave(m) ==
    /\ \E p \in net : /\ p.type = "leave" /\ p.from = m
                      /\ HostReads(p.seal) /\ p.stay = ident[m]
    /\ m \in peers \ removed
    /\ Forget(m)
    /\ due' = TRUE
    /\ UNCHANGED <<memberVars, ring, removed, rot, spawned, net, given>>

\* heartbeatLoop at the host: nothing was heard from a peer for 45 s.
TimeOutMember(m) ==
    /\ m \in peers
    /\ Forget(m)
    /\ due' = TRUE
    /\ UNCHANGED <<memberVars, ring, removed, rot, spawned, net, given>>

\* heartbeatLoop at a member that did not hear the host for 45 s: the host
\* leaves its Peers and its directory, but stays its HostID.
TimeOutHost(m) ==
    /\ phase[m] = "in" /\ m \in hostKnown
    /\ hostKnown' = hostKnown \ {m}
    /\ UNCHANGED <<phase, stay, timers, ring, hostVars, net, given>>

\* Faulty variant: the rotation is left to the timer that was just stopped.
Kick_NoRotation(m) ==
    /\ m \in peers
    /\ net' = net \cup {KickMsg(m, ident[m], SealKey(ring[Host]))}
    /\ removed' = removed \cup {m}
    /\ Forget(m)
    /\ due' = FALSE
    /\ UNCHANGED <<memberVars, ring, rot, given, spawned>>

\* KickMember: the notice goes out first, then the member is dropped, a
\* pending timer is stopped and a rotation of its own is started.
Kick(m) ==
    /\ m \in peers
    /\ net' = net \cup {KickMsg(m, ident[m], SealKey(ring[Host]))}
    /\ removed' = removed \cup {m}
    /\ Forget(m)
    /\ due' = FALSE
    /\ spawned' = spawned + 1
    /\ UNCHANGED <<memberVars, ring, rot, given>>

\* handleKickLocked and kickedLocked at the member that was removed.
HandleKick(m) ==
    /\ m \in hostKnown
    /\ \E p \in net : /\ p.type = "kick" /\ p.to = m
                      /\ p.stay = stay[m] /\ Reads(m, p.seal)
    /\ LeaveRoom(m)
    /\ UNCHANGED <<hostVars, given>>

-----------------------------------------------------------------------------
(* Rotating the key                                                        *)

\* Faulty variant: everyone who was ever admitted is sealed for.
Recipients_Forgotten == {m \in Members : stay[m] # 0}

\* rekeyRecipientsLocked, of those only the ones sealGrantsLocked can seal
\* for: peers and admitted joiners whose identity key is known.
Recipients ==
    {m \in Members : (m \in peers \/ session[m] # NoKey) /\ ident[m] # 0}

Pending == {m \in Members : rot.to[m] # 0} \ rot.acked

\* rotateGroupKey under the lock: a rotation still in flight is superseded.
RotateGroupKey ==
    LET k == KeyOf(Newest(ring[Host]).epoch + 1)
    IN  /\ k.epoch <= MaxEpoch
        /\ ring' = [ring EXCEPT ![Host] = Stage(@, k)]
        /\ rot' = [epoch |-> k.epoch,
                   to |-> [m \in Members |->
                             IF m \in Recipients THEN ident[m] ELSE 0],
                   acked |-> {}, tries |-> 0, live |-> TRUE]
        /\ given' = [m \in Members |->
                       IF m \in Recipients THEN given[m] \cup {k} ELSE given[m]]
        /\ due' = FALSE
        /\ UNCHANGED <<memberVars, peers, ident, removed, session, net>>

\* RotatePort: a port hop of the host schedules a rotation too.
RotatePort ==
    /\ ~due
    /\ due' = TRUE
    /\ UNCHANGED <<memberVars, ring, peers, ident, removed, session, rot, spawned,
                   net, given>>

RotateOnTimer ==
    /\ due
    /\ RotateGroupKey
    /\ UNCHANGED spawned

\* The rotation a removal starts forgets a timer scheduled meanwhile without
\* stopping it, so that timer still fires.
RotateOnRemoval ==
    /\ spawned > 0
    /\ RotateGroupKey
    /\ spawned' = IF due THEN spawned ELSE spawned - 1

\* One pass of the retry loop: the grants were sealed for the identities known
\* at the start, the packets are sealed with the key active now.
RekeyAttempt ==
    /\ rot.live /\ rot.tries < MaxTries /\ Pending # {}
    /\ net' = net \cup {RekeyMsg(m, rot.to[m], KeyOf(rot.epoch),
                                 SealKey(ring[Host])) : m \in Pending}
    /\ rot' = [rot EXCEPT !.tries = @ + 1]
    /\ UNCHANGED <<memberVars, ring, peers, ident, removed, session, due,
                   spawned, given>>

\* Faulty variant: the rotation waits for every acknowledgement.
FinishRotation_AllAcked ==
    /\ rot.live /\ Pending = {}
    /\ ring' = [ring EXCEPT ![Host] = Promote(@)]
    /\ rot' = [rot EXCEPT !.live = FALSE]
    /\ UNCHANGED <<memberVars, peers, ident, removed, session, due, spawned,
                   net, given>>

\* finish: everyone acknowledged, or the attempts are used up.
FinishRotation ==
    /\ rot.live /\ (Pending = {} \/ rot.tries = MaxTries)
    /\ ring' = [ring EXCEPT ![Host] = Promote(@)]
    /\ rot' = [rot EXCEPT !.live = FALSE]
    /\ UNCHANGED <<memberVars, peers, ident, removed, session, due, spawned,
                   net, given>>

\* handleRekeyLocked: stage a newer key, start its timer, always acknowledge.
HandleRekey(m) ==
    \E p \in net :
        /\ p.type = "rekey" /\ p.to = m /\ p.stay = stay[m]
        /\ m \in hostKnown /\ Reads(m, p.seal)
        /\ IF /\ p.key.epoch > ring[m].cur.epoch
              /\ ring[m].next # NoKey => ring[m].next.epoch < p.key.epoch
           THEN /\ ring' = [ring EXCEPT ![m] = Stage(@, p.key)]
                /\ timers' = [timers EXCEPT ![m] = @ \cup {p.key.epoch}]
           ELSE UNCHANGED <<ring, timers>>
        /\ net' = net \cup {AckMsg(m, p.key.epoch, SealKey(ring[m]))}
        /\ UNCHANGED <<phase, stay, hostKnown, hostVars, given>>

\* The promotion timer of a member: only the key it was started for.
PromoteStaged(m) ==
    \E e \in timers[m] :
        /\ timers' = [timers EXCEPT ![m] = @ \ {e}]
        /\ ring' = IF ring[m].next # NoKey /\ ring[m].next.epoch = e
                   THEN [ring EXCEPT ![m] = Promote(@)] ELSE ring
        /\ UNCHANGED <<phase, stay, hostKnown, hostVars, net, given>>

\* Faulty variant: an acknowledgement of an earlier rotation counts.
HandleAck_AnyEpoch(m) ==
    /\ m \notin removed
    /\ \E p \in net : /\ p.type = "ack" /\ p.from = m /\ HostReads(p.seal)
                      /\ rot.to[m] # 0
    /\ rot' = [rot EXCEPT !.acked = @ \cup {m}]
    /\ peers' = peers \cup {m}
    /\ UNCHANGED <<memberVars, ring, ident, removed, session, due, spawned,
                   net, given>>

\* PacketRekeyAck at the host of an unlocked room; like any packet it also
\* registers its sender.
HandleAck(m) ==
    /\ m \notin removed
    /\ \E p \in net : /\ p.type = "ack" /\ p.from = m /\ HostReads(p.seal)
                      /\ p.epoch = rot.epoch /\ rot.to[m] # 0
    /\ rot' = [rot EXCEPT !.acked = @ \cup {m}]
    /\ peers' = peers \cup {m}
    /\ UNCHANGED <<memberVars, ring, ident, removed, session, due, spawned,
                   net, given>>

-----------------------------------------------------------------------------
(* Recovering the key                                                      *)

\* Someone in the room seals with a key that m cannot open.
Deaf(m) ==
    \E q \in (InRoom \cup {Host}) \ {m} :
        SealKey(ring[q]) \notin OpenKeys(ring[m])

\* noteUndecryptable: a run of unreadable packets makes the member ask.
AskForKey(m) ==
    /\ phase[m] = "in" /\ Deaf(m)
    /\ net' = net \cup {RequestMsg(m)}
    /\ UNCHANGED <<memberVars, ring, hostVars, given>>

\* answerKeyRequest: only members the host knows, and the staged key while a
\* rotation is in flight.
AnswerKeyRequest(m) ==
    LET k == Newest(ring[Host])
    IN  /\ RequestMsg(m) \in net
        /\ ident[m] # 0
        /\ net' = (net \ {RequestMsg(m)}) \cup {GrantMsg(m, ident[m], k)}
        /\ given' = [given EXCEPT ![m] = @ \cup {k}]
        /\ UNCHANGED <<memberVars, ring, hostVars>>

\* Faulty variant: a late grant is taken up whatever its epoch.
InstallKeyGrant_AnyEpoch(m) ==
    \E p \in net :
        /\ p.type = "grant" /\ p.to = m /\ p.stay = stay[m]
        /\ phase[m] = "in" /\ m \in hostKnown
        /\ ring' = [ring EXCEPT ![m] = NewRing(p.key)]
        /\ net' = net \ {p}
        /\ UNCHANGED <<memberVars, hostVars, given>>

\* installKeyGrant: a newer key is staged and promoted at once.
InstallKeyGrant(m) ==
    \E p \in net :
        /\ p.type = "grant" /\ p.to = m /\ p.stay = stay[m]
        /\ phase[m] = "in" /\ m \in hostKnown
        /\ ring' = IF p.key.epoch > ring[m].cur.epoch
                   THEN [ring EXCEPT ![m] = Promote(Stage(@, p.key))]
                   ELSE ring
        /\ net' = net \ {p}
        /\ UNCHANGED <<memberVars, hostVars, given>>

\* PreviousKeyGrace passed since the last promotion.
GraceLapses(n) ==
    /\ <<n, ring[n].cur.epoch>> \in Lapses /\ ring[n].prev # NoKey
    /\ ring' = [ring EXCEPT ![n] = Lapse(@)]
    /\ UNCHANGED <<memberVars, hostVars, net, given>>

-----------------------------------------------------------------------------
MemberStep(m) ==
    \/ CompleteJoin(m) \/ GiveUpJoin(m)
    \/ Leave(m) \/ HandleKick(m) \/ TimeOutHost(m)
    \/ HandleRekey(m) \/ PromoteStaged(m)
    \/ AskForKey(m) \/ InstallKeyGrant(m)

HostStep(m) ==
    \/ Admit(m) \/ ExpireSession(m) \/ Register(m)
    \/ HandleLeave(m) \/ TimeOutMember(m) \/ Kick(m)
    \/ HandleAck(m) \/ AnswerKeyRequest(m)

Next ==
    \/ \E m \in Members : MemberStep(m) \/ HostStep(m)
    \/ RotatePort \/ RotateOnTimer \/ RotateOnRemoval \/ RekeyAttempt \/ FinishRotation
    \/ \E n \in Nodes : GraceLapses(n)

Spec == Init /\ [][Next]_vars

\* Timers fire and goroutines run; a member that stays deaf keeps asking every
\* keyRequestInterval, so a request, its answer and the grant get through in
\* the end.  Nothing is assumed of rekeys, acks, leaves and kicks: all of them
\* may be lost.
Fairness ==
    /\ WF_vars(RotateOnTimer) /\ WF_vars(RotateOnRemoval)
    /\ WF_vars(RekeyAttempt) /\ WF_vars(FinishRotation)
    /\ \A m \in Members :
          /\ WF_vars(PromoteStaged(m))
          /\ WF_vars(AskForKey(m))
          /\ WF_vars(AnswerKeyRequest(m))
          /\ WF_vars(InstallKeyGrant(m))

FairSpec == Spec /\ Fairness

-----------------------------------------------------------------------------
(* Properties                                                              *)

\* No timer, goroutine or retry loop of a rotation is outstanding.
Idle == ~rot.live /\ ~due /\ spawned = 0

\* Staged keys are newer and previous keys older than the active one, whatever
\* the order in which rekeys, grants and promotion timers arrive
\* (Keyring.Stage and Keyring.Promote as used by handshake.go and
\* keyrecovery.go).
RingsOrdered == \A n \in Nodes : Ordered(ring[n])

\* Once the host has nothing left to do, the room is not sealed with a key
\* that was ever sealed for a member the host dropped: every way of dropping
\* a member leads to a rotation without it, also while another rotation runs
\* or a timer is stopped ("departed members cannot read it").
DepartedCannotFollow ==
    Idle => \A m \in Members :
              ident[m] = 0 => SealKey(ring[Host]) \notin given[m]

\* An acknowledgement can be relied on: when the rotation is over and the
\* member's own timers have fired, a member counted as having acknowledged
\* seals with the same key as the host.
AckedMembersAgree ==
    \A m \in rot.acked :
        (/\ ~rot.live
         /\ phase[m] = "in" /\ stay[m] = rot.to[m]
         /\ timers[m] = {})
        => SealKey(ring[m]) = SealKey(ring[Host])

\* Nobody goes back to an older key while it stays in the room, however late
\* a rekey, a grant or a timer arrives.
EpochsOnlyGrow ==
    [][\A n \in {Host} \cup (InRoom \cap InRoom') :
         ring'[n].cur.epoch >= ring[n].cur.epoch]_vars

\* A member the host still knows, and that still knows the host, ends up able
\* to read the host, even if every rekey sent to it was lost.
TrackedMembersRecover ==
    \A m \in Members :
        <>[]((phase[m] = "in" /\ ident[m] = stay[m] /\ m \in hostKnown)
             => SealKey(ring[Host]) \in OpenKeys(ring[m]))

\* README.md:532, "a missed rotation is recovered by asking the host for the
\* key": a member that cannot read the host, and was not removed, does not
\* stay that way.  The code does not give this: a member cut off for longer
\* than the 45 s time-out is forgotten by the host, forgets the host, or both,
\* and then no request is answered and no grant accepted.
DeafMembersRecover ==
    \A m \in Members :
        (phase[m] = "in" /\ SealKey(ring[Host]) \notin OpenKeys(ring[m]))
        ~> \/ SealKey(ring[Host]) \in OpenKeys(ring[m])
           \/ phase[m] # "in" \/ m \in removed


\* The keys sealed for whom, and the keys the host uses, are those KeyPolicy
\* allows.
Policy == INSTANCE KeyPolicy WITH
    entitled <- {m \in Members : ident[m] # 0},
    holds <- [m \in Members |-> {k.epoch : k \in given[m]}],
    active <- SealKey(ring[Host]).epoch,
    newest <- Newest(ring[Host]).epoch

FollowsKeyPolicy == Policy!Spec
=============================================================================
