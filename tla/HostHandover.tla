---------------------------- MODULE HostHandover ----------------------------
(* What happens to a room when its host leaves, perhaps in the middle of a   *)
(* rotation (internal/p2p/node.go, relay.go, handshake.go): a leave that is  *)
(* heard directly makes a member elect the least ID it knows of, the relay   *)
(* names a host of its own, whoever takes itself for the host rotates the    *)
(* group key.  Datagrams may be lost, late or repeated.                      *)
EXTENDS Integers, Sequences, FiniteSets, FiniteSetsExt

CONSTANTS
  Nodes,      \* numbers, compared as the IDs are
  FirstHost,
  Relay,      \* the room is on a relay
  MaxEpoch,   \* bound: epochs
  MaxLeaves,  \* bound: members that leave
  MaxLosses   \* bound: time-outs of members that are still there

HostHandoverAssumption ==
  /\ IsFiniteSet(Nodes) /\ Nodes \subseteq Nat \ {0} /\ FirstHost \in Nodes /\ Relay \in BOOLEAN
  /\ MaxEpoch \in Nat \ {0} /\ {MaxLeaves, MaxLosses} \subseteq Nat

VARIABLES
  in,               \* members of the room
  Peers, memberKeys, departed,
  HostID, IsHost,
  ring,             \* current, staged and previous key
  timers,           \* keys whose promotion timer runs
  rekeyDue,         \* rekeyTimer is set
  rekey,            \* the last rotation: key, recipients, who acknowledged, not finished
  net,              \* datagrams that may still arrive
  leaving,          \* members whose leave has not reached the relay
  batches,          \* what the relay still has to tell each member, by departure
  relayHost,
  losses

roles == <<Peers, memberKeys, departed, HostID, IsHost>>
keys == <<ring, timers, rekeyDue, rekey>>
relay == <<leaving, batches, relayHost>>
vars == <<in, roles, keys, net, relay, losses>>

EmptyKey == [epoch |-> 0, by |-> 0]
Key == [epoch : 1..MaxEpoch, by : Nodes]
FirstKey == [epoch |-> 1, by |-> FirstHost]
NoRotation == [key |-> EmptyKey, to |-> {}, acked |-> {}, live |-> FALSE]
Others(n) == Nodes \ {n}

Init ==
  /\ in = Nodes
  /\ Peers = [n \in Nodes |-> Others(n)] /\ memberKeys = [n \in Nodes |-> Others(n)]
  /\ departed = [n \in Nodes |-> {}]
  /\ HostID = [n \in Nodes |-> FirstHost] /\ IsHost = [n \in Nodes |-> n = FirstHost]
  /\ ring = [n \in Nodes |-> [cur |-> FirstKey, next |-> EmptyKey, prev |-> EmptyKey]]
  /\ timers = {} /\ rekeyDue = {} /\ rekey = [n \in Nodes |-> NoRotation]
  /\ net = {} /\ leaving = {} /\ batches = [n \in Nodes |-> {}] /\ relayHost = FirstHost
  /\ losses = 0

Promoted(r) == IF r.next = EmptyKey THEN r ELSE [cur |-> r.next, next |-> EmptyKey, prev |-> r.cur]
Reads(n, k) == k \in {ring[n].cur, ring[n].next, ring[n].prev}
Send(packets) == net' = net \union packets

-----------------------------------------------------------------------------
(* Leaving *)

\* LeaveRoom: everybody is told, then the relay.  Bound: MaxLeaves, one of them the host.
LeaveRoom(n) ==
  /\ n \in in
  /\ Cardinality(Nodes \ in) < MaxLeaves
  /\ n = relayHost => relayHost = FirstHost /\ FirstHost \in in
  /\ in' = in \ {n}
  /\ Send({[type |-> "leave", from |-> n, to |-> m, seal |-> ring[n].cur] : m \in Peers[n] \intersect memberKeys[n]})
  /\ leaving' = leaving \union {n}
  /\ rekeyDue' = rekeyDue \ {n} /\ timers' = {t \in timers : t[1] # n}
  /\ rekey' = [rekey EXCEPT ![n] = NoRotation]
  /\ batches' = [batches EXCEPT ![n] = {}]
  /\ UNCHANGED <<roles, ring, relayHost, losses>>

\* The relay drops a member, names the next host when it was the host, and tells everybody.
RelayLeave(n) ==
  /\ n \in leaving
  /\ leaving' = leaving \ {n}
  /\ IF ~Relay THEN UNCHANGED <<batches, relayHost>>
     ELSE \E h \in IF n = relayHost /\ in # {} THEN in ELSE {relayHost} :
            /\ relayHost' = h
            /\ batches' = [m \in Nodes |->
                 IF m \notin in THEN {}
                 ELSE batches[m] \union {<<[left |-> n, host |-> 0]>> \o
                        (IF h = relayHost THEN <<>> ELSE <<[left |-> 0, host |-> h]>>)}]
  /\ UNCHANGED <<in, roles, keys, net, losses>>

\* forgetMemberLocked and the removal from Peers.
Forget(n, x) ==
  /\ Peers' = [Peers EXCEPT ![n] = @ \ {x}]
  /\ memberKeys' = [memberKeys EXCEPT ![n] = @ \ {x}]
  /\ departed' = [departed EXCEPT ![n] = @ \union {x}]

ScheduleRekey(n, host) == rekeyDue' = IF host THEN rekeyDue \union {n} ELSE rekeyDue

\* A leave whose proof can be checked; when it is the host's the least ID is elected.
HandleLeave(p) ==
  LET n == p.to
      x == p.from
      elected == Min((Peers[n] \ {x}) \union {n})
  IN /\ p.type = "leave" /\ n \in in /\ Reads(n, p.seal)
     /\ x \in memberKeys[n] /\ x \in Peers[n]
     /\ Forget(n, x)
     /\ IF x = HostID[n]
        THEN HostID' = [HostID EXCEPT ![n] = elected] /\ IsHost' = [IsHost EXCEPT ![n] = elected = n]
        ELSE UNCHANGED <<HostID, IsHost>>
     /\ ScheduleRekey(n, IsHost'[n])
     /\ UNCHANGED <<in, ring, timers, rekey, net, relay, losses>>

\* No packet for 45 s: of a member that left, or that is cut off.
TimeOut(n, x) ==
  /\ n \in in /\ x \in Peers[n]
  /\ IF x \in in THEN losses < MaxLosses /\ losses' = losses + 1 ELSE UNCHANGED losses
  /\ Forget(n, x)
  /\ UNCHANGED <<HostID, IsHost>>
  /\ ScheduleRekey(n, IsHost[n])
  /\ UNCHANGED <<in, ring, timers, rekey, net, relay>>

\* Automatic registration: a packet of a member that is not in the list.
Register(n, x) ==
  /\ n \in in /\ x \in in \ (Peers[n] \union {n})
  /\ Reads(n, ring[x].cur)
  /\ Peers' = [Peers EXCEPT ![n] = @ \union {x}]
  /\ UNCHANGED <<in, memberKeys, departed, HostID, IsHost, keys, net, relay, losses>>

-----------------------------------------------------------------------------
(* The relay's word *)

Told(n, batch) ==
  batches' = [batches EXCEPT ![n] = (@ \ {batch}) \union (IF Len(batch) > 1 THEN {Tail(batch)} ELSE {})]

PeerLeft(n) ==
  \E batch \in batches[n] :
    /\ Head(batch).left # 0
    /\ Told(n, batch)
    /\ IF Head(batch).left \in Peers[n]
       THEN Forget(n, Head(batch).left) /\ ScheduleRekey(n, IsHost[n])
       ELSE UNCHANGED <<Peers, memberKeys, departed, rekeyDue>>
    /\ UNCHANGED <<in, HostID, IsHost, ring, timers, rekey, net, leaving, relayHost, losses>>

\* Faulty: only the new host changes its role
NewHost_OldStays(n) ==
  \E batch \in batches[n] :
    /\ Head(batch).host # 0
    /\ Told(n, batch)
    /\ HostID' = [HostID EXCEPT ![n] = Head(batch).host]
    /\ IsHost' = [IsHost EXCEPT ![n] = @ \/ Head(batch).host = n]
    /\ rekeyDue' = IF Head(batch).host = n THEN rekeyDue \union {n} ELSE rekeyDue
    /\ UNCHANGED <<in, Peers, memberKeys, departed, ring, timers, rekey, net, leaving, relayHost, losses>>

NewHost(n) ==
  \E batch \in batches[n] :
    /\ Head(batch).host # 0
    /\ Told(n, batch)
    /\ HostID' = [HostID EXCEPT ![n] = Head(batch).host]
    /\ IsHost' = [IsHost EXCEPT ![n] = Head(batch).host = n]
    /\ rekeyDue' = IF Head(batch).host = n THEN rekeyDue \union {n} ELSE rekeyDue
    /\ UNCHANGED <<in, Peers, memberKeys, departed, ring, timers, rekey, net, leaving, relayHost, losses>>

-----------------------------------------------------------------------------
(* The key of the new host *)

\* rotateGroupKey, on its timer or because a port hops.
RotateGroupKey(n) ==
  LET newest == IF ring[n].next = EmptyKey THEN ring[n].cur ELSE ring[n].next
      key == [epoch |-> newest.epoch + 1, by |-> n]
      to == Peers[n] \intersect memberKeys[n]
  IN /\ n \in in /\ IsHost[n] /\ newest.epoch < MaxEpoch
     /\ rekeyDue' = rekeyDue \ {n}
     /\ IF to = {}
        THEN /\ ring' = [ring EXCEPT ![n] = Promoted([@ EXCEPT !.next = key])]
             /\ rekey' = [rekey EXCEPT ![n] = [key |-> key, to |-> {}, acked |-> {}, live |-> FALSE]]
             /\ UNCHANGED net
        ELSE /\ ring' = [ring EXCEPT ![n].next = key]
             /\ rekey' = [rekey EXCEPT ![n] = [key |-> key, to |-> to, acked |-> {}, live |-> TRUE]]
             /\ Send({[type |-> "rekey", from |-> n, to |-> m, key |-> key, dir |-> (to \ {m}) \union {n},
                       seal |-> ring[n].cur] : m \in to})
     /\ UNCHANGED <<in, roles, timers, relay, losses>>

\* All have acknowledged, or the attempts ran out.
FinishRotation(n) ==
  /\ n \in in /\ rekey[n].live
  /\ ring' = [ring EXCEPT ![n] = Promoted(@)]
  /\ rekey' = [rekey EXCEPT ![n].live = FALSE]
  /\ UNCHANGED <<in, roles, timers, rekeyDue, net, relay, losses>>

\* What OpenGrant accepts was sealed by the host for this member; it is acknowledged whatever
\* becomes of the key.
HandleRekey(p) ==
  LET n == p.to
      newer == p.key.epoch > ring[n].cur.epoch /\ p.key.epoch > ring[n].next.epoch
  IN /\ p.type = "rekey" /\ n \in in /\ Reads(n, p.seal)
     /\ ~IsHost[n] /\ p.from = HostID[n] /\ p.from \in memberKeys[n]
     /\ IF newer
        THEN /\ ring' = [ring EXCEPT ![n].next = p.key]
             /\ timers' = timers \union {<<n, p.key>>}
             /\ memberKeys' = [memberKeys EXCEPT ![n] = p.dir]
             /\ departed' = [departed EXCEPT ![n] = @ \ p.dir]
        ELSE UNCHANGED <<ring, timers, memberKeys, departed>>
     /\ Send({[type |-> "ack", from |-> n, to |-> p.from, epoch |-> p.key.epoch, seal |-> ring[n].cur]})
     /\ UNCHANGED <<in, Peers, HostID, IsHost, rekeyDue, rekey, relay, losses>>

PromoteStaged(t) ==
  /\ t[1] \in in
  /\ timers' = timers \ {t}
  /\ ring' = [ring EXCEPT ![t[1]] = IF @.next.epoch = t[2].epoch THEN Promoted(@) ELSE @]
  /\ UNCHANGED <<in, roles, rekeyDue, rekey, net, relay, losses>>

HandleRekeyAck(p) ==
  LET n == p.to IN
  /\ p.type = "ack" /\ n \in in /\ Reads(n, p.seal)
  /\ IsHost[n] /\ p.epoch = rekey[n].key.epoch /\ p.from \in rekey[n].to \ rekey[n].acked
  /\ rekey' = [rekey EXCEPT ![n].acked = @ \union {p.from}]
  /\ UNCHANGED <<in, roles, ring, timers, rekeyDue, net, relay, losses>>

Next ==
  \/ \E n \in Nodes :
       \/ LeaveRoom(n) \/ RelayLeave(n) \/ PeerLeft(n) \/ NewHost(n)
       \/ RotateGroupKey(n) \/ FinishRotation(n)
       \/ \E x \in Nodes : TimeOut(n, x) \/ Register(n, x)
  \/ \E p \in net : HandleLeave(p) \/ HandleRekey(p) \/ HandleRekeyAck(p)
  \/ \E t \in timers : PromoteStaged(t)

Spec == Init /\ [][Next]_vars

-----------------------------------------------------------------------------
(* Properties *)

\* Roles, rings and datagrams are what the code can hold.
TypeOK ==
  /\ in \subseteq Nodes /\ leaving \subseteq Nodes \ in /\ relayHost \in Nodes /\ losses \in 0..MaxLosses
  /\ \A n \in Nodes :
       /\ Peers[n] \subseteq Others(n) /\ memberKeys[n] \subseteq Others(n) /\ departed[n] \subseteq Others(n)
       /\ HostID[n] \in Nodes /\ IsHost[n] \in BOOLEAN
       /\ ring[n].cur \in Key /\ {ring[n].next, ring[n].prev} \subseteq Key \union {EmptyKey}
       /\ rekey[n].acked \subseteq rekey[n].to /\ rekey[n].to \subseteq Others(n)
       /\ \A batch \in batches[n] : batch \in Seq([left : Nodes \union {0}, host : Nodes \union {0}])
  /\ timers \subseteq Nodes \X Key /\ rekeyDue \subseteq in
  /\ \A p \in net : p.type \in {"leave", "rekey", "ack"} /\ p.from \in Nodes /\ p.to \in Others(p.from)

\* On a relay the members agree on the host in the end, although they elect one of their own
\* when they hear the leave before the relay does (PacketLeave in node.go, SigNewHost in
\* relay.go): whoever has heard all the relay has to say holds the relay's host for the host,
\* and itself only if it is the one.
HostsAgree ==
  Relay /\ leaving = {} =>
    \A n \in in : batches[n] = {} => HostID[n] = relayHost /\ (IsHost[n] <=> n = relayHost)

\* "a newly elected host rekeys the same way" (README.md:528): a member that acknowledged the
\* rotation of its host has its key.
AckedMembersFollow ==
  \A n \in in : IsHost[n] =>
    \A m \in rekey[n].acked \intersect in :
      HostID[m] = n /\ ring[m].cur.epoch <= rekey[n].key.epoch => Reads(m, rekey[n].key)
=============================================================================
