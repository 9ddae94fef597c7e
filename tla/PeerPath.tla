------------------------------ MODULE PeerPath ------------------------------
(* The direct path between two members of a room (p2p/nat.go, node.go): it   *)
(* opens by hole punching, breaks when a member hops to a new port, and is   *)
(* replaced by the relay meanwhile.  Each member is behind a router that     *)
(* gives a socket one public port and lets in only what comes from an        *)
(* address the socket has sent to.                                           *)
EXTENDS Naturals, Sequences, FiniteSets

CONSTANTS
  Preserving,  \* the routers keep the number of the port
  Talking,     \* the members say something from time to time
  MaxHops,     \* bound: port hops
  MaxLate      \* bound: datagrams that are late

VARIABLES
  port, open,       \* n.Port, the socket in use; sockets still open
  holes,            \* what each router lets in: <<port, public port of the other>>
  learnt,           \* the public port STUN reported, 0 if none
  announcing,       \* hops whose new endpoint is not signalled yet
  signals,          \* port_update signals to each member
  endpoint,         \* peer.Endpoint
  addr, via,        \* peer.Addr, 0 if none; peer.ViaRelay
  recent,           \* peer.LastDirectSeen is less than 3 s ago
  late              \* datagrams under way: a port_hop (new # 0) or older ones; from 0 is the relay

vars == <<port, open, holes, learnt, announcing, signals, endpoint, addr, via, recent, late>>
Members == {"a", "b"}
Other(x) == CHOOSE y \in Members : y # x
Public(p) == IF p = 0 THEN 0 ELSE IF Preserving THEN p ELSE p + 100

\* Members know each other: by their endpoints only, or by a direct path.
Init ==
  /\ port = [x \in Members |-> 1] /\ open = [x \in Members |-> {1}]
  /\ learnt = [x \in Members |-> Public(1)] /\ announcing = [x \in Members |-> 0]
  /\ signals = [x \in Members |-> <<>>] /\ late = {}
  /\ endpoint = [x \in Members |-> Public(1)] /\ addr = endpoint
  /\ \E direct \in BOOLEAN :
       /\ holes = [x \in Members |-> IF direct THEN {<<1, Public(1)>>} ELSE {}]
       /\ via = [x \in Members |-> ~direct] /\ recent = [x \in Members |-> direct]

\* A datagram from the public port `from` to that of `to` gets to y.
GetsTo(y, from, to) == \E p \in open[y] : Public(p) = to /\ <<p, from>> \in holes[y]

Reaches(x) == addr[x] # 0 /\ GetsTo(Other(x), Public(port[x]), addr[x])

-----------------------------------------------------------------------------
(* What a member does with what it hears: handlePacket *)

Direct(y, from) ==
  addr' = [addr EXCEPT ![y] = from] /\ via' = [via EXCEPT ![y] = FALSE] /\ recent' = [recent EXCEPT ![y] = TRUE]

\* Faulty: the relay is no way out once there has been a direct path
Relayed_Never(y) == UNCHANGED <<addr, via, recent>>

Relayed(y) ==
  /\ via' = [via EXCEPT ![y] = @ \/ addr[y] = 0 \/ ~recent[y]]
  /\ UNCHANGED <<addr, recent>>

\* x sends a ping from the socket in use; it is answered from the socket the other uses, to
\* where it came from (that the answer gets there is a ping of the other).
Probe(x, to) ==
  LET y == Other(x)
      from == Public(port[x])
      opened == [holes EXCEPT ![x] = @ \union {<<port[x], to>>}]
  IN IF to # 0 /\ GetsTo(y, from, to)
     THEN Direct(y, from) /\ holes' = [opened EXCEPT ![y] = @ \union {<<port[y], from>>}]
     ELSE holes' = (IF to = 0 THEN holes ELSE opened) /\ UNCHANGED <<addr, via, recent>>

-----------------------------------------------------------------------------
(* Pings, voice and punching *)

\* heartbeatLoop, sendPingToPeer: over the relay if need be, and directly
Ping(x) ==
  /\ Probe(x, addr[x])
  /\ UNCHANGED <<port, open, learnt, announcing, signals, endpoint, late>>

PingRelayed(x) ==
  /\ via[x] \/ addr[x] = 0
  /\ Relayed(Other(x))
  /\ UNCHANGED <<port, open, holes, learnt, announcing, signals, endpoint, late>>

\* sendRedundant: voice goes over the relay whatever the path (and directly, like a ping)
Talk(x) ==
  /\ Talking
  /\ Relayed(Other(x))
  /\ UNCHANGED <<port, open, holes, learnt, announcing, signals, endpoint, late>>

\* A datagram that comes late
Delay(x) ==
  /\ addr[x] # 0 /\ Cardinality(late) < MaxLate
  /\ late' = late \union {[to |-> Other(x), from |-> Public(port[x]), at |-> addr[x], new |-> 0]}
  /\ UNCHANGED <<port, open, holes, learnt, announcing, signals, endpoint, addr, via, recent>>

\* punchPeer, every 15 s and on a new endpoint
punchPeer(x) ==
  /\ via[x] \/ addr[x] = 0
  /\ Probe(x, endpoint[x])
  /\ UNCHANGED <<port, open, learnt, announcing, signals, endpoint, late>>

\* Three seconds without a direct packet.  (That packets of a good path are lost for so long
\* is left out.)
Forget(x) ==
  /\ recent[x] /\ ~Reaches(Other(x))
  /\ recent' = [recent EXCEPT ![x] = FALSE]
  /\ UNCHANGED <<port, open, holes, learnt, announcing, signals, endpoint, addr, via, late>>

-----------------------------------------------------------------------------
(* Hops *)

\* RotatePort: the hop is announced from the new and the old socket and over the relay; each
\* copy may be lost.
RotatePort(x) ==
  LET new == port[x] + 1
      copy(from) == [to |-> Other(x), from |-> from, at |-> addr[x], new |-> new]
      copies == {copy(0)} \union (IF addr[x] = 0 THEN {} ELSE {copy(Public(new)), copy(Public(port[x]))})
  IN
  /\ port["a"] + port["b"] < 2 + MaxHops
  /\ port' = [port EXCEPT ![x] = new] /\ open' = [open EXCEPT ![x] = @ \union {new}]
  /\ learnt' = [learnt EXCEPT ![x] = 0] /\ announcing' = [announcing EXCEPT ![x] = @ + 1]
  /\ holes' = [holes EXCEPT ![x] = IF addr[x] = 0 THEN @ ELSE @ \union {<<new, addr[x]>>, <<port[x], addr[x]>>}]
  /\ \E sent \in SUBSET copies : late' = late \union sent
  /\ UNCHANGED <<signals, endpoint, addr, via, recent>>

\* hopTarget: a direct packet has just made the address it came from the address of the
\* peer, so every copy is taken for one from the old socket and the new port for public.
HopTarget(y, d) == IF d.from = 0 /\ addr[y] = 0 THEN 0 ELSE d.new

Arrive(y) ==
  \E d \in late :
    /\ d.to = y /\ late' = late \ {d}
    /\ IF d.new = 0
       THEN GetsTo(y, d.from, d.at) /\ Direct(y, d.from)
            /\ holes' = [holes EXCEPT ![y] = @ \union {<<port[y], d.from>>}]
       ELSE /\ d.from = 0 \/ GetsTo(y, d.from, d.at)
            /\ addr' = [addr EXCEPT ![y] = HopTarget(y, d)]
            /\ via' = [via EXCEPT ![y] = d.from = 0 /\ (@ \/ addr[y] = 0 \/ ~recent[y])]
            /\ recent' = [recent EXCEPT ![y] = @ \/ d.from # 0]
            /\ holes' = [holes EXCEPT ![y] = IF HopTarget(y, d) = 0 THEN @ ELSE @ \union {<<port[y], HopTarget(y, d)>>}]
    /\ UNCHANGED <<port, open, learnt, announcing, signals, endpoint>>

Lose ==
  \E d \in late : late' = late \ {d}
                  /\ UNCHANGED <<port, open, holes, learnt, announcing, signals, endpoint, addr, via, recent>>

\* Ten seconds after a hop the old socket is closed.
CloseOld(x) ==
  /\ open[x] # {port[x]}
  /\ open' = [open EXCEPT ![x] = {port[x]}]
  /\ holes' = [holes EXCEPT ![x] = {h \in @ : h[1] = port[x]}]
  /\ UNCHANGED <<port, learnt, announcing, signals, endpoint, addr, via, recent, late>>

\* handleSTUNResponse: the other members are told when the answer is a new one.  A round
\* that began before a hop may ask from the old socket after it; the round of the hop follows.
Stun(x) ==
  \E p \in IF learnt[x] = 0 THEN open[x] ELSE {port[x]} :
    /\ learnt[x] # Public(p)
    /\ learnt' = [learnt EXCEPT ![x] = Public(p)]
    /\ signals' = [signals EXCEPT ![Other(x)] = Append(@, Public(p))]
    /\ UNCHANGED <<port, open, holes, announcing, endpoint, addr, via, recent, late>>

\* RotatePort's goroutine, a second later
SignalHop(x) ==
  /\ announcing[x] > 0
  /\ announcing' = [announcing EXCEPT ![x] = @ - 1]
  /\ signals' = [signals EXCEPT ![Other(x)] = Append(@, learnt[x])]
  /\ UNCHANGED <<port, open, holes, learnt, endpoint, addr, via, recent, late>>

\* peer_port_updated: the address of a direct path is left as it is.
PeerPortUpdated(y) ==
  /\ signals[y] # <<>>
  /\ signals' = [signals EXCEPT ![y] = Tail(@)] /\ endpoint' = [endpoint EXCEPT ![y] = Head(signals[y])]
  /\ addr' = [addr EXCEPT ![y] = IF Head(signals[y]) # 0 /\ (via[y] \/ @ = 0) THEN Head(signals[y]) ELSE @]
  /\ UNCHANGED <<port, open, holes, learnt, announcing, via, recent, late>>

Next ==
  \/ \E x \in Members :
       \/ Ping(x) \/ PingRelayed(x) \/ Talk(x) \/ Delay(x) \/ punchPeer(x) \/ Forget(x)
       \/ RotatePort(x) \/ Arrive(x) \/ CloseOld(x) \/ Stun(x) \/ SignalHop(x) \/ PeerPortUpdated(x)
  \/ Lose

Relay(x) == PingRelayed(x) \/ Talk(x)
Signals(x) == Stun(x) \/ SignalHop(x) \/ PeerPortUpdated(x)

\* Timers and goroutines go on; the datagrams of a good path are not all lost, nor are the
\* answers of all STUN servers.
Fairness ==
  \A x \in Members :
    /\ WF_vars(Ping(x)) /\ WF_vars(Relay(x)) /\ WF_vars(punchPeer(x))
    /\ WF_vars(Forget(x)) /\ WF_vars(Signals(x))
Spec == Init /\ [][Next]_vars

-----------------------------------------------------------------------------
(* Properties *)

\* Ports and addresses are those of sockets the members had, or were taken for one.
TypeOK ==
  \A x \in Members :
    /\ port[x] \in open[x] /\ open[x] \subseteq 1..MaxHops + 1
    /\ learnt[x] \in {0} \union {Public(p) : p \in 1..port[x]}
    /\ addr[x] \in {0} \union {Public(p) : p \in 1..port[Other(x)]} \union 1..port[Other(x)]
    /\ announcing[x] <= MaxHops /\ \A h \in holes[x] : h[1] \in open[x]

\* "until punching finds a way again" (hopBlockerLocked): after the last hop both members end
\* up with the direct path to the socket the other uses, however announcements, signals and
\* late packets mixed.
PathRecovers ==
  <>[](\A x \in Members : ~via[x] /\ addr[x] = Public(port[Other(x)]))

=============================================================================
