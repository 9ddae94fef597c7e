----------------------------- MODULE RelayRoom -----------------------------
(***************************************************************************)
(* One room on the relay server (internal/relay/server.go) and the nodes   *)
(* that keep a connection to it (internal/p2p/relay.go and node.go).       *)
(*                                                                         *)
(* Every connection has a goroutine on the server that takes its signals   *)
(* one after another.  A handler changes the room under the server's lock  *)
(* and sends what it has to say after the lock is released, so handlers of *)
(* different connections, and timers, overtake one another between the     *)
(* two: "out" holds what a goroutine has still to send.                    *)
(*                                                                         *)
(* Connections break at any time and nodes come back on a new one.  The    *)
(* room is unlocked; the password handshake between a joiner and the host  *)
(* is one step; peer_joined and peer_left, which only change the list of   *)
(* peers a node shows, are left out.                                       *)
(***************************************************************************)
EXTENDS Naturals, Sequences, FiniteSets, SequencesExt

CONSTANTS
    Ids,            \* the nodes
    Founder,        \* the node whose room code this is
    Conns,          \* the connections that may be made: pairs of a node and a
                    \* number (bound)
    MaxMembers,     \* MaxRoomMembers
    MaxPending,     \* maxPendingPerRoom
    None

ASSUME RelayRoomAssumption ==
    /\ Founder \in Ids
    /\ Conns \subseteq Ids \X (Nat \ {0})
    /\ MaxMembers \in Nat \ {0}
    /\ MaxPending \in Nat \ {0}
    /\ None \notin Ids \cup Conns

Owner(c) == c[1]

\* The goroutines of the server: one for every connection, and the grace timer
\* of every member.
Threads == Conns \cup Ids

VARIABLES
    \* the room
    exists,     \* the relay has a room of this code
    hostID, hostToken,
    members, order,
    client,     \* the connection of a member, None within its grace period
    token,      \* number of the last member token made for an ID
    pending,    \* the connection that waits to be admitted under an ID
    grace,      \* IDs whose grace timer runs
    \* connections
    link,       \* unused, open, shut by the node, cut, or done with
    roomOf,     \* connections with roomCode set
    pendOf,     \* connections with pendingRoom set
    up,         \* signals on their way to the relay
    down,       \* signals on their way to the node
    out,        \* notices a goroutine has still to send
    \* the nodes
    node

roomVars == <<exists, hostID, hostToken, members, order, client, token, pending,
              grace>>
connVars == <<link, roomOf, pendOf>>
vars == <<roomVars, connVars, up, down, out, node>>

\* A node that is in no room; "action" is what its connection was started for,
\* "asked" the host that answered its join request.
Idle == [state |-> "out", isHost |-> FALSE, hostToken |-> 0,
         memberToken |-> 0, action |-> "join", conn |-> None, asked |-> None]

\* No room, and nobody has asked for one.
Fresh ==
    /\ exists = FALSE /\ hostID = None /\ hostToken = 0
    /\ members = {} /\ order = <<>>
    /\ client = [i \in Ids |-> None]
    /\ token = [i \in Ids |-> 0]
    /\ pending = [i \in Ids |-> None]
    /\ grace = {}
    /\ roomOf = {} /\ pendOf = {}
    /\ up = [c \in Conns |-> <<>>]
    /\ down = [c \in Conns |-> <<>>]
    /\ out = [g \in Threads |-> {}]
    /\ node = [i \in Ids |-> Idle]

Init == Fresh /\ link = [c \in Conns |-> "unused"]

Signals ==
    [type : {"refused", "inuse", "kicked"}]
    \cup [type : {"created"}, hostToken : Nat, memberToken : Nat]
    \cup [type : {"pending"}, host : Ids]
    \cup [type : {"welcome"}, host : Ids, memberToken : Nat]
    \cup [type : {"newhost"}, host : Ids, hostToken : Nat]

Requests ==
    [type : {"host"}, hostToken : Nat]
    \cup [type : {"join"}, memberToken : Nat]
    \cup [type : {"admit", "reject", "kick"}, who : Ids]
    \cup [type : {"leave"}]

\* Every slot, signal and belief is of the kind the code puts there; what is
\* still to be said is addressed to a connection.
TypeOK ==
    /\ exists \in BOOLEAN
    /\ hostID \in Ids \cup {None} /\ hostToken \in Nat
    /\ members \in SUBSET Ids /\ order \in Seq(Ids)
    /\ client \in [Ids -> Conns \cup {None}]
    /\ token \in [Ids -> Nat]
    /\ pending \in [Ids -> Conns \cup {None}]
    /\ grace \in SUBSET Ids
    /\ link \in [Conns -> {"unused", "open", "shut", "cut", "done"}]
    /\ roomOf \in SUBSET Conns /\ pendOf \in SUBSET Conns
    /\ up \in [Conns -> Seq(Requests)]
    /\ down \in [Conns -> Seq(Signals)]
    /\ out \in [Threads -> SUBSET [to : Conns, sig : Signals]]
    /\ node \in [Ids -> [state : {"out", "joining", "keyed", "in", "moved"},
                         isHost : BOOLEAN, hostToken : Nat, memberToken : Nat,
                         action : {"host", "join"}, conn : Conns \cup {None},
                         asked : Ids \cup {None}]]

-----------------------------------------------------------------------------
(* The room, under the server's lock                                       *)

Online == {i \in members : client[i] # None}
Waiting == {i \in Ids : pending[i] # None}

Notice(c, sig) == [to |-> c, sig |-> sig]
Refused == [type |-> "refused"]     \* rejected, room_full, room_not_found, error
Created(t, m) == [type |-> "created", hostToken |-> t, memberToken |-> m]
Welcome(h, m) == [type |-> "welcome", host |-> h, memberToken |-> m]
NewHost(h, t) == [type |-> "newhost", host |-> h, hostToken |-> t]

\* The place in the join order of the member of S that joined first.
PlaceOf(S) == CHOOSE k \in DOMAIN order :
                  /\ order[k] \in S
                  /\ \A j \in 1 .. (k - 1) : order[j] \notin S

\* The member that joined first among S.
FirstOf(S) == order[PlaceOf(S)]

\* Faulty variant: the member that goes is still in the list.
NextHost_BeforeRemoval(i) ==
    IF Online \ {i} # {} THEN FirstOf(Online \ {i}) ELSE FirstOf(members)

\* Whoever joined first of those connected becomes host, else of those left.
NextHost(i) ==
    IF Online \ {i} # {} THEN FirstOf(Online \ {i}) ELSE FirstOf(members \ {i})

RejectAll == {Notice(pending[j], Refused) : j \in Waiting}

\* Faulty variant: the former host's token stays good.
RemoveMember_KeepToken(g, i, said) ==
    LET left == members \ {i}
        h    == NextHost(i)
    IN  /\ grace' = grace \ {i}
        /\ members' = left
        /\ order' = RemoveAt(order, PlaceOf({i}))
        /\ client' = [client EXCEPT ![i] = None]
        /\ IF left = {}
           THEN UNCHANGED <<hostID, hostToken>>
           ELSE /\ hostID' = IF hostID = i THEN h ELSE hostID
                /\ UNCHANGED hostToken
        /\ IF left = {} \/ hostID = i
           THEN /\ pending' = [j \in Ids |-> None]
                /\ pendOf' = pendOf \ {pending[j] : j \in Ids}
           ELSE UNCHANGED <<pending, pendOf>>
        /\ out' = [out EXCEPT ![g] = said
                     \cup (IF left = {} \/ hostID = i THEN RejectAll ELSE {})
                     \cup (IF left # {} /\ hostID = i
                           THEN {Notice(client[j], NewHost(h,
                                    IF j = h THEN hostToken' ELSE 0)) :
                                 j \in Online \ {i}}
                           ELSE {})]
        /\ UNCHANGED <<exists, token>>

\* removeMemberLocked, by goroutine g, which also says what is in "said".  With
\* the last member the room is kept for a grace period; with its host it gets
\* a new one and a new token.
RemoveMember(g, i, said) ==
    LET left == members \ {i}
        h    == NextHost(i)
    IN  /\ grace' = grace \ {i}
        /\ members' = left
        /\ order' = RemoveAt(order, PlaceOf({i}))
        /\ client' = [client EXCEPT ![i] = None]
        /\ IF left = {}
           THEN UNCHANGED <<hostID, hostToken>>
           ELSE /\ hostID' = IF hostID = i THEN h ELSE hostID
                /\ hostToken' = IF hostID = i THEN hostToken + 1 ELSE hostToken
        /\ IF left = {} \/ hostID = i
           THEN /\ pending' = [j \in Ids |-> None]
                /\ pendOf' = pendOf \ {pending[j] : j \in Ids}
           ELSE UNCHANGED <<pending, pendOf>>
        /\ out' = [out EXCEPT ![g] = said
                     \cup (IF left = {} \/ hostID = i THEN RejectAll ELSE {})
                     \cup (IF left # {} /\ hostID = i
                           THEN {Notice(client[j], NewHost(h,
                                    IF j = h THEN hostToken' ELSE 0)) :
                                 j \in Online \ {i}}
                           ELSE {})]
        /\ UNCHANGED <<exists, token>>

\* The goroutine of c has a signal to take and nothing left to say.
Takes(c, type) ==
    /\ link[c] \in {"open", "shut"} /\ out[c] = {}
    /\ up[c] # <<>> /\ Head(up[c]).type = type
    /\ up' = [up EXCEPT ![c] = Tail(@)]
    /\ UNCHANGED <<down, node>>

Says(c, notices) == out' = [out EXCEPT ![c] = notices]

\* Faulty variant: the former connection is closed but still in the room.
Attach_OldStaysIn(i, c) ==
    LET old == client[i]
    IN  /\ client' = [client EXCEPT ![i] = c]
        /\ roomOf' = roomOf \cup {c}
        /\ link' = IF old # None /\ link[old] \in {"open", "shut"}
                   THEN [link EXCEPT ![old] = "cut"] ELSE link
        /\ grace' = grace \ {i}

\* c becomes the connection of member i; one it had before is closed.
Attach(i, c) ==
    LET old == client[i]
    IN  /\ client' = [client EXCEPT ![i] = c]
        /\ roomOf' = (roomOf \ {old}) \cup {c}
        /\ link' = IF old # None /\ link[old] \in {"open", "shut"}
                   THEN [link EXCEPT ![old] = "cut"] ELSE link
        /\ grace' = grace \ {i}

-----------------------------------------------------------------------------
(* Signals at the relay                                                    *)

\* hostRoom, no room of that code: the first member is the host.
CreateRoom(c) ==
    LET i == Owner(c)
    IN  /\ Takes(c, "host") /\ ~exists
        /\ exists' = TRUE
        /\ hostID' = i /\ hostToken' = hostToken + 1
        /\ members' = {i} /\ order' = <<i>>
        /\ token' = [token EXCEPT ![i] = @ + 1]
        /\ client' = [client EXCEPT ![i] = c]
        /\ roomOf' = roomOf \cup {c}
        /\ Says(c, {Notice(c, Created(hostToken', token'[i]))})
        /\ UNCHANGED <<pending, grace, link, pendOf>>

\* hostRoom with the host token: the host takes its room back.
ReclaimRoom(c) ==
    LET i == Owner(c)
    IN  /\ Takes(c, "host") /\ exists
        /\ Head(up[c]).hostToken = hostToken
        /\ IF i \in members
           THEN UNCHANGED <<members, order, token>>
           ELSE /\ members' = members \cup {i}
                /\ order' = Append(order, i)
                /\ token' = [token EXCEPT ![i] = @ + 1]
        /\ Attach(i, c)
        /\ hostID' = i
        /\ Says(c, {Notice(c, Created(hostToken, token'[i]))})
        /\ UNCHANGED <<exists, hostToken, pending, pendOf>>

\* hostRoom without it: ROOM_IN_USE.
RefuseHost(c) ==
    /\ Takes(c, "host") /\ exists
    /\ Head(up[c]).hostToken # hostToken
    /\ Says(c, {Notice(c, [type |-> "inuse"])})
    /\ UNCHANGED <<roomVars, connVars>>

\* joinRoom of a member, with the token that proves it was admitted.
Rejoin(c) ==
    LET i == Owner(c)
    IN  /\ Takes(c, "join") /\ exists
        /\ i \in members /\ Head(up[c]).memberToken = token[i]
        /\ Attach(i, c)
        /\ Says(c, {Notice(c, Welcome(hostID, token[i]))})
        /\ UNCHANGED <<exists, hostID, hostToken, members, order, token, pending,
                       pendOf>>

HostOnline == hostID \in members /\ client[hostID] # None

\* joinRoom of a newcomer: it waits for the host.
RequestJoin(c) ==
    LET i   == Owner(c)
        old == pending[i]
    IN  /\ Takes(c, "join") /\ exists
        /\ i \notin members /\ HostOnline
        /\ Cardinality(members) < MaxMembers
        /\ Cardinality(Waiting) < MaxPending
        /\ pending' = [pending EXCEPT ![i] = c]
        /\ pendOf' = (pendOf \ {old}) \cup {c}
        /\ link' = IF old # None /\ link[old] \in {"open", "shut"}
                   THEN [link EXCEPT ![old] = "cut"] ELSE link
        /\ Says(c, {Notice(c, [type |-> "pending", host |-> hostID])})
        /\ UNCHANGED <<exists, hostID, hostToken, members, order, client, token,
                       grace, roomOf>>

\* joinRoom refused: no room, a member's ID without its token, room full, host
\* offline, too many requests.
RefuseJoin(c) ==
    LET i == Owner(c)
    IN  /\ Takes(c, "join")
        /\ \/ ~exists
           \/ /\ i \in members
              /\ Head(up[c]).memberToken # token[i]
           \/ /\ i \notin members
              /\ \/ ~HostOnline
                 \/ Cardinality(members) >= MaxMembers
                 \/ Cardinality(Waiting) >= MaxPending
        /\ Says(c, {Notice(c, Refused)})
        /\ UNCHANGED <<roomVars, connVars>>

ByHost(c) == c \in roomOf /\ hostID = Owner(c)

\* Faulty variant: the room is not counted again.
Admit_NoRecheck(c) ==
    LET j == Head(up[c]).who
        d == pending[j]
    IN  /\ Takes(c, "admit") /\ ByHost(c) /\ d # None
        /\ pending' = [pending EXCEPT ![j] = None]
        /\ pendOf' = pendOf \ {d}
        /\ members' = members \cup {j}
        /\ order' = Append(order, j)
        /\ client' = [client EXCEPT ![j] = d]
        /\ token' = [token EXCEPT ![j] = @ + 1]
        /\ roomOf' = roomOf \cup {d}
        /\ Says(c, {Notice(d, Welcome(hostID, token'[j]))})
        /\ UNCHANGED <<exists, hostID, hostToken, grace, link>>

\* admit: a pending joiner becomes a member, unless the room filled meanwhile.
Admit(c) ==
    LET j == Head(up[c]).who
        d == pending[j]
    IN  /\ Takes(c, "admit") /\ ByHost(c) /\ d # None
        /\ pending' = [pending EXCEPT ![j] = None]
        /\ pendOf' = pendOf \ {d}
        /\ IF Cardinality(members) >= MaxMembers
           THEN /\ Says(c, {Notice(d, Refused)})
                /\ UNCHANGED <<members, order, client, token, roomOf>>
           ELSE /\ members' = members \cup {j}
                /\ order' = Append(order, j)
                /\ client' = [client EXCEPT ![j] = d]
                /\ token' = [token EXCEPT ![j] = @ + 1]
                /\ roomOf' = roomOf \cup {d}
                /\ Says(c, {Notice(d, Welcome(hostID, token'[j]))})
        /\ UNCHANGED <<exists, hostID, hostToken, grace, link>>

\* reject: the host turns a pending joiner away.
Reject(c) ==
    LET j == Head(up[c]).who
        d == pending[j]
    IN  /\ Takes(c, "reject") /\ ByHost(c) /\ d # None
        /\ pending' = [pending EXCEPT ![j] = None]
        /\ pendOf' = pendOf \ {d}
        /\ Says(c, {Notice(d, Refused)})
        /\ UNCHANGED <<exists, hostID, hostToken, members, order, client, token,
                       grace, link, roomOf>>

\* Faulty variant: a member without a connection is told as well.
Kick_TellAnyone(c) ==
    LET j == Head(up[c]).who
        d == client[j]
    IN  /\ Takes(c, "kick") /\ ByHost(c) /\ j # Owner(c) /\ j \in members
        /\ roomOf' = roomOf \ {d}
        /\ RemoveMember(c, j, {Notice(d, [type |-> "kicked"])})
        /\ UNCHANGED link

\* kick: the host removes another member; its connection stays open.
Kick(c) ==
    LET j == Head(up[c]).who
        d == client[j]
    IN  /\ Takes(c, "kick") /\ ByHost(c) /\ j # Owner(c) /\ j \in members
        /\ roomOf' = roomOf \ {d}
        /\ RemoveMember(c, j, IF d # None THEN {Notice(d, [type |-> "kicked"])}
                              ELSE {})
        /\ UNCHANGED link

\* What is not the host's to ask, or has nobody to act on, is ignored.
Ignore(c) ==
    LET s == Head(up[c])
    IN  /\ \/ /\ Takes(c, "admit") \/ Takes(c, "reject")
              /\ ByHost(c) => pending[s.who] = None
           \/ /\ Takes(c, "kick")
              /\ ByHost(c) => s.who \notin members \ {Owner(c)}
        /\ UNCHANGED <<roomVars, connVars, out>>

\* Faulty variant: the host's slot is kept without a timer.
Detach_HostWaits(c, explicit) ==
    LET i == Owner(c)
    IN  /\ roomOf' = roomOf \ {c}
        /\ IF c \in roomOf /\ i \in members /\ client[i] = c
           THEN IF explicit
                THEN RemoveMember(c, i, {})
                ELSE /\ client' = [client EXCEPT ![i] = None]
                     /\ grace' = IF i = hostID THEN grace ELSE grace \cup {i}
                     /\ UNCHANGED <<exists, hostID, hostToken, members, order,
                                    token, pending, pendOf, out>>
           ELSE /\ pendOf' = pendOf \ {c}
                /\ pending' = IF c \in pendOf /\ pending[i] = c
                              THEN [pending EXCEPT ![i] = None] ELSE pending
                /\ UNCHANGED <<exists, hostID, hostToken, members, order, client,
                               token, grace, out>>

\* detachLocked: c gives up the request or the slot it has.  One that leaves
\* is removed at once, one that lost its connection keeps its slot for the
\* grace period.
Detach(c, explicit) ==
    LET i == Owner(c)
    IN  /\ roomOf' = roomOf \ {c}
        /\ IF c \in roomOf /\ i \in members /\ client[i] = c
           THEN IF explicit
                THEN RemoveMember(c, i, {})
                ELSE /\ client' = [client EXCEPT ![i] = None]
                     /\ grace' = grace \cup {i}
                     /\ UNCHANGED <<exists, hostID, hostToken, members, order,
                                    token, pending, pendOf, out>>
           ELSE /\ pendOf' = pendOf \ {c}
                /\ pending' = IF c \in pendOf /\ pending[i] = c
                              THEN [pending EXCEPT ![i] = None] ELSE pending
                /\ UNCHANGED <<exists, hostID, hostToken, members, order, client,
                               token, grace, out>>

\* leave.
Leave(c) ==
    /\ Takes(c, "leave")
    /\ Detach(c, TRUE)
    /\ UNCHANGED link

\* onDisconnect: the goroutine of c read all there was to read.
Disconnect(c) ==
    /\ out[c] = {}
    /\ \/ link[c] = "cut"
       \/ link[c] = "shut" /\ up[c] = <<>>
    /\ link' = [link EXCEPT ![c] = "done"]
    /\ up' = [up EXCEPT ![c] = <<>>]
    /\ down' = [down EXCEPT ![c] = <<>>]
    /\ Detach(c, FALSE)
    /\ UNCHANGED node

\* sendSignal: a notice is put on the queue of a connection that is open.
Send(g) ==
    \E n \in out[g] :
        /\ out' = [out EXCEPT ![g] = @ \ {n}]
        /\ down' = IF link[n.to] = "open"
                   THEN [down EXCEPT ![n.to] = Append(@, n.sig)] ELSE down
        /\ UNCHANGED <<roomVars, connVars, up, node>>

-----------------------------------------------------------------------------
(* Timers of the relay                                                     *)

\* The grace timer of i: i is removed if it is still disconnected.  Stopping the
\* timer may come too late; that a member which is disconnected a second time
\* is then removed by the first timer is covered, since its own may fire at any
\* time too.
GraceEnds(i) ==
    /\ i \in grace /\ out[i] = {}
    /\ IF i \in members /\ client[i] = None
       THEN RemoveMember(i, i, {})
       ELSE /\ grace' = grace \ {i}
            /\ UNCHANGED <<exists, hostID, hostToken, members, order, client,
                           token, pending, pendOf, out>>
    /\ UNCHANGED <<link, roomOf, up, down, node>>

\* PendingTimeout: a request the host did not answer is turned down.  A node
\* makes one request in a connection, so the timer is the one of this request.
RequestExpires(c) ==
    /\ pending[Owner(c)] = c /\ out[c] = {}
    /\ pending' = [pending EXCEPT ![Owner(c)] = None]
    /\ pendOf' = pendOf \ {c}
    /\ Says(c, {Notice(c, Refused)})
    /\ UNCHANGED <<exists, hostID, hostToken, members, order, client, token,
                   grace, link, roomOf, up, down, node>>

\* A room that is empty is closed by the timer started when it became empty, or
\* by one left from an earlier time it was.
CloseRoom ==
    /\ exists /\ members = {}
    /\ exists' = FALSE
    /\ UNCHANGED <<hostID, hostToken, members, order, client, token, pending,
                   grace, connVars, up, down, out, node>>

-----------------------------------------------------------------------------
(* The nodes                                                               *)

Connected(i) == node[i].conn # None /\ link[node[i].conn] = "open"

serverVars == <<roomVars, roomOf, pendOf, out>>

\* The node closes its connection after sending "last".
Shut(i, last) ==
    IF Connected(i)
    THEN /\ link' = [link EXCEPT ![node[i].conn] = "shut"]
         /\ up' = [up EXCEPT ![node[i].conn] = @ \o last]
         /\ down' = [down EXCEPT ![node[i].conn] = <<>>]
    ELSE UNCHANGED <<link, up, down>>

\* HostRoom.
StartHost(i) ==
    /\ i = Founder /\ node[i].state = "out"
    /\ node' = [node EXCEPT ![i] =
                  [Idle EXCEPT !.state = "in", !.isHost = TRUE, !.action = "host",
                               !.hostToken = node[i].hostToken]]
    /\ Shut(i, <<>>)
    /\ UNCHANGED serverVars

\* RequestJoinRoom: a connection left over from an earlier attempt is closed.
StartJoin(i) ==
    /\ node[i].state = "out"
    /\ node' = [node EXCEPT ![i] =
                  [Idle EXCEPT !.state = "joining",
                               !.hostToken = node[i].hostToken]]
    /\ Shut(i, <<>>)
    /\ UNCHANGED serverVars

\* relayConnectionSupervisor: a new connection, in which the node hosts, joins
\* or comes back.
Connect(i) ==
    /\ node[i].state \in {"joining", "keyed", "in"}
    /\ node[i].conn # None => link[node[i].conn] \in {"cut", "done"}
    /\ \E c \in Conns :
          /\ Owner(c) = i /\ link[c] = "unused"
          /\ \A d \in Conns : Owner(d) = i /\ d[2] < c[2] => link[d] # "unused"
          /\ link' = [link EXCEPT ![c] = "open"]
          /\ node' = [node EXCEPT ![i].conn = c]
          /\ up' = [up EXCEPT ![c] =
                <<IF node[i].action = "host" \/ node[i].isHost
                  THEN [type |-> "host", hostToken |-> node[i].hostToken]
                  ELSE [type |-> "join", memberToken |-> node[i].memberToken]>>]
    /\ UNCHANGED <<serverVars, down>>

\* LeaveRoom.
LeaveRoom(i) ==
    /\ node' = [node EXCEPT ![i] = Idle]
    /\ Shut(i, <<[type |-> "leave"]>>)

GoAway(i) ==
    /\ node[i].state = "in"
    /\ LeaveRoom(i)
    /\ UNCHANGED serverVars

\* CancelJoin, also when the join times out: the attempt is forgotten, the
\* connection to the relay stays open.
CancelJoin(i) ==
    /\ node[i].state \in {"joining", "keyed"}
    /\ node' = [node EXCEPT ![i].state = "out", ![i].asked = None]
    /\ UNCHANGED <<serverVars, link, up, down>>

\* failJoin does nothing to a node that is in the room.
FailJoin(i) ==
    IF node[i].state \in {"joining", "keyed"}
    THEN /\ node' = [node EXCEPT ![i] = [Idle EXCEPT
                                          !.hostToken = node[i].hostToken]]
         /\ Shut(i, <<[type |-> "leave"]>>)
    ELSE /\ down' = [down EXCEPT ![node[i].conn] = Tail(@)]
         /\ UNCHANGED <<node, link, up>>

\* The handshake of a joiner with the host, through the relay: the joiner gets
\* the group key and the host asks for its admission, or the host asks for its
\* rejection, of which the joiner may learn from the host before.
Handshake(h, i) ==
    LET c == node[h].conn
        d == node[i].conn
        Asks(type) == Append(up[c], [type |-> type, who |-> i])
    IN  /\ node[h].state = "in" /\ node[h].isHost /\ Connected(h)
        /\ node[i].state = "joining" /\ node[i].asked = h /\ Connected(i)
        /\ hostID = h /\ c \in roomOf /\ pending[i] = d
        /\ \/ /\ node' = [node EXCEPT ![i].state = "keyed"]
              /\ up' = [up EXCEPT ![c] = Asks("admit")]
              /\ UNCHANGED <<link, down>>
           \/ /\ node' = [node EXCEPT ![i].asked = None]
              /\ up' = [up EXCEPT ![c] = Asks("reject")]
              /\ UNCHANGED <<link, down>>
           \/ /\ node' = [node EXCEPT ![i] = [Idle EXCEPT
                                                !.hostToken = node[i].hostToken]]
              /\ link' = [link EXCEPT ![d] = "shut"]
              /\ up' = [up EXCEPT ![c] = Asks("reject"),
                                  ![d] = Append(up[d], [type |-> "leave"])]
              /\ down' = [down EXCEPT ![d] = <<>>]
        /\ UNCHANGED serverVars

\* KickMember, as far as the relay hears of it.  A peer that is no member of the
\* room can be named too, to no effect.  Bound: nothing else is on its way from
\* this node.
KickMember(h, j) ==
    /\ node[h].state = "in" /\ node[h].isHost /\ Connected(h)
    /\ j # h /\ j \in members
    /\ up[node[h].conn] = <<>>
    /\ up' = [up EXCEPT ![node[h].conn] = <<[type |-> "kick", who |-> j]>>]
    /\ UNCHANGED <<serverVars, link, down, node>>

\* handleRelaySignal.
Receive(i) ==
    LET c == node[i].conn
        n == node[i]
        s == Head(down[c])
        Becomes(m) == /\ node' = [node EXCEPT ![i] = m]
                      /\ down' = [down EXCEPT ![c] = Tail(@)]
                      /\ UNCHANGED <<link, up>>
    IN  /\ Connected(i) /\ down[c] # <<>>
        /\ UNCHANGED serverVars
        /\ \/ /\ s.type = "pending"
              /\ Becomes(IF n.state = "joining" THEN [n EXCEPT !.asked = s.host]
                         ELSE n)
           \/ /\ s.type = "created"
              /\ Becomes([n EXCEPT !.hostToken = s.hostToken,
                                   !.memberToken = s.memberToken])
           \/ /\ s.type = "welcome"
              /\ \/ /\ n.state = "keyed"
                    /\ Becomes([n EXCEPT !.memberToken = s.memberToken,
                                         !.state = "in", !.isHost = FALSE])
                 \/ /\ n.state = "joining"
                    /\ FailJoin(i)
                 \/ /\ n.state \notin {"joining", "keyed"}
                    /\ Becomes([n EXCEPT !.memberToken = s.memberToken])
           \/ /\ s.type = "newhost"
              /\ Becomes([n EXCEPT !.isHost = (s.host = i),
                                   !.hostToken = IF s.host = i /\ s.hostToken # 0
                                                 THEN s.hostToken ELSE @])
           \/ /\ s.type = "inuse"
              /\ IF n.state = "in" /\ n.isHost
                 THEN /\ node' = [node EXCEPT ![i] = [Idle EXCEPT !.state = "moved"]]
                      /\ Shut(i, <<>>)
                 ELSE FailJoin(i)
           \/ /\ s.type = "kicked"
              /\ IF n.state = "in" THEN LeaveRoom(i) ELSE Becomes(n)
           \/ /\ s.type = "refused"
              /\ FailJoin(i)

-----------------------------------------------------------------------------
\* The network under a connection goes away.
Cut(c) ==
    /\ link[c] \in {"open", "shut"}
    /\ link' = [link EXCEPT ![c] = "cut"]
    /\ up' = [up EXCEPT ![c] = <<>>]
    /\ down' = [down EXCEPT ![c] = <<>>]
    /\ UNCHANGED <<serverVars, node>>

HandleSignal(c) ==
    \/ CreateRoom(c) \/ ReclaimRoom(c) \/ RefuseHost(c)
    \/ Rejoin(c) \/ RequestJoin(c) \/ RefuseJoin(c)
    \/ Admit(c) \/ Reject(c) \/ Kick(c) \/ Ignore(c) \/ Leave(c)

ServerStep ==
    \/ \E c \in Conns : HandleSignal(c) \/ Disconnect(c) \/ RequestExpires(c)
    \/ \E i \in Ids : GraceEnds(i)
    \/ \E g \in Threads : Send(g)
    \/ CloseRoom

NodeStep(i) ==
    \/ StartHost(i) \/ StartJoin(i) \/ Connect(i)
    \/ GoAway(i) \/ CancelJoin(i) \/ Receive(i)
    \/ \E j \in Ids : Handshake(i, j) \/ KickMember(i, j)

Next == ServerStep \/ (\E i \in Ids : NodeStep(i)) \/ (\E c \in Conns : Cut(c))

Spec == Init /\ [][Next]_vars

\* The goroutines and the timers of the relay run: as long as one of them has
\* something to do, one of them does it.  Of the nodes and of the network nothing
\* is assumed.
Goroutines ==
    \/ \E c \in Conns : HandleSignal(c) \/ Disconnect(c)
    \/ \E g \in Threads : Send(g)
Timers == CloseRoom \/ \E i \in Ids : GraceEnds(i)

Fairness == WF_vars(Goroutines) /\ WF_vars(Timers)

FairSpec == Spec /\ Fairness

-----------------------------------------------------------------------------
(* Properties                                                              *)

Signal(type) == {n \in UNION {out[g] : g \in Threads} : n.sig.type = type}

\* Whoever knows the current host token, or is about to be told, is the host:
\* a former host cannot take the room back (TestHostReclaimAndHijackPrevention).
TokenIsTheHosts ==
    exists =>
        /\ \A i \in Ids : node[i].hostToken = hostToken => i = hostID
        /\ \A n \in Signal("created") \cup Signal("newhost") :
              n.sig.hostToken = hostToken => Owner(n.to) = hostID
        /\ \A c \in Conns : \A k \in DOMAIN down[c] :
              (/\ down[c][k].type \in {"created", "newhost"}
               /\ down[c][k].hostToken = hostToken) => Owner(c) = hostID

\* The room and the connections agree on who is in it: the join order lists
\* every member once, an inhabited room has one of its members as host, a
\* connection holds a slot or a request if and only if the room gives that slot
\* or request to it, and no connection the server is done with holds one.
RoomIsConsistent ==
    /\ Len(order) = Cardinality(members)
    /\ members = {order[k] : k \in DOMAIN order}
    /\ members # {} => exists /\ hostID \in members
    /\ {client[i] : i \in Ids} \ {None} = roomOf
    /\ {pending[i] : i \in Ids} \ {None} = pendOf
    /\ \A i \in Ids : /\ client[i] # None => i \in members /\ Owner(client[i]) = i
                      /\ pending[i] # None => /\ i \notin members
                                              /\ Owner(pending[i]) = i
    /\ \A c \in roomOf \cup pendOf : link[c] # "done"

\* A member without a connection has a timer that will remove it
\* (detachLocked, "keeps its slot for the grace period").
GraceIsLimited == members \ Online \subseteq grace

\* The room never has more members than allowed, however requests, approvals
\* and returning hosts come together.
RoomFits == Cardinality(members) <= MaxMembers

\* A room that everybody left or was cut off from is closed in the end, unless
\* somebody comes back: no slot, grace period or empty room is forgotten.
RoomIsGivenUp == []<>(~exists \/ Online # {})

\* Who is in the room, who is connected, and who is host change as RoomHosting
\* says.
Hosting == INSTANCE RoomHosting WITH open <- exists, online <- Online,
                                     host <- hostID

FollowsRoomHosting == Hosting!Spec

\* README.md:527, the group key is "rotated when ... the host changes", which
\* is up to the new host: once nothing is on its way any more, a connected node
\* that the relay takes for the host takes itself for the host.  The code does
\* not give this: a member elected while it is disconnected is told nothing, and
\* the welcome it gets when it comes back names it as host to no effect.
Settled ==
    /\ \A g \in Threads : out[g] = {}
    /\ \A c \in Conns : link[c] \in {"open", "shut"} =>
                           up[c] = <<>> /\ down[c] = <<>>
NamedHostKnows ==
    (exists /\ Settled /\ HostOnline /\ node[hostID].state = "in"
            /\ client[hostID] = node[hostID].conn /\ Connected(hostID))
    => node[hostID].isHost

\* node.go:602, "CancelJoin cancels any pending join discovery": a node that
\* gave up does not become a member afterwards.  The code does not give this:
\* the request at the relay is not withdrawn and the connection stays open.
CancelledStaysOut ==
    \A i \in Ids :
        ~(/\ node[i].state = "out"
          /\ i \in members /\ client[i] = node[i].conn /\ Connected(i))

\* reconnect_test.go:60, "The host's relay connection dropping must not end the
\* room either: it reclaims the room with its host token": a host is not told
\* that its room code is in use as long as it is the relay's host of that room.
\* The code does not give this: if the connection drops before the token gets
\* to the host, the host comes back without it.
HostReclaimsRoom == node[Founder].state = "moved" => hostID # Founder
=============================================================================
