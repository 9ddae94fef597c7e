---------------------------- MODULE RoomHosting ----------------------------
(***************************************************************************)
(* Who is in a room of the relay and who is its host, as the members of    *)
(* the room may expect it of the server (internal/relay/server.go):        *)
(* without tokens, requests, timers, connections and notices.              *)
(***************************************************************************)
EXTENDS Naturals, Sequences, FiniteSets, SequencesExt

CONSTANTS Ids, MaxMembers

VARIABLES
    open,       \* there is a room of this code
    order,      \* its members, in the order in which they joined
    online,     \* those that are connected
    host

vars == <<open, order, online, host>>

Present == {order[k] : k \in DOMAIN order}

\* The place of the first of S to have joined, and who that is.
Place(S) == CHOOSE k \in DOMAIN order :
                /\ order[k] \in S
                /\ \A j \in 1 .. (k - 1) : order[j] \notin S
Senior(S) == order[Place(S)]

Init == ~open /\ order = <<>> /\ online = {} /\ host \notin Ids

\* Somebody opens the room and is its host.
Open(i) ==
    /\ ~open
    /\ open' = TRUE
    /\ order' = <<i>> /\ online' = {i} /\ host' = i

\* The host comes back to a room that everybody left.
Reopen ==
    /\ open /\ order = <<>>
    /\ order' = <<host>> /\ online' = {host}
    /\ UNCHANGED <<open, host>>

\* Somebody is let in: only while the host is there, and while there is room.
Enter(i) ==
    /\ host \in online /\ i \notin Present /\ Len(order) < MaxMembers
    /\ order' = Append(order, i) /\ online' = online \cup {i}
    /\ UNCHANGED <<open, host>>

\* A member loses its connection and keeps its place and its office.
Drop(i) ==
    /\ i \in online
    /\ online' = online \ {i}
    /\ UNCHANGED <<open, order, host>>

\* It comes back to both.
ComeBack(i) ==
    /\ i \in Present
    /\ online' = online \cup {i}
    /\ UNCHANGED <<open, order, host>>

\* A member goes, on its own, because it stayed away or because the host, then
\* present, removed it.  If it was the host, the senior of those connected is
\* the next, and the senior of all that are left if nobody is connected.
Go(i) ==
    LET left == Present \ {i}
    IN  /\ i \in Present
        /\ order' = RemoveAt(order, Place({i}))
        /\ online' = online \ {i}
        /\ host' = IF host # i \/ left = {} THEN host
                   ELSE IF online' # {} THEN Senior(online') ELSE Senior(left)
        /\ UNCHANGED open

\* An empty room is closed.
Close ==
    /\ open /\ order = <<>>
    /\ open' = FALSE
    /\ UNCHANGED <<order, online, host>>

Next ==
    \/ \E i \in Ids : Open(i) \/ Enter(i) \/ Drop(i) \/ ComeBack(i) \/ Go(i)
    \/ Reopen \/ Close

Spec == Init /\ [][Next]_vars
=============================================================================
