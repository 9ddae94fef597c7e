------------------------------ MODULE Admission ------------------------------
(* How joiners get into a room on the local network (internal/p2p/           *)
(* handshake.go, node.go) or through the relay, with lock, room limit and    *)
(* knock-to-join (app_knock.go).  A joiner proves that it knows the room's   *)
(* words in an exchange of hello, challenge and auth; the host's result      *)
(* carries the group key; on the LAN the joiner then asks to be registered.  *)
(* Frames of the handshake are lost, late or repeated.  A member the host    *)
(* has heard nothing of for some time is dropped and, when it is there after *)
(* all, listed again by its next packet.                                     *)
EXTENDS Naturals, Sequences, FiniteSets, SequencesExt

CONSTANTS
  Joiners,
  Limit,        \* RoomLimit, the host included
  MaxPeers,     \* the most members any room holds, the host included
  MaxSessions,  \* maxJoinSessions
  MaxAttempts,  \* bound: joins of one joiner
  MaxServers,   \* bound: sessions opened
  MaxSwitches   \* bound: switches of the room (lock, knocking)

AdmissionAssumption ==
  /\ IsFiniteSet(Joiners)
  /\ MaxPeers \in Nat /\ Limit \in 1..MaxPeers /\ MaxSessions \in Nat \ {0}
  /\ {MaxAttempts, MaxServers, MaxSwitches} \subseteq Nat

VARIABLES
  relayed,                 \* the room is on a relay
  IsLocked, KnockToJoin, Peers,
  sessions, servers,       \* joinSessions; sessions opened so far
  calls, requests,         \* OnKnock callbacks on their way; the knock queue
  answering,               \* the request taken from the queue and the answer
  net,                     \* frames
  state, attempt, auth,    \* of each joiner; auth: the session it answered
  allowed, forgotten,      \* history: sessions the user let in; knockers of a cleared queue
  members, returned,       \* history: joiners that were let in; those listed again beyond Limit
  switches

host == <<IsLocked, KnockToJoin, Peers, sessions, servers>>
queue == <<calls, requests, answering>>
joiner == <<state, attempt, auth>>
lists == <<members, returned>>
history == <<allowed, forgotten, lists>>
vars == <<relayed, host, queue, net, joiner, history, switches>>

Verdicts == {"ok", "locked", "full", "denied"}
None == {}

Init ==
  /\ relayed \in BOOLEAN
  /\ IsLocked = FALSE /\ KnockToJoin \in BOOLEAN /\ Peers = {} /\ sessions = {} /\ servers = 0
  /\ calls = {} /\ requests = <<>> /\ answering = None /\ net = {}
  /\ state = [j \in Joiners |-> "out"] /\ attempt = [j \in Joiners |-> 0] /\ auth = [j \in Joiners |-> 0]
  /\ allowed = {} /\ forgotten = {} /\ members = {} /\ returned = {} /\ switches = 0

Send(frame) == net' = net \union {frame}
Has(j) == \E s \in sessions : s.of = j
SessionOf(j) == CHOOSE s \in sessions : s.of = j
Without(j) == {s \in sessions : s.of # j}
SetSession(s) == sessions' = Without(s.of) \union {s}
Enter(j) == Peers' = Peers \union {j} /\ members' = members \union {j} /\ UNCHANGED returned
Result(j, s, verdict) == [type |-> "result", of |-> j, attempt |-> s.attempt, server |-> s.server, verdict |-> verdict]

-----------------------------------------------------------------------------
(* The joiner *)

RequestJoinRoom(j) ==
  /\ state[j] = "out" /\ attempt[j] < MaxAttempts
  /\ state' = [state EXCEPT ![j] = "joining"] /\ attempt' = [attempt EXCEPT ![j] = @ + 1]
  /\ auth' = [auth EXCEPT ![j] = 0]
  /\ Send([type |-> "hello", of |-> j, attempt |-> attempt[j] + 1])
  /\ UNCHANGED <<relayed, host, queue, history, switches>>

\* processChallenge: only the first one is answered, and the answer repeated.
ProcessChallenge(f) ==
  /\ f.type = "challenge" /\ state[f.of] = "joining" /\ f.attempt = attempt[f.of] /\ auth[f.of] = 0
  /\ auth' = [auth EXCEPT ![f.of] = f.server]
  /\ Send([type |-> "auth", of |-> f.of, attempt |-> f.attempt, server |-> f.server])
  /\ UNCHANGED <<relayed, host, queue, state, attempt, history, switches>>

\* processResult: a refusal carries no proof of what it answers.
ProcessResult(f) ==
  /\ f.type = "result" /\ state[f.of] = "joining" /\ f.verdict # "waiting"
  /\ f.verdict = "ok" => f.attempt = attempt[f.of] /\ f.server = auth[f.of]
  /\ state' = [state EXCEPT ![f.of] = IF f.verdict = "ok" THEN "keyed" ELSE "out"]
  /\ UNCHANGED <<relayed, host, queue, net, attempt, auth, history, switches>>

\* CancelJoin, the time-out of the join, or a room full or locked at the last moment.
GiveUp(j) ==
  /\ state[j] \in {"joining", "keyed"}
  /\ state' = [state EXCEPT ![j] = "out"]
  /\ UNCHANGED <<relayed, host, queue, net, attempt, auth, history, switches>>

-----------------------------------------------------------------------------
(* The host *)

Fresh(f) == [of |-> f.of, attempt |-> f.attempt, server |-> servers + 1, status |-> "new"]
Challenge(s) == [type |-> "challenge", of |-> s.of, attempt |-> s.attempt, server |-> s.server]

\* Opens session s; when the table is full the oldest one makes way.
Oldest == {s \in sessions : \A t \in sessions : s.server <= t.server}
Open(s) ==
  sessions' = {t \in IF Cardinality(sessions) >= MaxSessions THEN sessions \ Oldest ELSE sessions :
                 t.of # s.of} \union {s}

\* Faulty: a new hello goes on with the verdict of the session it replaces
AcceptHello_KeepsVerdict(f) ==
  LET s == [Fresh(f) EXCEPT !.status = IF Has(f.of) THEN SessionOf(f.of).status ELSE "new"]
  IN /\ f.type = "hello"
     /\ IF Has(f.of) /\ SessionOf(f.of).attempt = f.attempt
        THEN Send(Challenge(SessionOf(f.of))) /\ UNCHANGED <<sessions, servers>>
        ELSE /\ servers < MaxServers /\ servers' = servers + 1
             /\ Open(s) /\ Send(Challenge(s))
     /\ UNCHANGED <<relayed, IsLocked, KnockToJoin, Peers, queue, joiner, history, switches>>

\* acceptHello: a repeated hello gets the challenge again, another one a new session.
AcceptHello(f) ==
  /\ f.type = "hello"
  /\ IF Has(f.of) /\ SessionOf(f.of).attempt = f.attempt
     THEN Send(Challenge(SessionOf(f.of))) /\ UNCHANGED <<sessions, servers>>
     ELSE /\ servers < MaxServers /\ servers' = servers + 1
          /\ Open(Fresh(f)) /\ Send(Challenge(Fresh(f)))
  /\ UNCHANGED <<relayed, IsLocked, KnockToJoin, Peers, queue, joiner, history, switches>>

\* decideAdmissionLocked
Verdict ==
  IF IsLocked THEN "locked" ELSE IF Cardinality(Peers) >= Limit - 1 THEN "full" ELSE "ok"

\* What the relay does with the host's verdict: it admits the joiner and tells the host, which
\* lists it as a peer.
Admitted(j, verdict) ==
  IF relayed /\ verdict = "ok" /\ state[j] \in {"joining", "keyed"}
  THEN Enter(j)
  ELSE UNCHANGED <<Peers, lists>>

\* processAuth: a repeated one gets the same result; one for another session fails.
ProcessAuth(f) ==
  LET s == SessionOf(f.of)
      verdict == IF Verdict = "ok" /\ KnockToJoin THEN "waiting" ELSE Verdict
  IN /\ f.type = "auth" /\ Has(f.of)
     /\ \/ /\ f.server = s.server /\ s.status # "new"
           /\ Send(Result(f.of, s, s.status))
           /\ UNCHANGED <<sessions, calls, Peers, lists>>
        \/ /\ f.server # s.server
           /\ sessions' = Without(f.of)
           /\ UNCHANGED <<net, calls, Peers, lists>>
        \/ /\ f.server = s.server /\ s.status = "new"
           /\ SetSession([s EXCEPT !.status = verdict])
           /\ calls' = IF verdict = "waiting" THEN calls \union {f.of} ELSE calls
           /\ Send(Result(f.of, s, verdict))
           /\ Admitted(f.of, verdict)
     /\ UNCHANGED <<relayed, IsLocked, KnockToJoin, servers, requests, answering, joiner, allowed, forgotten, switches>>

\* expireJoinSessionsLocked
ExpireSession(j) ==
  /\ Has(j)
  /\ sessions' = Without(j)
  /\ UNCHANGED <<relayed, IsLocked, KnockToJoin, Peers, servers, queue, net, joiner, history, switches>>

\* Faulty: the room is not looked at again when the joiner registers
JoinRequest_NoRecheck(j) ==
  /\ state[j] = "keyed" /\ ~relayed
  /\ IF IsLocked
     THEN state' = [state EXCEPT ![j] = "out"] /\ UNCHANGED <<Peers, lists>>
     ELSE state' \in {state, [state EXCEPT ![j] = "in"]} /\ Enter(j)
  /\ UNCHANGED <<relayed, IsLocked, KnockToJoin, sessions, servers, queue, net, attempt, auth, allowed, forgotten, switches>>

\* PacketJoinRequest and the answer to it, which may be lost: a joiner that has the key
\* registers.
JoinRequest(j) ==
  /\ state[j] = "keyed" /\ ~relayed
  /\ IF IsLocked \/ (Cardinality(Peers) >= Limit - 1 /\ j \notin Peers)
     THEN state' = [state EXCEPT ![j] = "out"] /\ UNCHANGED <<Peers, lists>>
     ELSE state' \in {state, [state EXCEPT ![j] = "in"]} /\ Enter(j)
  /\ UNCHANGED <<relayed, IsLocked, KnockToJoin, sessions, servers, queue, net, attempt, auth, allowed, forgotten, switches>>

\* The relay's welcome.
RelayWelcome(j) ==
  /\ state[j] = "keyed" /\ relayed /\ j \in Peers
  /\ state' = [state EXCEPT ![j] = "in"]
  /\ UNCHANGED <<relayed, host, queue, net, attempt, auth, history, switches>>

\* forgetMemberLocked
Forget(j) ==
  /\ Peers' = Peers \ {j} /\ sessions' = Without(j)
  /\ returned' = returned \ {j} /\ UNCHANGED members

\* A member leaves; word of it may be lost.
Leave(j) ==
  /\ state[j] = "in" /\ state' = [state EXCEPT ![j] = "out"]
  /\ Forget(j) \/ UNCHANGED <<Peers, sessions, lists>>
  /\ UNCHANGED <<relayed, IsLocked, KnockToJoin, servers, queue, net, attempt, auth, allowed, forgotten, switches>>

\* heartbeatLoop: nothing was heard of a member for 45 s.  It may be gone, or be in the room
\* still, with the key.
TimeOut(j) ==
  /\ j \in Peers
  /\ Forget(j)
  /\ UNCHANGED <<relayed, IsLocked, KnockToJoin, servers, queue, net, joiner, allowed, forgotten, switches>>

\* A member that was dropped is listed again: handlePacket does so with whoever sends a packet
\* of the room (the key before the last rotation is good for a while), and a host that has lost
\* them all takes the list of the first to answer (introduceWelcomePeersLocked).  Both ask for
\* less than MaxPeers, not for the limit of the room.
ListAgain(j) ==
  /\ j \notin Peers /\ Cardinality(Peers) < MaxPeers - 1
  /\ \/ state[j] = "in" /\ ~IsLocked
     \/ j \in members /\ \E k \in Joiners \ {j} : state[k] = "in"
  /\ Peers' = Peers \union {j}
  /\ returned' = IF Cardinality(Peers) >= Limit - 1 THEN returned \union {j} ELSE returned
  /\ UNCHANGED <<relayed, IsLocked, KnockToJoin, sessions, servers, queue, net, joiner, allowed, forgotten, members, switches>>

-----------------------------------------------------------------------------
(* The user of the host *)

\* Faulty: a joiner that knocks again is queued again
OnKnock_Again(j) ==
  /\ j \in calls
  /\ calls' = calls \ {j} /\ requests' = Append(requests, j)
  /\ UNCHANGED <<relayed, host, answering, net, joiner, history, switches>>

\* onKnock
OnKnock(j) ==
  /\ j \in calls
  /\ calls' = calls \ {j}
  /\ requests' = IF Contains(requests, j) THEN requests ELSE Append(requests, j)
  /\ UNCHANGED <<relayed, host, answering, net, joiner, history, switches>>

\* Faulty: one answer empties the queue
TakeKnock_All ==
  /\ answering = None /\ requests # <<>>
  /\ \E allow \in BOOLEAN : answering' = {[of |-> Head(requests), allow |-> allow]}
  /\ requests' = <<>>
  /\ UNCHANGED <<relayed, host, calls, net, joiner, history, switches>>

\* answerKnock, or activeKnock for a request nobody answered in time: it is taken from the queue.
TakeKnock ==
  /\ answering = None /\ requests # <<>>
  /\ \E allow \in BOOLEAN : answering' = {[of |-> Head(requests), allow |-> allow]}
  /\ requests' = Tail(requests)
  /\ UNCHANGED <<relayed, host, calls, net, joiner, history, switches>>

\* ApproveJoin: the joiner still waits; the room may have filled or been locked meanwhile.
ApproveJoin ==
  \E a \in answering :
    /\ answering' = None
    /\ IF Has(a.of) /\ SessionOf(a.of).status = "waiting"
       THEN LET s == SessionOf(a.of)
                verdict == IF a.allow THEN Verdict ELSE "denied"
            IN /\ SetSession([s EXCEPT !.status = verdict])
               /\ Send(Result(a.of, s, verdict))
               /\ Admitted(a.of, verdict)
               /\ allowed' = IF a.allow THEN allowed \union {s.server} ELSE allowed
       ELSE UNCHANGED <<sessions, net, Peers, allowed, lists>>
    /\ UNCHANGED <<relayed, IsLocked, KnockToJoin, servers, calls, requests, joiner, forgotten, switches>>

\* Switching knocking off forgets who is knocking.
ToggleKnock ==
  /\ switches < MaxSwitches /\ switches' = switches + 1
  /\ KnockToJoin' = ~KnockToJoin
  /\ IF KnockToJoin
     THEN requests' = <<>> /\ forgotten' = forgotten \union ToSet(requests)
     ELSE UNCHANGED <<requests, forgotten>>
  /\ UNCHANGED <<relayed, IsLocked, Peers, sessions, servers, calls, answering, net, joiner, allowed, lists>>

LockOrUnlock ==
  /\ switches < MaxSwitches /\ switches' = switches + 1
  /\ IsLocked' = ~IsLocked
  /\ UNCHANGED <<relayed, KnockToJoin, Peers, sessions, servers, queue, net, joiner, history>>

Next ==
  \/ \E j \in Joiners :
       \/ RequestJoinRoom(j) \/ GiveUp(j) \/ ExpireSession(j) \/ JoinRequest(j) \/ RelayWelcome(j)
       \/ Leave(j) \/ TimeOut(j) \/ ListAgain(j) \/ OnKnock(j)
  \/ \E f \in net : AcceptHello(f) \/ ProcessChallenge(f) \/ ProcessAuth(f) \/ ProcessResult(f)
  \/ TakeKnock \/ ApproveJoin \/ ToggleKnock \/ LockOrUnlock

Spec == Init /\ [][Next]_vars

-----------------------------------------------------------------------------
(* Properties *)

Session == [of : Joiners, attempt : 1..MaxAttempts, server : 1..MaxServers, status : Verdicts \union {"new", "waiting"}]
\* Sessions, queue and joiners are what the code can hold; no joiner has two sessions.
TypeOK ==
  /\ {relayed, IsLocked, KnockToJoin} \subseteq BOOLEAN /\ Peers \subseteq Joiners
  /\ sessions \subseteq Session /\ Cardinality(sessions) <= MaxSessions /\ servers \in 0..MaxServers
  /\ \A s, t \in sessions : s.of = t.of => s = t
  /\ calls \subseteq Joiners /\ requests \in Seq(Joiners) /\ IsInjective(requests)
  /\ Cardinality(answering) <= 1
  /\ state \in [Joiners -> {"out", "joining", "keyed", "in"}]
  /\ attempt \in [Joiners -> 0..MaxAttempts] /\ auth \in [Joiners -> 0..MaxServers]
  /\ returned \subseteq Peers /\ members \subseteq Joiners
  /\ switches \in 0..MaxSwitches

\* On the LAN the host never lets in more members than the room holds, although several joiners
\* are admitted before the first of them registers (decideAdmissionLocked counts peers only),
\* leaves and answers get lost, and members that are there are dropped and come back.  What the
\* code does not do is keep the room to its limit when one it dropped comes back and its place
\* is taken (node.go:1456): those are beyond the limit, but never beyond MaxPeers.
RoomFits ==
  ~relayed => /\ Cardinality(Peers \ returned) <= Limit - 1
              /\ Cardinality(Peers) <= MaxPeers - 1

\* "A verified joiner waiting for the host's decision" (joinSession) is in the host's queue or
\* on its way there, whatever new attempts, answers and expiries cross: none waits unseen,
\* unless the queue was cleared.
KnockersAreAsked ==
  \A s \in sessions :
    s.status = "waiting" => s.of \in calls \union ToSet(requests) \union {a.of : a \in answering} \union forgotten

\* While knocking stays on nobody gets the key whom the user did not let in, for the very
\* attempt it makes ("the key is only released by ApproveJoin", processAuth).
OnlyTheAllowedGetIn ==
  KnockToJoin /\ switches = 0 => \A j \in Joiners : state[j] = "keyed" => auth[j] \in allowed
=============================================================================
