---------------------------- MODULE MembersProofs ----------------------------
(***************************************************************************)
(* Theorems about the components of MCMembers, for every value of the      *)
(* constants it leaves open and every order of the steps of each.          *)
(***************************************************************************)
EXTENDS MCMembers, FiniteSetTheorems, SequenceTheorems, WellFoundedInduction, TLAPS

-----------------------------------------------------------------------------
(* The host of the room                                                    *)

LeftNews(x) == [left |-> x, host |-> 0]
HostNews == [left |-> 0, host |-> h_relayHost]

\* What the relay may still have to say of one departure.
Untold(b) ==
    \/ \E x \in h_Nodes : b = <<LeftNews(x)>>
    \/ /\ h_relayHost # h_FirstHost
       /\ \/ \E x \in h_Nodes : b = <<LeftNews(x), HostNews>>
          \/ b = <<HostNews>>

\* The relay has yet to tell that there is another host.
HostUntold(b) == b = <<HostNews>> \/ \E x \in h_Nodes : b = <<LeftNews(x), HostNews>>

Agrees(n) == h_HostID[n] = h_relayHost /\ (h_IsHost[n] <=> n = h_relayHost)

\* Who left says so itself, the relay's host is in the room until the relay has heard of its
\* leave, and who does not agree with the relay is yet to be told.
HostInv ==
    /\ h_in \subseteq h_Nodes /\ h_leaving \subseteq h_Nodes \ h_in /\ h_relayHost \in h_Nodes
    /\ DOMAIN h_HostID = h_Nodes /\ DOMAIN h_IsHost = h_Nodes /\ DOMAIN h_batches = h_Nodes
    /\ \A p \in h_net : p.type = "leave" => p.from \notin h_in
    /\ h_relayHost \notin h_in => h_relayHost = h_FirstHost
    /\ h_Relay /\ h_relayHost \notin h_in => h_relayHost \in h_leaving \/ h_in = {}
    /\ h_Relay => \A n \in h_in : \A b \in h_batches[n] : Untold(b)
    /\ h_Relay /\ h_relayHost \notin h_leaving =>
          \A n \in h_in : Agrees(n) \/ \E b \in h_batches[n] : HostUntold(b)

\* What each component assumes of its parameters.
LEMMA HostAssumed == H!HostHandoverAssumption
  BY MCMembersAssumption

LEMMA DoorAssumed == A!AdmissionAssumption
  BY MCMembersAssumption

LEMMA ChatAssumed == T!ChatHistoryAssumption
  BY MCMembersAssumption

LEMMA KeysAssumed == G!GroupRekeyAssumption /\ G!NoKeyAssumption
  BY MCMembersAssumption

LEMMA HostInit == Init => HostInv
<1> SUFFICES ASSUME H!Init PROVE HostInv
  BY DEF Init
<1> QED
  BY HostAssumed DEF H!HostHandoverAssumption, H!Init, H!Others, HostInv, Agrees

\* Two one-element sequences, one after the other.
LEMMA TwoInSequence == \A x, y : <<x>> \o <<y>> = <<x, y>>
<1> TAKE x, y
<1> DEFINE S == {x, y}
           s == <<x>> \o <<y>>
           t == <<x, y>>
<1>1. <<x>> \in Seq(S) /\ <<y>> \in Seq(S) /\ t \in Seq(S)
  OBVIOUS
<1>2. Len(<<x>>) = 1 /\ Len(<<y>>) = 1 /\ Len(t) = 2
  OBVIOUS
<1>3. <<x>>[1] = x /\ <<y>>[1] = y /\ t[1] = x /\ t[2] = y
  OBVIOUS
<1>4. Len(s) = 2 /\ s \in Seq(S) /\ s[1] = x /\ s[2] = y
  BY <1>1, <1>2, <1>3, ConcatProperties, SMT
<1> HIDE DEF s, t
<1>5. \A i \in 1 .. Len(s) : s[i] = t[i]
  BY <1>3, <1>4
<1>6. s = t
  BY <1>1, <1>2, <1>4, <1>5, SeqEqual
<1> QED
  BY <1>6 DEF s, t

\* The first and what follows of what the relay has to say.
LEMMA NewsOrder ==
    ASSUME NEW b, Untold(b)
    PROVE  /\ Head(b).host # 0 => b = <<HostNews>> /\ h_relayHost # h_FirstHost
           /\ Head(b).left # 0 => \/ \E x \in h_Nodes : b = <<LeftNews(x)>>
                                  \/ /\ h_relayHost # h_FirstHost
                                     /\ \E x \in h_Nodes : b = <<LeftNews(x), HostNews>>
<1>1. \A x : Head(<<LeftNews(x)>>) = LeftNews(x) /\ Head(<<LeftNews(x), HostNews>>) = LeftNews(x)
  OBVIOUS
<1>2. Head(<<HostNews>>) = HostNews
  OBVIOUS
<1>3. HostNews.left = 0 /\ \A x : LeftNews(x).host = 0
  BY DEF HostNews, LeftNews
<1> QED
  BY <1>1, <1>2, <1>3 DEF Untold

LEMMA HostStep == HostInv /\ [Next]_all => HostInv'
<1> SUFFICES ASSUME HostInv, [Next]_all PROVE HostInv'
  OBVIOUS
<1> USE HostAssumed DEF H!HostHandoverAssumption
<1> DEFINE Stays == UNCHANGED <<h_in, h_HostID, h_IsHost, h_leaving, h_batches, h_relayHost>>
<1>1. ASSUME Stays, \A p \in h_net' : p \in h_net \/ p.type # "leave"
      PROVE  HostInv'
  BY <1>1 DEF HostInv, Untold, HostUntold, HostNews, Agrees
<1>2. CASE UNCHANGED hVars
  BY <1>1, <1>2 DEF hVars
<1>3. ASSUME NEW n \in h_Nodes, H!LeaveRoom(n)
      PROVE  HostInv'
  <2>1. /\ n \in h_in /\ h_in' = h_in \ {n} /\ h_leaving' = h_leaving \union {n}
        /\ n = h_relayHost => h_relayHost = h_FirstHost
        /\ h_batches' = [h_batches EXCEPT ![n] = {}]
        /\ UNCHANGED <<h_HostID, h_IsHost, h_relayHost>>
    BY <1>3 DEF H!LeaveRoom, H!roles
  <2>2. \A p \in h_net' : p.type = "leave" => p.from \notin h_in'
    BY <1>3, <2>1 DEF H!LeaveRoom, H!Send, HostInv
  <2>3. \A m \in h_in' : h_batches'[m] = h_batches[m] /\ m \in h_in
    BY <2>1 DEF HostInv
  <2> QED
    BY <2>1, <2>2, <2>3 DEF HostInv, Untold, HostUntold, HostNews, Agrees
<1>4. ASSUME NEW n \in h_Nodes, H!RelayLeave(n)
      PROVE  HostInv'
  <2>1. /\ n \in h_leaving /\ h_leaving' = h_leaving \ {n}
        /\ UNCHANGED <<h_in, h_HostID, h_IsHost, h_net>>
    BY <1>4 DEF H!RelayLeave, H!roles
  <2>2. CASE ~h_Relay
    <3>1. UNCHANGED <<h_batches, h_relayHost>>
      BY <1>4, <2>2 DEF H!RelayLeave
    <3> QED
      BY <2>1, <2>2, <3>1 DEF HostInv
  <2>3. CASE h_Relay
    <3>1. PICK h \in IF n = h_relayHost /\ h_in # {} THEN h_in ELSE {h_relayHost} :
            /\ h_relayHost' = h
            /\ h_batches' = [m \in h_Nodes |->
                 IF m \notin h_in THEN {}
                 ELSE h_batches[m] \union {<<[left |-> n, host |-> 0]>> \o
                        (IF h = h_relayHost THEN <<>> ELSE <<[left |-> 0, host |-> h]>>)}]
      BY <1>4, <2>3 DEF H!RelayLeave
    <3>2. CASE h = h_relayHost
      <4>1. <<[left |-> n, host |-> 0]>> \o <<>> = <<LeftNews(n)>>
        BY DEF LeftNews
      <4>2. \A m \in h_in : h_batches'[m] = h_batches[m] \union {<<LeftNews(n)>>}
        BY <3>1, <3>2, <4>1 DEF HostInv
      <4>3. HostNews' = HostNews
        BY <3>1, <3>2 DEF HostNews
      <4>4. h_relayHost \in h_leaving => n = h_relayHost \/ h_relayHost \in h_leaving'
        BY <2>1
      <4>5. n = h_relayHost => h_in = {}
        BY <2>1, <3>1, <3>2 DEF HostInv
      <4> QED
        BY <2>1, <3>1, <3>2, <4>2, <4>3, <4>4, <4>5 DEF HostInv, Untold, HostUntold, Agrees
    <3>3. CASE h # h_relayHost
      <4>1. n = h_relayHost /\ h \in h_in /\ h_relayHost = h_FirstHost
        BY <2>1, <3>1, <3>3 DEF HostInv
      <4>2. <<[left |-> n, host |-> 0]>> \o <<[left |-> 0, host |-> h]>> = <<LeftNews(n), HostNews'>>
        <5>1. HostNews' = [left |-> 0, host |-> h]
          BY <3>1 DEF HostNews
        <5>2. <<LeftNews(n)>> \o <<HostNews'>> = <<LeftNews(n), HostNews'>>
          BY TwoInSequence, Zenon
        <5> QED
          BY <5>1, <5>2 DEF LeftNews
      <4>3. \A m \in h_in : h_batches'[m] = h_batches[m] \union {<<LeftNews(n), HostNews'>>}
        BY <3>1, <3>3, <4>2 DEF HostInv
      <4>4. \A m \in h_in : \A b \in h_batches[m] : \E x \in h_Nodes : b = <<LeftNews(x)>>
        BY <2>3, <4>1 DEF HostInv, Untold
      <4>5. h_relayHost' = h /\ h # h_FirstHost /\ DOMAIN h_batches' = h_Nodes
        BY <3>1, <3>3, <4>1
      <4> QED
        BY <2>1, <4>1, <4>3, <4>4, <4>5 DEF HostInv, Untold, HostUntold
    <3> QED
      BY <3>2, <3>3
  <2> QED
    BY <2>2, <2>3
<1>5. ASSUME NEW n \in h_Nodes, H!PeerLeft(n)
      PROVE  HostInv'
  <2>1. PICK b \in h_batches[n] : Head(b).left # 0 /\ H!Told(n, b)
    BY <1>5 DEF H!PeerLeft
  <2>2. UNCHANGED <<h_in, h_HostID, h_IsHost, h_net, h_leaving, h_relayHost>>
    BY <1>5 DEF H!PeerLeft
  <2> DEFINE rest == IF Len(b) > 1 THEN {Tail(b)} ELSE {}
  <2>3. h_batches' = [h_batches EXCEPT ![n] = (@ \ {b}) \union rest]
    BY <2>1 DEF H!Told
  <2>4. h_Relay /\ n \in h_in => \/ rest = {} /\ ~HostUntold(b)
                                 \/ rest = {<<HostNews>>} /\ h_relayHost # h_FirstHost
    <3> SUFFICES ASSUME h_Relay, n \in h_in
                 PROVE  \/ rest = {} /\ ~HostUntold(b)
                        \/ rest = {<<HostNews>>} /\ h_relayHost # h_FirstHost
      OBVIOUS
    <3>1. Untold(b)
      BY <2>1 DEF HostInv
    <3>2. ASSUME NEW x \in h_Nodes, b = <<LeftNews(x)>>
          PROVE  rest = {} /\ ~HostUntold(b)
      <4>1. Len(b) = 1 /\ b[1] = LeftNews(x) /\ LeftNews(x).left # HostNews.left
        BY <3>2 DEF LeftNews, HostNews
      <4>2. <<HostNews>>[1] = HostNews /\ \A y : Len(<<LeftNews(y), HostNews>>) = 2
        OBVIOUS
      <4> QED
        BY <4>1, <4>2 DEF HostUntold
    <3>3. ASSUME NEW x \in h_Nodes, b = <<LeftNews(x), HostNews>>
          PROVE  rest = {<<HostNews>>}
      BY <3>3
    <3> QED
      BY <2>1, <3>1, <3>2, <3>3, NewsOrder
  <2> HIDE DEF rest
  <2>5. /\ DOMAIN h_batches' = h_Nodes
        /\ \A m \in h_in \ {n} : h_batches'[m] = h_batches[m]
        /\ n \in h_in => h_batches'[n] = (h_batches[n] \ {b}) \union rest
    BY <2>3 DEF HostInv
  <2>6. /\ HostUntold(<<HostNews>>) /\ (h_relayHost # h_FirstHost => Untold(<<HostNews>>))
        /\ \A c : (Untold(c)' <=> Untold(c)) /\ (HostUntold(c)' <=> HostUntold(c))
        /\ \A m : Agrees(m)' <=> Agrees(m)
    BY <2>2 DEF HostUntold, Untold, HostNews, Agrees
  <2>7. h_Relay => \A m \in h_in : \A c \in h_batches'[m] : Untold(c)
    BY <2>4, <2>5, <2>6 DEF HostInv
  <2>8. h_Relay /\ h_relayHost \notin h_leaving =>
           \A m \in h_in : Agrees(m) \/ \E c \in h_batches'[m] : HostUntold(c)
    <3> SUFFICES ASSUME h_Relay, h_relayHost \notin h_leaving, NEW m \in h_in, ~Agrees(m)
                 PROVE  \E c \in h_batches'[m] : HostUntold(c)
      OBVIOUS
    <3>1. PICK c \in h_batches[m] : HostUntold(c)
      BY DEF HostInv
    <3>2. CASE m = n /\ c = b
      BY <2>4, <2>5, <2>6, <3>1, <3>2
    <3>3. CASE ~(m = n /\ c = b)
      BY <2>5, <3>1, <3>3
    <3> QED
      BY <3>2, <3>3
  <2> QED
    BY <2>2, <2>5, <2>6, <2>7, <2>8 DEF HostInv
<1>6. ASSUME NEW n \in h_Nodes, H!NewHost(n)
      PROVE  HostInv'
  <2>1. PICK b \in h_batches[n] : /\ Head(b).host # 0 /\ H!Told(n, b)
                                  /\ h_HostID' = [h_HostID EXCEPT ![n] = Head(b).host]
                                  /\ h_IsHost' = [h_IsHost EXCEPT ![n] = Head(b).host = n]
    BY <1>6 DEF H!NewHost
  <2>2. UNCHANGED <<h_in, h_net, h_leaving, h_relayHost>>
    BY <1>6 DEF H!NewHost
  <2>3. h_Relay /\ n \in h_in => b = <<HostNews>>
    BY <2>1, NewsOrder DEF HostInv
  <2>4. b = <<HostNews>> => Head(b).host = h_relayHost /\ Len(b) = 1
    BY DEF HostNews
  <2>5. h_Relay /\ n \in h_in => Agrees(n)' /\ h_batches'[n] \subseteq h_batches[n]
    <3> SUFFICES ASSUME h_Relay, n \in h_in PROVE Agrees(n)' /\ h_batches'[n] \subseteq h_batches[n]
      OBVIOUS
    <3>1. h_HostID'[n] = h_relayHost /\ (h_IsHost'[n] <=> h_relayHost = n)
      BY <2>1, <2>3, <2>4 DEF HostInv
    <3>2. h_batches'[n] = (h_batches[n] \ {b}) \union {}
      BY <2>1, <2>3, <2>4 DEF HostInv, H!Told
    <3> QED
      BY <2>2, <3>1, <3>2 DEF Agrees
  <2>6. /\ DOMAIN h_batches' = h_Nodes /\ DOMAIN h_HostID' = h_Nodes /\ DOMAIN h_IsHost' = h_Nodes
        /\ \A m \in h_in \ {n} : /\ h_batches'[m] = h_batches[m] /\ h_HostID'[m] = h_HostID[m]
                                 /\ h_IsHost'[m] = h_IsHost[m]
    BY <2>1 DEF HostInv, H!Told
  <2>7. HostNews' = HostNews
    BY <2>2 DEF HostNews
  <2> QED
    BY <2>2, <2>5, <2>6, <2>7 DEF HostInv, Untold, HostUntold, Agrees
<1>7. ASSUME NEW p \in h_net, H!HandleLeave(p)
      PROVE  HostInv'
  <2> DEFINE n == p.to
             e == H!Min((h_Peers[n] \ {p.from}) \union {n})
  <2>1. /\ p.type = "leave" /\ n \in h_in
        /\ UNCHANGED <<h_in, h_net, h_leaving, h_batches, h_relayHost>>
    BY <1>7 DEF H!HandleLeave, H!relay
  <2>2. CASE p.from # h_HostID[n]
    <3>1. UNCHANGED <<h_HostID, h_IsHost>>
      BY <1>7, <2>2 DEF H!HandleLeave
    <3> QED
      BY <1>1, <2>1, <3>1
  <2>3. CASE p.from = h_HostID[n]
    <3>1. h_HostID' = [h_HostID EXCEPT ![n] = e] /\ h_IsHost' = [h_IsHost EXCEPT ![n] = e = n]
      BY <1>7, <2>3 DEF H!HandleLeave
    <3> HIDE DEF e
    <3>2. h_Relay /\ h_relayHost \notin h_leaving => ~Agrees(n)
      BY <2>1, <2>3 DEF HostInv, Agrees
    <3>3. \A m \in h_in \ {n} : h_HostID'[m] = h_HostID[m] /\ h_IsHost'[m] = h_IsHost[m]
      BY <3>1 DEF HostInv
    <3>4. DOMAIN h_HostID' = h_Nodes /\ DOMAIN h_IsHost' = h_Nodes
      BY <3>1 DEF HostInv
    <3> QED
      BY <2>1, <3>2, <3>3, <3>4 DEF HostInv, Untold, HostUntold, HostNews, Agrees
  <2> QED
    BY <2>2, <2>3
<1>8. ASSUME NEW n \in h_Nodes, \/ H!RotateGroupKey(n) \/ H!FinishRotation(n)
                                \/ \E x \in h_Nodes : H!TimeOut(n, x) \/ H!Register(n, x)
      PROVE  HostInv'
  BY <1>1, <1>8 DEF H!RotateGroupKey, H!FinishRotation, H!TimeOut, H!Register, H!Send, H!roles,
     H!relay, H!keys
<1>9. ASSUME NEW p \in h_net, H!HandleRekey(p) \/ H!HandleRekeyAck(p)
      PROVE  HostInv'
  BY <1>1, <1>9 DEF H!HandleRekey, H!HandleRekeyAck, H!Send, H!roles, H!relay
<1>10. ASSUME NEW t \in h_timers, H!PromoteStaged(t)
       PROVE  HostInv'
  BY <1>1, <1>10 DEF H!PromoteStaged, H!roles, H!relay
<1>11. H!Next \/ UNCHANGED hVars
  BY DEF Next, Others, all
<1> QED
  BY <1>2, <1>3, <1>4, <1>5, <1>6, <1>7, <1>8, <1>9, <1>10, <1>11 DEF H!Next

-----------------------------------------------------------------------------
(* Who gets into the room                                                  *)

\* The library of Admission's instance is that of this module.
LEMMA SameSets ==
    ASSUME NEW S
    PROVE  A!Cardinality(S) = Cardinality(S) /\ (A!IsFiniteSet(S) <=> IsFiniteSet(S))
  BY DEF A!Cardinality, Cardinality, A!IsFiniteSet, IsFiniteSet

IsSession(s) == DOMAIN s = {"of", "attempt", "server", "status"} /\ s.of \in a_Joiners

\* One session per joiner.
SessionsAgree ==
    /\ \A s \in a_sessions : IsSession(s)
    /\ \A s, t \in a_sessions : s.of = t.of => s = t

\* One answer at a time.
DoorShape ==
    /\ a_Peers \subseteq a_Joiners /\ a_calls \subseteq a_Joiners /\ a_requests \in Seq(a_Joiners)
    /\ a_members \subseteq a_Joiners /\ a_returned \subseteq a_Peers
    /\ DOMAIN a_state = a_Joiners /\ DOMAIN a_auth = a_Joiners /\ a_switches \in Nat
    /\ \A f \in a_net : f.of \in a_Joiners
    /\ SessionsAgree
    /\ a_answering = {} \/ \E a : a_answering = {a}

\* While knocking stays on, every "ok" is of a session the user let in.
OnlyAllowed ==
    a_KnockToJoin /\ a_switches = 0 =>
        /\ \A s \in a_sessions : s.status = "ok" => s.server \in a_allowed
        /\ \A f \in a_net : f.type = "result" /\ f.verdict = "ok" => f.server \in a_allowed
        /\ \A j \in a_Joiners : a_state[j] = "keyed" => a_auth[j] \in a_allowed

DoorInv ==
    /\ DoorShape
    /\ A!RoomFits
    /\ OnlyAllowed
    /\ A!KnockersAreAsked

LEMMA DoorInit == Init => DoorInv
<1> SUFFICES ASSUME A!Init PROVE DoorInv
  BY DEF Init
<1>1. a_Peers = {} /\ a_returned = {} /\ a_Limit \in 1 .. a_MaxPeers /\ a_MaxPeers \in Nat
  BY DoorAssumed DEF A!Init, A!AdmissionAssumption
<1>2. A!RoomFits
  <2>1. a_Peers \ a_returned = {} /\ Cardinality({}) = 0 /\ Cardinality(a_Peers) = 0
    BY <1>1, FS_EmptySet
  <2> QED
    BY <1>1, <2>1, SameSets DEF A!RoomFits
<1>3. DoorShape
  BY DEF A!Init, A!None, DoorShape, SessionsAgree
<1>4. OnlyAllowed /\ A!KnockersAreAsked
  BY DEF A!Init, OnlyAllowed, A!KnockersAreAsked
<1> QED
  BY <1>2, <1>3, <1>4 DEF DoorInv

\* The session of a joiner that has one.
LEMMA TheSession ==
    ASSUME DoorShape, NEW j, A!Has(j)
    PROVE  /\ A!SessionOf(j) \in a_sessions /\ A!SessionOf(j).of = j
           /\ \A s \in a_sessions : s.of = j => s = A!SessionOf(j)
  BY DEF DoorShape, SessionsAgree, A!Has, A!SessionOf

\* A session keeps its number when its status changes, the others stay.
LEMMA NewStatus ==
    ASSUME SessionsAgree, NEW s \in a_sessions, NEW v, A!SetSession([s EXCEPT !.status = v])
    PROVE  \A t \in a_sessions' : \/ t \in a_sessions /\ t.of # s.of
                                  \/ t.of = s.of /\ t.server = s.server /\ t.status = v
<1> DEFINE u == [s EXCEPT !.status = v]
<1>1. u.of = s.of /\ u.server = s.server /\ u.status = v
  BY DEF SessionsAgree, IsSession
<1>2. a_sessions' = {t \in a_sessions : t.of # u.of} \union {u}
  BY DEF A!SetSession, A!Without
<1> HIDE DEF u
<1> QED
  BY <1>1, <1>2

\* A joiner's session with another status, or without it.
LEMMA ChangedSession ==
    ASSUME SessionsAgree, NEW s \in a_sessions,
           \/ UNCHANGED a_sessions \/ a_sessions' = A!Without(s.of)
           \/ \E v : A!SetSession([s EXCEPT !.status = v])
    PROVE  SessionsAgree'
<1>1. CASE UNCHANGED a_sessions \/ a_sessions' = A!Without(s.of)
  BY <1>1 DEF SessionsAgree, A!Without
<1>2. ASSUME NEW v, A!SetSession([s EXCEPT !.status = v])
      PROVE  SessionsAgree'
  <2> DEFINE t == [s EXCEPT !.status = v]
  <2>1. DOMAIN t = DOMAIN s /\ t.of = s.of
    BY DEF SessionsAgree, IsSession
  <2>2. a_sessions' = {u \in a_sessions : u.of # t.of} \union {t}
    BY <1>2 DEF A!SetSession, A!Without
  <2> HIDE DEF t
  <2> QED
    BY <2>1, <2>2 DEF SessionsAgree, IsSession
<1> QED
  BY <1>1, <1>2

LEMMA DoorShapeStep == DoorInv /\ [Next]_all => DoorShape'
<1> SUFFICES ASSUME DoorShape, A!Next PROVE DoorShape'
  <2>1. UNCHANGED aVars => (DoorShape => DoorShape')
    BY DEF aVars, DoorShape, SessionsAgree
  <2>2. [Next]_all => A!Next \/ UNCHANGED aVars
    BY DEF Next, Others, all
  <2> QED
    BY <2>1, <2>2 DEF DoorInv
<1> USE DEF DoorShape, SessionsAgree
<1>1. ASSUME NEW j \in a_Joiners, A!RequestJoinRoom(j) \/ A!GiveUp(j)
      PROVE  DoorShape'
  <2>1. CASE A!RequestJoinRoom(j)
    <3>1. /\ UNCHANGED <<a_Peers, a_calls, a_requests, a_answering, a_sessions, a_switches, a_members, a_returned>>
          /\ a_state' = [a_state EXCEPT ![j] = "joining"] /\ a_auth' = [a_auth EXCEPT ![j] = 0]
      BY <2>1 DEF A!RequestJoinRoom, A!host, A!queue, A!history, A!lists
    <3>2. \A f \in a_net' : f.of \in a_Joiners
      BY <2>1 DEF A!RequestJoinRoom, A!Send
    <3> QED
      BY <3>1, <3>2
  <2>2. CASE A!GiveUp(j)
    BY <2>2 DEF A!GiveUp, A!host, A!queue, A!history, A!lists
  <2> QED
    BY <1>1, <2>1, <2>2
<1>2. ASSUME NEW j \in a_Joiners, A!JoinRequest(j) \/ A!RelayWelcome(j)
      PROVE  DoorShape'
  <2>1. CASE A!JoinRequest(j)
    <3>1. /\ UNCHANGED <<a_calls, a_requests, a_answering, a_sessions, a_switches, a_net, a_auth>>
          /\ \/ UNCHANGED <<a_Peers, a_members, a_returned>>
             \/ A!Enter(j)
          /\ DOMAIN a_state' = DOMAIN a_state
      BY <2>1 DEF A!JoinRequest, A!queue, A!lists
    <3> QED
      BY <3>1 DEF A!Enter
  <2>2. CASE A!RelayWelcome(j)
    BY <2>2 DEF A!RelayWelcome, A!host, A!queue, A!history, A!lists
  <2> QED
    BY <1>2, <2>1, <2>2
<1>3. ASSUME NEW j \in a_Joiners, A!Leave(j) \/ A!TimeOut(j) \/ A!ListAgain(j)
      PROVE  DoorShape'
  <2>1. /\ UNCHANGED <<a_calls, a_requests, a_answering, a_switches, a_net, a_auth>>
        /\ a_sessions' \subseteq a_sessions /\ a_members' = a_members
        /\ \/ UNCHANGED <<a_Peers, a_returned>>
           \/ a_Peers' = a_Peers \ {j} /\ a_returned' = a_returned \ {j}
           \/ a_Peers' = a_Peers \union {j} /\ a_returned' \in {a_returned, a_returned \union {j}}
        /\ DOMAIN a_state' = DOMAIN a_state
    BY <1>3 DEF A!Leave, A!TimeOut, A!ListAgain, A!Forget, A!Without, A!queue, A!joiner, A!lists
  <2> QED
    BY <2>1
<1>4. ASSUME NEW j \in a_Joiners, A!ExpireSession(j)
      PROVE  DoorShape'
  BY <1>4 DEF A!ExpireSession, A!Without, A!joiner, A!queue, A!history, A!lists
<1>5. ASSUME NEW j \in a_Joiners, A!OnKnock(j)
      PROVE  DoorShape'
  <2>1. a_requests' \in Seq(a_Joiners)
    BY <1>5, AppendProperties DEF A!OnKnock
  <2> QED
    BY <1>5, <2>1 DEF A!OnKnock, A!host, A!joiner, A!history, A!lists
<1>6. ASSUME NEW f \in a_net, A!AcceptHello(f)
      PROVE  DoorShape'
  <2>1. PICK s : /\ A!Send(A!Challenge(s)) /\ s.of = f.of
                 /\ UNCHANGED a_sessions \/ (A!Open(s) /\ s = A!Fresh(f))
    <3>1. A!Fresh(f).of = f.of
      BY DEF A!Fresh
    <3> QED
      BY <1>6, <3>1, TheSession DEF A!AcceptHello
  <2>2. \A g \in a_net' : g.of \in a_Joiners
    BY <2>1 DEF A!Send, A!Challenge
  <2>3. A!Open(s) => \A t \in a_sessions' : t = s \/ (t \in a_sessions /\ t.of # s.of)
    BY DEF A!Open
  <2>4. s = A!Fresh(f) => IsSession(s)
    BY DEF A!Fresh, IsSession
  <2>5. UNCHANGED <<a_Peers, a_calls, a_requests, a_answering, a_state, a_auth, a_switches, a_members, a_returned>>
    BY <1>6 DEF A!AcceptHello, A!queue, A!joiner, A!history, A!lists
  <2>6. \A t \in a_sessions' : IsSession(t)
    BY <2>1, <2>3, <2>4
  <2>7. \A t, u \in a_sessions' : t.of = u.of => t = u
    BY <2>1, <2>3
  <2> QED
    BY <2>2, <2>5, <2>6, <2>7
<1>7. ASSUME NEW f \in a_net, A!ProcessChallenge(f) \/ A!ProcessResult(f)
      PROVE  DoorShape'
  <2>1. UNCHANGED <<a_Peers, a_calls, a_requests, a_answering, a_sessions, a_switches, a_members, a_returned>>
    BY <1>7 DEF A!ProcessChallenge, A!ProcessResult, A!host, A!queue, A!history, A!lists
  <2>2. DOMAIN a_state' = DOMAIN a_state /\ DOMAIN a_auth' = DOMAIN a_auth
    BY <1>7 DEF A!ProcessChallenge, A!ProcessResult
  <2>3. \A g \in a_net' : g.of \in a_Joiners
    BY <1>7 DEF A!ProcessChallenge, A!ProcessResult, A!Send
  <2> QED
    BY <2>1, <2>2, <2>3
<1>8. ASSUME NEW f \in a_net, A!ProcessAuth(f)
      PROVE  DoorShape'
  <2> DEFINE s == A!SessionOf(f.of)
  <2>1. s \in a_sessions /\ s.of = f.of
    BY <1>8, TheSession DEF A!ProcessAuth
  <2>2. \/ UNCHANGED a_net \/ \E v : A!Send(A!Result(f.of, s, v))
    BY <1>8 DEF A!ProcessAuth
  <2>3. UNCHANGED a_sessions \/ a_sessions' = A!Without(f.of) \/ \E v : A!SetSession([s EXCEPT !.status = v])
    BY <1>8 DEF A!ProcessAuth
  <2>4. UNCHANGED <<a_requests, a_answering, a_state, a_auth, a_switches>>
    BY <1>8 DEF A!ProcessAuth, A!joiner
  <2>5. a_calls' \subseteq a_Joiners
    BY <1>8 DEF A!ProcessAuth
  <2>6. UNCHANGED <<a_Peers, a_members, a_returned>> \/ A!Enter(f.of)
    BY <1>8, Zenon DEF A!ProcessAuth, A!Admitted, A!lists
  <2>7. /\ a_Peers' \subseteq a_Joiners /\ a_members' \subseteq a_Joiners
        /\ a_returned' \subseteq a_Peers'
    BY <2>6 DEF A!Enter
  <2> HIDE DEF s
  <2>8. \A g \in a_net' : g.of \in a_Joiners
    BY <2>2 DEF A!Send, A!Result
  <2>9. SessionsAgree'
    BY <2>1, <2>3, ChangedSession
  <2> QED
    BY <2>4, <2>5, <2>8, <2>9, <2>7
<1>9. CASE A!TakeKnock
  <2>1. a_requests' \in Seq(a_Joiners)
    BY <1>9, HeadTailProperties DEF A!TakeKnock
  <2> QED
    BY <1>9, <2>1 DEF A!TakeKnock, A!host, A!joiner, A!history, A!lists
<1>10. CASE A!ApproveJoin
  <2>1. PICK a \in a_answering : \/ UNCHANGED <<a_sessions, a_net, a_Peers, a_members, a_returned>>
                                 \/ /\ A!Has(a.of)
                                    /\ \E v : /\ A!SetSession([A!SessionOf(a.of) EXCEPT !.status = v])
                                              /\ A!Send(A!Result(a.of, A!SessionOf(a.of), v))
                                              /\ A!Admitted(a.of, v)
    BY <1>10 DEF A!ApproveJoin, A!lists
  <2>2. UNCHANGED <<a_calls, a_requests, a_state, a_auth, a_switches>> /\ a_answering' = {}
    BY <1>10 DEF A!ApproveJoin, A!joiner, A!None
  <2>3. CASE UNCHANGED <<a_sessions, a_net, a_Peers, a_members, a_returned>>
    BY <2>2, <2>3
  <2>4. CASE A!Has(a.of) /\ ~UNCHANGED <<a_sessions, a_net, a_Peers, a_members, a_returned>>
    <3> DEFINE s == A!SessionOf(a.of)
    <3>1. s \in a_sessions /\ s.of = a.of
      BY <2>4, TheSession
    <3>2. PICK v : /\ A!SetSession([s EXCEPT !.status = v]) /\ A!Send(A!Result(a.of, s, v))
                   /\ A!Admitted(a.of, v)
      BY <2>1, <2>4
    <3>3. a.of \in a_Joiners
      BY <3>1 DEF IsSession
    <3> HIDE DEF s
    <3>4. SessionsAgree'
      BY <3>1, <3>2, ChangedSession
    <3>5. \A g \in a_net' : g.of \in a_Joiners
      BY <3>2, <3>3 DEF A!Send, A!Result
    <3>6. /\ a_Peers' \subseteq a_Joiners /\ a_members' \subseteq a_Joiners
          /\ a_returned' \subseteq a_Peers'
      BY <3>2, <3>3 DEF A!Admitted, A!Enter, A!lists
    <3> QED
      BY <2>2, <3>4, <3>5, <3>6
  <2> QED
    BY <2>1, <2>3, <2>4
<1>11. CASE A!ToggleKnock
  <2>1. a_requests' = <<>> \/ UNCHANGED a_requests
    BY <1>11, Zenon DEF A!ToggleKnock
  <2>2. /\ UNCHANGED <<a_Peers, a_calls, a_state, a_auth, a_net, a_sessions, a_answering>>
        /\ a_switches' = a_switches + 1 /\ UNCHANGED <<a_members, a_returned>>
    BY <1>11, Zenon DEF A!ToggleKnock, A!joiner, A!lists
  <2>3. a_switches' \in Nat
    BY <2>2
  <2>4. a_requests' \in Seq(a_Joiners)
    BY <2>1, EmptySeq
  <2> QED
    BY <2>2, <2>3, <2>4
<1>12. CASE A!LockOrUnlock
  <2>1. /\ UNCHANGED <<a_Peers, a_calls, a_requests, a_state, a_auth, a_net, a_sessions, a_answering>>
        /\ a_switches' = a_switches + 1 /\ UNCHANGED <<a_members, a_returned>>
    BY <1>12, Zenon DEF A!LockOrUnlock, A!queue, A!joiner, A!history, A!lists
  <2>2. a_switches' \in Nat
    BY <2>1
  <2> QED
    BY <2>1, <2>2
<1> QED
  BY <1>1, <1>2, <1>4, <1>5, <1>6, <1>7, <1>8, <1>9, <1>10, <1>11, <1>12, <1>3 DEF A!Next

LEMMA RoomFitsStep == DoorInv /\ [Next]_all => A!RoomFits'
<1> SUFFICES ASSUME DoorInv, A!Next PROVE A!RoomFits'
  <2>1. UNCHANGED aVars => (A!RoomFits => A!RoomFits')
    BY DEF aVars, A!RoomFits
  <2>2. [Next]_all => A!Next \/ UNCHANGED aVars
    BY DEF Next, Others, all
  <2> QED
    BY <2>1, <2>2 DEF DoorInv
<1> DEFINE Own == a_Peers \ a_returned
<1> SUFFICES ASSUME ~a_relayed, UNCHANGED a_relayed
             PROVE  Cardinality(Own') <= a_Limit - 1 /\ Cardinality(a_Peers') <= a_MaxPeers - 1
  <2>1. UNCHANGED a_relayed
    BY DEF A!Next, A!RequestJoinRoom, A!GiveUp, A!ExpireSession, A!JoinRequest, A!RelayWelcome,
       A!Leave, A!TimeOut, A!ListAgain, A!OnKnock, A!AcceptHello, A!ProcessChallenge, A!ProcessAuth,
       A!ProcessResult, A!TakeKnock, A!ApproveJoin, A!ToggleKnock, A!LockOrUnlock
  <2> QED
    BY <2>1, SameSets DEF A!RoomFits
<1>1. /\ a_Limit \in Nat /\ a_MaxPeers \in Nat /\ a_Limit <= a_MaxPeers
      /\ IsFiniteSet(a_Peers) /\ Cardinality(a_Peers) \in Nat
      /\ IsFiniteSet(Own) /\ Cardinality(Own) \in Nat
      /\ Cardinality(Own) <= a_Limit - 1 /\ Cardinality(a_Peers) <= a_MaxPeers - 1
  <2>1. IsFiniteSet(a_Joiners) /\ a_MaxPeers \in Nat /\ a_Limit \in 1 .. a_MaxPeers
    BY DoorAssumed, SameSets DEF A!AdmissionAssumption
  <2>2. IsFiniteSet(a_Peers) /\ IsFiniteSet(Own)
    <3>1. a_Peers \subseteq a_Joiners /\ Own \subseteq a_Joiners
      BY DEF DoorInv, DoorShape
    <3> HIDE DEF Own
    <3> QED
      BY <2>1, <3>1, FS_Subset
  <2>3. Cardinality(Own) <= a_Limit - 1 /\ Cardinality(a_Peers) <= a_MaxPeers - 1
    BY SameSets DEF DoorInv, A!RoomFits
  <2> HIDE DEF Own
  <2> QED
    BY <2>1, <2>2, <2>3, FS_CardinalityType
\* The room has no more members, or one that was dropped has come back.
<1>2. ASSUME a_Peers' \subseteq a_Peers, Own' \subseteq Own
      PROVE  Cardinality(Own') <= a_Limit - 1 /\ Cardinality(a_Peers') <= a_MaxPeers - 1
  <2> HIDE DEF Own
  <2>1. /\ Cardinality(a_Peers') <= Cardinality(a_Peers) /\ IsFiniteSet(a_Peers')
        /\ Cardinality(Own') <= Cardinality(Own) /\ IsFiniteSet(Own')
    BY <1>1, <1>2, FS_Subset
  <2>2. Cardinality(a_Peers') \in Nat /\ Cardinality(Own') \in Nat
    BY <2>1, FS_CardinalityType
  <2> QED
    BY <1>1, <2>1, <2>2
<1>3. ASSUME NEW j, a_Peers' = a_Peers \union {j}, j \notin a_Peers,
             Cardinality(a_Peers) < a_MaxPeers - 1,
             Own' \subseteq Own \/ Cardinality(a_Peers) < a_Limit - 1
      PROVE  Cardinality(Own') <= a_Limit - 1 /\ Cardinality(a_Peers') <= a_MaxPeers - 1
  <2>1. IsFiniteSet(a_Peers') /\ Cardinality(a_Peers') = Cardinality(a_Peers) + 1
    BY <1>1, <1>3, FS_AddElement
  <2>2. CASE Own' \subseteq Own
    <3> HIDE DEF Own
    <3>1. Cardinality(Own') <= Cardinality(Own) /\ IsFiniteSet(Own')
      BY <1>1, <2>2, FS_Subset
    <3>2. Cardinality(Own') \in Nat
      BY <3>1, FS_CardinalityType
    <3> QED
      BY <1>1, <1>3, <2>1, <3>1, <3>2
  <2>3. CASE Cardinality(a_Peers) < a_Limit - 1
    <3>1. Own' \subseteq a_Peers'
      OBVIOUS
    <3> HIDE DEF Own
    <3>2. Cardinality(Own') <= Cardinality(a_Peers') /\ IsFiniteSet(Own')
      BY <2>1, <3>1, FS_Subset
    <3>3. Cardinality(Own') \in Nat
      BY <3>2, FS_CardinalityType
    <3> QED
      BY <1>1, <1>3, <2>1, <2>3, <3>2, <3>3
  <2> QED
    BY <1>3, <2>2, <2>3
<1>4. ASSUME NEW j, A!JoinRequest(j), ~UNCHANGED a_Peers
      PROVE  Cardinality(Own') <= a_Limit - 1 /\ Cardinality(a_Peers') <= a_MaxPeers - 1
  <2>1. a_Peers' = a_Peers \union {j} /\ ~(Cardinality(a_Peers) >= a_Limit - 1 /\ j \notin a_Peers)
    BY <1>4, SameSets DEF A!JoinRequest, A!Enter
  <2>2. j \notin a_Peers
    BY <1>4, <2>1
  <2>3. Cardinality(a_Peers) < a_Limit - 1 /\ Cardinality(a_Peers) < a_MaxPeers - 1
    BY <1>1, <2>1, <2>2
  <2> QED
    BY <1>3, <2>1, <2>2, <2>3
<1>5. ASSUME NEW j, A!ListAgain(j)
      PROVE  Cardinality(Own') <= a_Limit - 1 /\ Cardinality(a_Peers') <= a_MaxPeers - 1
  <2>1. /\ a_Peers' = a_Peers \union {j} /\ j \notin a_Peers /\ Cardinality(a_Peers) < a_MaxPeers - 1
        /\ a_returned' = IF Cardinality(a_Peers) >= a_Limit - 1 THEN a_returned \union {j} ELSE a_returned
    BY <1>5, SameSets DEF A!ListAgain
  <2>2. Own' \subseteq Own \/ Cardinality(a_Peers) < a_Limit - 1
    BY <1>1, <2>1
  <2> QED
    BY <1>3, <2>1, <2>2
<1>6. \/ UNCHANGED <<a_Peers, a_returned>>
      \/ \E j : a_Peers' = a_Peers \ {j} /\ a_returned' = a_returned \ {j}
      \/ \E j : A!ListAgain(j) \/ (A!JoinRequest(j) /\ UNCHANGED a_returned)
  BY DEF A!Next, A!RequestJoinRoom, A!GiveUp, A!ExpireSession, A!RelayWelcome, A!OnKnock,
     A!JoinRequest, A!Enter, A!Leave, A!TimeOut, A!Forget, A!history, A!lists,
     A!AcceptHello, A!ProcessChallenge, A!ProcessAuth, A!ProcessResult, A!TakeKnock,
     A!ApproveJoin, A!ToggleKnock, A!LockOrUnlock, A!Admitted, A!host
<1>7. ASSUME NEW j, a_Peers' = a_Peers \ {j}, a_returned' = a_returned \ {j}
      PROVE  a_Peers' \subseteq a_Peers /\ Own' \subseteq Own
  BY <1>7
<1> HIDE DEF Own
<1>8. UNCHANGED <<a_Peers, a_returned>> => UNCHANGED <<a_Peers, Own>>
  BY DEF Own
<1>9. UNCHANGED a_returned /\ UNCHANGED a_Peers => UNCHANGED Own
  BY DEF Own
<1> QED
  BY <1>2, <1>4, <1>5, <1>6, <1>7, <1>8, <1>9

LEMMA OnlyAllowedStep == DoorInv /\ [Next]_all => OnlyAllowed'
<1> SUFFICES ASSUME DoorInv, A!Next PROVE OnlyAllowed'
  <2>1. UNCHANGED aVars => (OnlyAllowed => OnlyAllowed')
    BY DEF aVars, OnlyAllowed
  <2>2. [Next]_all => A!Next \/ UNCHANGED aVars
    BY DEF Next, Others, all
  <2> QED
    BY <2>1, <2>2 DEF DoorInv
<1>1. ASSUME A!ToggleKnock \/ A!LockOrUnlock
      PROVE  OnlyAllowed'
  <2>1. a_switches' = a_switches + 1 /\ a_switches \in Nat
    BY <1>1, Zenon DEF A!ToggleKnock, A!LockOrUnlock, DoorInv, DoorShape
  <2> QED
    BY <2>1 DEF OnlyAllowed
<1>2. ASSUME OnlyAllowed, UNCHANGED <<a_KnockToJoin, a_switches>>, a_allowed \subseteq a_allowed',
             \A s \in a_sessions' : \/ s \in a_sessions
                                    \/ a_KnockToJoin /\ s.status = "ok" => s.server \in a_allowed',
             \A f \in a_net' : \/ f \in a_net \/ f.type # "result"
                               \/ a_KnockToJoin /\ f.verdict = "ok" /\ a_switches = 0 => f.server \in a_allowed',
             \A j \in a_Joiners : a_state'[j] = "keyed" =>
                \/ a_state[j] = "keyed" /\ a_auth'[j] = a_auth[j]
                \/ a_KnockToJoin /\ a_switches = 0 => a_auth'[j] \in a_allowed'
      PROVE  OnlyAllowed'
  BY <1>2 DEF OnlyAllowed
<1>3. ASSUME NEW j \in a_Joiners, A!RequestJoinRoom(j)
      PROVE  OnlyAllowed'
  <2>1. /\ UNCHANGED <<a_KnockToJoin, a_switches, a_allowed, a_sessions>>
        /\ a_state' = [a_state EXCEPT ![j] = "joining"] /\ a_auth' = [a_auth EXCEPT ![j] = 0]
    BY <1>3 DEF A!RequestJoinRoom, A!host, A!history
  <2>2. \A f \in a_net' : f \in a_net \/ f.type # "result"
    BY <1>3 DEF A!RequestJoinRoom, A!Send
  <2>3. \A i \in a_Joiners : a_state'[i] = "keyed" => a_state[i] = "keyed" /\ a_auth'[i] = a_auth[i]
    BY <2>1 DEF DoorInv, DoorShape
  <2> QED
    BY <1>2, <2>1, <2>2, <2>3 DEF DoorInv
<1>4. ASSUME NEW j \in a_Joiners, \/ A!GiveUp(j) \/ A!ExpireSession(j) \/ A!JoinRequest(j)
                                  \/ A!RelayWelcome(j) \/ A!Leave(j) \/ A!TimeOut(j)
                                  \/ A!ListAgain(j) \/ A!OnKnock(j)
      PROVE  OnlyAllowed'
  <2>1. /\ UNCHANGED <<a_KnockToJoin, a_switches, a_allowed, a_net, a_auth>>
        /\ a_sessions' \subseteq a_sessions
        /\ \/ UNCHANGED a_state
           \/ \E v \in {"out", "in"} : a_state' = [a_state EXCEPT ![j] = v]
    BY <1>4 DEF A!GiveUp, A!ExpireSession, A!JoinRequest, A!RelayWelcome, A!Leave, A!TimeOut,
       A!ListAgain, A!Forget, A!OnKnock, A!host, A!history, A!joiner, A!Without
  <2>2. \A i \in a_Joiners : a_state'[i] = "keyed" => a_state[i] = "keyed" /\ a_auth'[i] = a_auth[i]
    BY <2>1 DEF DoorInv, DoorShape
  <2> QED
    BY <1>2, <2>1, <2>2 DEF DoorInv
<1>5. ASSUME NEW f \in a_net, A!AcceptHello(f)
      PROVE  OnlyAllowed'
  <2>1. UNCHANGED <<a_KnockToJoin, a_switches, a_allowed, a_state, a_auth>>
    BY <1>5 DEF A!AcceptHello, A!history, A!joiner
  <2>2. \A s \in a_sessions' : s \in a_sessions \/ s.status = "new"
    BY <1>5 DEF A!AcceptHello, A!Open, A!Fresh
  <2>3. \A g \in a_net' : g \in a_net \/ g.type # "result"
    BY <1>5 DEF A!AcceptHello, A!Send, A!Challenge
  <2> QED
    BY <1>2, <2>1, <2>2, <2>3 DEF DoorInv
<1>6. ASSUME NEW f \in a_net, A!ProcessChallenge(f)
      PROVE  OnlyAllowed'
  <2>1. /\ UNCHANGED <<a_KnockToJoin, a_switches, a_allowed, a_sessions, a_state>>
        /\ a_auth' = [a_auth EXCEPT ![f.of] = f.server] /\ a_state[f.of] = "joining"
    BY <1>6 DEF A!ProcessChallenge, A!host, A!history
  <2>2. \A g \in a_net' : g \in a_net \/ g.type # "result"
    BY <1>6 DEF A!ProcessChallenge, A!Send
  <2>3. \A i \in a_Joiners : a_state'[i] = "keyed" => a_state[i] = "keyed" /\ a_auth'[i] = a_auth[i]
    BY <2>1 DEF DoorInv, DoorShape
  <2> QED
    BY <1>2, <2>1, <2>2, <2>3 DEF DoorInv
<1>7. ASSUME NEW f \in a_net, A!ProcessResult(f)
      PROVE  OnlyAllowed'
  <2>1. /\ UNCHANGED <<a_KnockToJoin, a_switches, a_allowed, a_sessions, a_net, a_auth>>
        /\ f.type = "result" /\ (f.verdict = "ok" => f.server = a_auth[f.of])
        /\ a_state' = [a_state EXCEPT ![f.of] = IF f.verdict = "ok" THEN "keyed" ELSE "out"]
    BY <1>7 DEF A!ProcessResult, A!host, A!history
  <2>2. a_KnockToJoin /\ a_switches = 0 /\ f.verdict = "ok" => a_auth[f.of] \in a_allowed
    BY <2>1 DEF DoorInv, OnlyAllowed
  <2>3. ASSUME NEW i \in a_Joiners, a_state'[i] = "keyed"
        PROVE  \/ a_state[i] = "keyed" /\ a_auth'[i] = a_auth[i]
               \/ a_KnockToJoin /\ a_switches = 0 => a_auth'[i] \in a_allowed'
    <3>1. CASE i = f.of
      BY <2>1, <2>2, <2>3, <3>1 DEF DoorInv, DoorShape
    <3>2. CASE i # f.of
      BY <2>1, <2>3, <3>2 DEF DoorInv, DoorShape
    <3> QED
      BY <3>1, <3>2
  <2> QED
    BY <1>2, <2>1, <2>3 DEF DoorInv
<1>8. ASSUME NEW f \in a_net, A!ProcessAuth(f)
      PROVE  OnlyAllowed'
  <2> DEFINE s == A!SessionOf(f.of)
             verdict == IF A!Verdict = "ok" /\ a_KnockToJoin THEN "waiting" ELSE A!Verdict
  <2>1. s \in a_sessions /\ s.of = f.of
    BY <1>8, TheSession DEF A!ProcessAuth, DoorInv
  <2>2. UNCHANGED <<a_KnockToJoin, a_switches, a_allowed, a_state, a_auth>>
    BY <1>8 DEF A!ProcessAuth, A!history, A!joiner
  <2>3. \/ A!Send(A!Result(f.of, s, s.status)) /\ UNCHANGED a_sessions
        \/ UNCHANGED a_net /\ a_sessions' = A!Without(f.of)
        \/ A!Send(A!Result(f.of, s, verdict)) /\ A!SetSession([s EXCEPT !.status = verdict])
    BY <1>8 DEF A!ProcessAuth
  <2>4. a_KnockToJoin => verdict # "ok"
    OBVIOUS
  <2>5. a_KnockToJoin /\ a_switches = 0 => (s.status = "ok" => s.server \in a_allowed)
    BY <2>1 DEF DoorInv, OnlyAllowed
  <2> HIDE DEF s, verdict
  <2>6. \A g \in a_net' : \/ g \in a_net \/ g.type # "result"
                          \/ a_KnockToJoin /\ g.verdict = "ok" /\ a_switches = 0 => g.server \in a_allowed'
    BY <2>2, <2>3, <2>4, <2>5 DEF A!Send, A!Result
  <2>7. \A t \in a_sessions' : t \in a_sessions \/ (a_KnockToJoin /\ t.status = "ok" => t.server \in a_allowed')
    <3>1. ASSUME A!SetSession([s EXCEPT !.status = verdict])
          PROVE  \A t \in a_sessions' : t \in a_sessions \/ t.status = verdict
      BY <2>1, <3>1, NewStatus DEF DoorInv, DoorShape
    <3> QED
      BY <2>3, <2>4, <3>1 DEF A!Without
  <2> QED
    BY <1>2, <2>2, <2>6, <2>7 DEF DoorInv
<1>9. CASE A!TakeKnock
  <2>1. UNCHANGED <<a_KnockToJoin, a_switches, a_allowed, a_sessions, a_net, a_state, a_auth>>
    BY <1>9 DEF A!TakeKnock, A!host, A!joiner, A!history
  <2> QED
    BY <1>2, <2>1 DEF DoorInv
<1>10. CASE A!ApproveJoin
  <2>1. UNCHANGED <<a_KnockToJoin, a_switches, a_state, a_auth>>
    BY <1>10 DEF A!ApproveJoin, A!joiner
  <2>2. CASE UNCHANGED <<a_sessions, a_net, a_Peers, a_allowed>>
    BY <1>2, <2>1, <2>2 DEF DoorInv
  <2>3. CASE ~UNCHANGED <<a_sessions, a_net, a_Peers, a_allowed>>
    <3>1. PICK a \in a_answering :
            LET s == A!SessionOf(a.of)
                verdict == IF a.allow THEN A!Verdict ELSE "denied"
            IN /\ A!Has(a.of)
               /\ A!SetSession([s EXCEPT !.status = verdict])
               /\ A!Send(A!Result(a.of, s, verdict))
               /\ a_allowed' = IF a.allow THEN a_allowed \union {s.server} ELSE a_allowed
      BY <1>10, <2>3 DEF A!ApproveJoin
    <3> DEFINE s == A!SessionOf(a.of)
               verdict == IF a.allow THEN A!Verdict ELSE "denied"
    <3>2. s \in a_sessions /\ s.of = a.of
      BY <3>1, TheSession DEF DoorInv
    <3>3. /\ A!SetSession([s EXCEPT !.status = verdict]) /\ A!Send(A!Result(a.of, s, verdict))
          /\ a_allowed \subseteq a_allowed' /\ (verdict = "ok" => s.server \in a_allowed')
      BY <3>1
    <3> HIDE DEF s, verdict
    <3>4. \A g \in a_net' : g \in a_net \/ (g.verdict = "ok" => g.server \in a_allowed')
      BY <3>3 DEF A!Send, A!Result
    <3>5. \A t \in a_sessions' : t \in a_sessions \/ (t.status = "ok" => t.server \in a_allowed')
      <4>1. \A t \in a_sessions' : t \in a_sessions \/ (t.server = s.server /\ t.status = verdict)
        BY <3>2, <3>3, NewStatus DEF DoorInv, DoorShape
      <4> QED
        BY <3>3, <4>1
    <3> QED
      BY <1>2, <2>1, <3>3, <3>4, <3>5 DEF DoorInv
  <2> QED
    BY <2>2, <2>3
<1> QED
  BY <1>1, <1>3, <1>4, <1>5, <1>6, <1>7, <1>8, <1>9, <1>10 DEF A!Next

\* The queue of those who knock, with one more and without the first.
LEMMA QueueOfKnockers ==
    ASSUME NEW q \in Seq(a_Joiners)
    PROVE  /\ \A j \in a_Joiners : /\ j \in A!ToSet(Append(q, j))
                                   /\ A!ToSet(q) \subseteq A!ToSet(Append(q, j))
                                   /\ A!Contains(q, j) => j \in A!ToSet(q)
           /\ q # <<>> => \A j \in A!ToSet(q) : j = Head(q) \/ j \in A!ToSet(Tail(q))
<1> USE DEF A!ToSet, A!Contains
<1>1. Len(q) \in Nat /\ DOMAIN q = 1 .. Len(q)
  BY LenProperties
<1>2. ASSUME NEW j \in a_Joiners
      PROVE  /\ j \in A!ToSet(Append(q, j)) /\ A!ToSet(q) \subseteq A!ToSet(Append(q, j))
             /\ A!Contains(q, j) => j \in A!ToSet(q)
  <2>1. /\ DOMAIN Append(q, j) = 1 .. Len(q) + 1 /\ Append(q, j)[Len(q) + 1] = j
        /\ \A i \in 1 .. Len(q) : Append(q, j)[i] = q[i]
    BY <1>1, AppendProperties
  <2> QED
    BY <1>1, <2>1
<1>3. ASSUME q # <<>>, NEW j \in A!ToSet(q)
      PROVE  j = Head(q) \/ j \in A!ToSet(Tail(q))
  <2>1. PICK i \in 1 .. Len(q) : j = q[i]
    BY <1>1, <1>3
  <2>2. /\ Head(q) = q[1] /\ DOMAIN Tail(q) = 1 .. Len(q) - 1
        /\ \A k \in 1 .. Len(q) - 1 : Tail(q)[k] = q[k + 1]
    BY <1>1, <1>3
  <2>3. i = 1 \/ (i - 1 \in 1 .. Len(q) - 1 /\ Tail(q)[i - 1] = q[i])
    BY <1>1, <2>2
  <2> QED
    BY <2>1, <2>2, <2>3
<1> QED
  BY <1>2, <1>3

LEMMA KnockersStep == DoorInv /\ [Next]_all => A!KnockersAreAsked'
<1> DEFINE Asked(j) == \/ j \in a_calls \/ j \in A!ToSet(a_requests)
                       \/ j \in a_forgotten \/ \E a \in a_answering : a.of = j
<1> SUFFICES ASSUME DoorInv, A!Next PROVE A!KnockersAreAsked'
  <2>1. UNCHANGED aVars => (A!KnockersAreAsked => A!KnockersAreAsked')
    BY DEF aVars, A!KnockersAreAsked, A!ToSet
  <2>2. [Next]_all => A!Next \/ UNCHANGED aVars
    BY DEF Next, Others, all
  <2> QED
    BY <2>1, <2>2 DEF DoorInv
<1>1. /\ A!KnockersAreAsked <=> \A s \in a_sessions : s.status = "waiting" => Asked(s.of)
      /\ A!KnockersAreAsked' <=> \A s \in a_sessions' : s.status = "waiting" => Asked(s.of)'
  BY DEF A!KnockersAreAsked
<1>2. ASSUME \A s \in a_sessions' : s \in a_sessions \/ s.status # "waiting" \/ Asked(s.of)',
             \A j : Asked(j) => Asked(j)' \/ \A s \in a_sessions' : s.of = j => s.status # "waiting"
      PROVE  A!KnockersAreAsked'
  <2> HIDE DEF Asked
  <2>1. \A s \in a_sessions : s.status = "waiting" => Asked(s.of)
    BY <1>1 DEF DoorInv
  <2> QED
    BY <1>1, <1>2, <2>1
<1>3. ASSUME NEW j \in a_Joiners, \/ A!RequestJoinRoom(j) \/ A!GiveUp(j) \/ A!ExpireSession(j)
                                  \/ A!JoinRequest(j) \/ A!RelayWelcome(j)
                                  \/ A!Leave(j) \/ A!TimeOut(j) \/ A!ListAgain(j)
      PROVE  A!KnockersAreAsked'
  <2>1. UNCHANGED <<a_calls, a_requests, a_answering, a_forgotten>> /\ a_sessions' \subseteq a_sessions
    BY <1>3 DEF A!RequestJoinRoom, A!GiveUp, A!ExpireSession, A!JoinRequest, A!RelayWelcome,
       A!Leave, A!TimeOut, A!ListAgain, A!Forget, A!host, A!queue, A!history, A!Without
  <2> QED
    BY <1>2, <2>1
<1>4. ASSUME NEW j \in a_Joiners, A!OnKnock(j)
      PROVE  A!KnockersAreAsked'
  <2>1. /\ UNCHANGED <<a_sessions, a_answering, a_forgotten>> /\ a_calls' = a_calls \ {j}
        /\ a_requests' = IF A!Contains(a_requests, j) THEN a_requests ELSE Append(a_requests, j)
    BY <1>4 DEF A!OnKnock, A!host, A!history
  <2>2. A!ToSet(a_requests) \subseteq A!ToSet(a_requests') /\ j \in A!ToSet(a_requests')
    BY <2>1, QueueOfKnockers DEF DoorInv, DoorShape
  <2>3. \A i : Asked(i) => Asked(i)'
    <3> SUFFICES ASSUME NEW i, Asked(i)
                 PROVE  \/ i \in a_calls' \/ i \in A!ToSet(a_requests')
                        \/ i \in a_forgotten' \/ \E a \in a_answering' : a.of = i
      BY DEF A!ToSet
    <3> QED
      BY <2>1, <2>2
  <2> QED
    BY <1>2, <2>1, <2>3
<1>5. ASSUME NEW f \in a_net, A!AcceptHello(f)
      PROVE  A!KnockersAreAsked'
  <2>1. UNCHANGED <<a_calls, a_requests, a_answering, a_forgotten>>
    BY <1>5 DEF A!AcceptHello, A!queue, A!history
  <2>2. \A s \in a_sessions' : s \in a_sessions \/ s.status = "new"
    BY <1>5 DEF A!AcceptHello, A!Open, A!Fresh
  <2> QED
    BY <1>2, <2>1, <2>2
<1>6. ASSUME NEW f \in a_net, A!ProcessChallenge(f) \/ A!ProcessResult(f)
      PROVE  A!KnockersAreAsked'
  <2>1. UNCHANGED <<a_calls, a_requests, a_answering, a_forgotten, a_sessions>>
    BY <1>6 DEF A!ProcessChallenge, A!ProcessResult, A!host, A!queue, A!history
  <2> QED
    BY <1>2, <2>1
<1>7. ASSUME NEW f \in a_net, A!ProcessAuth(f)
      PROVE  A!KnockersAreAsked'
  <2> DEFINE s == A!SessionOf(f.of)
             verdict == IF A!Verdict = "ok" /\ a_KnockToJoin THEN "waiting" ELSE A!Verdict
  <2>1. s \in a_sessions /\ s.of = f.of
    BY <1>7, TheSession DEF A!ProcessAuth, DoorInv
  <2>2. UNCHANGED <<a_requests, a_answering, a_forgotten>> /\ a_calls \subseteq a_calls'
    BY <1>7 DEF A!ProcessAuth, A!history
  <2>3. \/ UNCHANGED a_sessions \/ a_sessions' = A!Without(f.of)
        \/ /\ A!SetSession([s EXCEPT !.status = verdict])
           /\ verdict = "waiting" => f.of \in a_calls'
    BY <1>7 DEF A!ProcessAuth
  <2> HIDE DEF s, verdict
  <2>4. \A j : Asked(j) => Asked(j)'
    BY <2>2
  <2>5. ASSUME NEW t \in a_sessions'
        PROVE  t \in a_sessions \/ t.status # "waiting" \/ t.of \in a_calls'
    <3>1. CASE A!SetSession([s EXCEPT !.status = verdict]) /\ (verdict = "waiting" => f.of \in a_calls')
      BY <2>1, <3>1, NewStatus DEF DoorInv, DoorShape
    <3> QED
      BY <2>3, <3>1 DEF A!Without
  <2> QED
    BY <1>2, <2>4, <2>5
<1>8. CASE A!TakeKnock
  <2>1. /\ UNCHANGED <<a_sessions, a_calls, a_forgotten>> /\ a_answering = {} /\ a_requests # <<>>
        /\ a_requests' = Tail(a_requests) /\ \E a \in a_answering' : a.of = Head(a_requests)
    BY <1>8 DEF A!TakeKnock, A!None, A!host, A!history
  <2>2. \A i : Asked(i) => Asked(i)'
    <3> SUFFICES ASSUME NEW i, Asked(i)
                 PROVE  \/ i \in a_calls' \/ i \in A!ToSet(a_requests')
                        \/ i \in a_forgotten' \/ \E a \in a_answering' : a.of = i
      BY DEF A!ToSet
    <3> QED
      BY <2>1, QueueOfKnockers DEF DoorInv, DoorShape
  <2> QED
    BY <1>2, <2>1, <2>2
<1>9. CASE A!ApproveJoin
  <2>1. PICK a \in a_answering :
          /\ UNCHANGED <<a_calls, a_requests, a_forgotten>>
          /\ IF A!Has(a.of) /\ A!SessionOf(a.of).status = "waiting"
             THEN A!SetSession([A!SessionOf(a.of) EXCEPT !.status = IF a.allow THEN A!Verdict ELSE "denied"])
             ELSE UNCHANGED a_sessions
    BY <1>9 DEF A!ApproveJoin
  <2>2. a_answering = {a}
    BY DEF DoorInv, DoorShape
  <2>3. (IF a.allow THEN A!Verdict ELSE "denied") # "waiting"
    BY DEF A!Verdict
  <2>4. CASE A!Has(a.of) /\ A!SessionOf(a.of).status = "waiting"
    <3> DEFINE s == A!SessionOf(a.of)
               v == IF a.allow THEN A!Verdict ELSE "denied"
    <3>1. s \in a_sessions /\ s.of = a.of /\ A!SetSession([s EXCEPT !.status = v])
      BY <2>1, <2>4, TheSession DEF DoorInv
    <3> HIDE DEF s, v
    <3>2. SessionsAgree
      BY DEF DoorInv, DoorShape
    <3>3. \A t \in a_sessions' : (t \in a_sessions /\ t.of # a.of) \/ (t.of = a.of /\ t.status = v)
      BY <3>1, <3>2, NewStatus
    <3>4. v # "waiting"
      BY <2>3 DEF v
    <3>5. \A j : Asked(j) => Asked(j)' \/ j = a.of
      BY <2>1, <2>2
    <3> QED
      BY <1>2, <3>3, <3>4, <3>5
  <2>5. CASE ~(A!Has(a.of) /\ A!SessionOf(a.of).status = "waiting")
    <3>1. UNCHANGED a_sessions
      BY <2>1, <2>5
    <3>2. \A t \in a_sessions : t.of = a.of => t.status # "waiting"
      BY <2>5, TheSession DEF DoorInv, A!Has
    <3>3. \A j : Asked(j) => Asked(j)' \/ j = a.of
      BY <2>1, <2>2
    <3> QED
      BY <1>2, <3>1, <3>2, <3>3
  <2> QED
    BY <2>4, <2>5
<1>10. CASE A!ToggleKnock \/ A!LockOrUnlock
  <2>1. /\ UNCHANGED <<a_sessions, a_calls, a_answering>>
        /\ \/ UNCHANGED <<a_requests, a_forgotten>>
           \/ a_forgotten' = a_forgotten \union A!ToSet(a_requests)
    BY <1>10, Zenon DEF A!ToggleKnock, A!LockOrUnlock, A!queue, A!history
  <2>2. \A j : Asked(j) => Asked(j)'
    BY <2>1
  <2> QED
    BY <1>2, <2>1, <2>2
<1> QED
  BY <1>3, <1>4, <1>5, <1>6, <1>7, <1>8, <1>9, <1>10 DEF A!Next

LEMMA DoorStep == DoorInv /\ [Next]_all => DoorInv'
  BY DoorShapeStep, RoomFitsStep, OnlyAllowedStep, KnockersStep DEF DoorInv

-----------------------------------------------------------------------------
(* What is on the screens                                                  *)

Record(k, m) == T!RecordChat(k, m)
Short(entries, m) == T!AppendShort(entries, m)

Records == INSTANCE FoldFacts WITH Step <- Record
Shorts == INSTANCE FoldFacts WITH Step <- Short

\* A ring of some of the first messages, none twice, each known as seen
Ring(log, seen, top) ==
    /\ log \in Seq(1 .. top) /\ seen \subseteq 1 .. top
    /\ \A i \in DOMAIN log : log[i] \in seen
    /\ \A i, j \in DOMAIN log : log[i] = log[j] => i = j

\* What was shown was shown once, and is known as seen.
Once(shown, seen) == \A m \in T!Said : shown[m] \in {0, 1} /\ (shown[m] # 0 => m \in seen)

\* A packet of the first messages
Carries(p, top) ==
    /\ p.type \in {"live", "part"} => p.m \in 1 .. top
    /\ p.type = "history" => p.entries \in Seq(1 .. top)

\* How things stand while a room keeps everything
AllKept(top) ==
    /\ \A p \in t_net : Carries(p, top)
    /\ \A n \in t_Members : Ring(t_chatLog[n], t_chatSeen[n], top) /\ Once(t_shown[n], t_chatSeen[n])

ChatShape ==
    /\ t_said \in Nat /\ t_inRoom \subseteq t_Members
    /\ \A p \in t_net : p.to \in t_Members
    /\ DOMAIN t_chatLog = t_Members /\ DOMAIN t_chatSeen = t_Members
    /\ DOMAIN t_shown = t_Members /\ \A n \in t_Members : DOMAIN t_shown[n] = T!Said

ChatInv == ChatShape /\ (t_said <= t_Limit => AllKept(t_said))

\* A ring without one of the messages has room for it.
LEMMA RoomForOne ==
    ASSUME NEW top \in Nat, NEW log, NEW seen, Ring(log, seen, top), NEW m \in 1 .. top, m \notin seen
    PROVE  Len(log) < top
<1> DEFINE rest == (1 .. top) \ {m}
<1> \A n \in Nat : IsFiniteSet(1 .. n) /\ Cardinality(1 .. n) = n
  BY FS_Interval
<1>1. IsFiniteSet(1 .. top) /\ Cardinality(1 .. top) = top
  OBVIOUS
<1>2. IsFiniteSet(rest) /\ Cardinality(rest) = top - 1
  BY <1>1, FS_RemoveElement
<1>3. Len(log) \in Nat /\ DOMAIN log = 1 .. Len(log)
  BY DEF Ring
<1>4. IsFiniteSet(1 .. Len(log)) /\ Cardinality(1 .. Len(log)) = Len(log)
  BY <1>3
<1>5. log \in [1 .. Len(log) -> rest]
  BY <1>3 DEF Ring
<1> HIDE DEF rest
<1> SUFFICES ASSUME Cardinality(rest) < Cardinality(1 .. Len(log)) PROVE FALSE
  BY <1>2, <1>3, <1>4
<1>6. \E x, y \in 1 .. Len(log) : x # y /\ log[x] = log[y]
  BY <1>2, <1>4, <1>5, FS_PigeonHole
<1> QED
  BY <1>3, <1>6 DEF Ring

\* What recordChat starts from, with more and more messages
Recorded(k, before, top) ==
    \E log, seen, off, fresh :
      /\ k = [log |-> log, seen |-> seen, off |-> off, fresh |-> fresh]
      /\ Ring(log, seen, top)
      /\ before \subseteq seen /\ fresh \subseteq seen /\ fresh \intersect before = {}

LEMMA RecordKeeps ==
    ASSUME NEW k, NEW before, NEW top \in Nat, NEW m \in 1 .. top, top <= t_Limit, t_Limit \in Nat,
           Recorded(k, before, top)
    PROVE  /\ Recorded(T!RecordChat(k, m), before, top)
           /\ k.fresh \subseteq T!RecordChat(k, m).fresh
           /\ m \notin k.seen => m \in T!RecordChat(k, m).fresh
<1>1. PICK log, seen, off, fresh :
        /\ k = [log |-> log, seen |-> seen, off |-> off, fresh |-> fresh]
        /\ Ring(log, seen, top)
        /\ before \subseteq seen /\ fresh \subseteq seen /\ fresh \intersect before = {}
  BY DEF Recorded
<1>2. CASE m \in seen
  <2>1. T!RecordChat(k, m) = k
    BY <1>1, <1>2 DEF T!RecordChat
  <2> QED
    BY <1>1, <1>2, <2>1
<1>3. CASE m \notin seen
  <2> DEFINE more == Append(log, m)
             later == IF off THEN log ELSE more
  <2>1. Len(log) < top /\ Len(log) \in Nat /\ DOMAIN log = 1 .. Len(log)
    <3>1. Len(log) < top
      BY <1>1, <1>3, RoomForOne
    <3> QED
      BY <1>1, <3>1 DEF Ring
  <2>2. /\ more \in Seq(1 .. top) /\ Len(more) = Len(log) + 1 /\ DOMAIN more = 1 .. Len(log) + 1
        /\ more[Len(log) + 1] = m /\ \A i \in 1 .. Len(log) : more[i] = log[i]
    BY <1>1, <2>1 DEF Ring
  <2> HIDE DEF more
  <2>3. T!Newest(more) = more
    BY <2>1, <2>2 DEF T!Newest
  <2>4. T!ToSet(log) \ T!ToSet(more) = {}
    BY <2>1, <2>2 DEF T!ToSet
  <2>5. T!RecordChat(k, m) = [log |-> later, seen |-> seen \union {m}, off |-> off, fresh |-> fresh \union {m}]
    BY <1>1, <1>3, <2>3, <2>4 DEF T!RecordChat, more
  <2>6. Ring(later, seen \union {m}, top)
    <3>1. Ring(log, seen \union {m}, top)
      BY <1>1 DEF Ring
    <3>2. Ring(more, seen \union {m}, top)
      <4> \A i \in DOMAIN more : i \in DOMAIN log \/ i = Len(log) + 1
        BY <2>1, <2>2
      <4> \A i \in DOMAIN log : more[i] = log[i] /\ log[i] \in seen
        BY <1>1, <2>1, <2>2 DEF Ring
      <4>1. \A i \in DOMAIN more : more[i] \in seen \union {m}
        BY <2>2
      <4>2. ASSUME NEW i \in DOMAIN more, NEW j \in DOMAIN more, more[i] = more[j] PROVE i = j
        BY <1>1, <1>3, <2>2, <4>2 DEF Ring
      <4>3. seen \union {m} \subseteq 1 .. top
        BY <1>1 DEF Ring
      <4> QED
        BY <2>2, <4>1, <4>2, <4>3 DEF Ring
    <3> QED
      BY <3>1, <3>2
  <2> HIDE DEF later
  <2>7. before \subseteq seen \union {m} /\ fresh \union {m} \subseteq seen \union {m}
        /\ (fresh \union {m}) \intersect before = {}
    BY <1>1, <1>3
  <2>8. Recorded(T!RecordChat(k, m), before, top)
    BY <2>5, <2>6, <2>7 DEF Recorded
  <2> QED
    BY <1>1, <2>5, <2>8
<1> QED
  BY <1>1, <1>2, <1>3

LEMMA RecordAllKeeps ==
    ASSUME NEW n, NEW top \in Nat, top <= t_Limit, t_Limit \in Nat, NEW entries \in Seq(1 .. top),
           Ring(t_chatLog[n], t_chatSeen[n], top)
    PROVE  Recorded(T!RecordAll(n, entries), t_chatSeen[n], top)
<1> DEFINE base == [log |-> t_chatLog[n], seen |-> t_chatSeen[n], off |-> t_chatHistoryOff[n], fresh |-> {}]
           last == Len(entries)
<1>1. T!RecordAll(n, entries) = Records!FoldLeft(Record, base, entries)
  BY DEF T!RecordAll, T!FoldLeft, T!MapThenFoldSet, T!Max, Records!FoldLeft, Records!MapThenFoldSet,
         Records!Max, Record
<1>2. Recorded(base, t_chatSeen[n], top)
  <2>1. t_chatSeen[n] \subseteq t_chatSeen[n] /\ {} \subseteq t_chatSeen[n] /\ {} \intersect t_chatSeen[n] = {}
    OBVIOUS
  <2> QED
    BY <2>1 DEF Recorded
<1>3. last \in Nat /\ DOMAIN entries = 1 .. last
  OBVIOUS
<1> HIDE DEF base, last
<1>4. PICK after : Records!StepByStep(after, last, base, entries)
                   /\ Records!FoldLeft(Record, base, entries) = after[last]
  BY <1>3, Records!FoldStepByStep
<1> DEFINE good == {k \in 0 .. last : Recorded(after[k], t_chatSeen[n], top)}
<1>5. 0 \in good
  BY <1>2, <1>3, <1>4 DEF Records!StepByStep
<1>6. ASSUME NEW k \in good, k < last PROVE k + 1 \in good
  <2>1. k \in 0 .. last /\ k + 1 \in 1 .. last /\ k + 1 \in 0 .. last
    BY <1>3, <1>6
  <2>2. entries[k + 1] \in 1 .. top
    BY <1>3, <2>1
  <2>3. after[k + 1] = T!RecordChat(after[k], entries[k + 1])
    BY <1>4, <1>6, <2>1 DEF Records!StepByStep, Record
  <2>4. Recorded(after[k + 1], t_chatSeen[n], top)
    BY <2>2, <2>3, RecordKeeps
  <2> QED
    BY <2>1, <2>4
<1> HIDE DEF good
<1>7. last \in good
  BY <1>3, <1>5, <1>6, Records!UpTo
<1> QED
  BY <1>1, <1>4, <1>7 DEF good

LEMMA ShownNow == \A m : T!AddChatMessage(m, 0) = 1 /\ T!AddChatHistory(m, 0) = 1
BY DEF T!AddChatMessage, T!AddChatHistory

\* A member that keeps entries shows what it did not know.
LEMMA KeepKeeps ==
    ASSUME t_Limit \in Nat, ChatShape, NEW n \in t_Members, NEW top \in Nat, top <= t_Limit,
           NEW entries \in Seq(1 .. top),
           \A o \in t_Members : Ring(t_chatLog[o], t_chatSeen[o], top) /\ Once(t_shown[o], t_chatSeen[o]),
           T!Keep(n, entries, T!AddChatMessage) \/ T!Keep(n, entries, T!AddChatHistory)
    PROVE  \A o \in t_Members : Ring(t_chatLog'[o], t_chatSeen'[o], top) /\ Once(t_shown'[o], t_chatSeen'[o])
<1> DEFINE k == T!RecordAll(n, entries)
<1>1. PICK log, seen, off, fresh :
        /\ k = [log |-> log, seen |-> seen, off |-> off, fresh |-> fresh]
        /\ Ring(log, seen, top)
        /\ t_chatSeen[n] \subseteq seen /\ fresh \subseteq seen /\ fresh \intersect t_chatSeen[n] = {}
  BY RecordAllKeeps DEF Recorded
<1>2. /\ t_chatLog' = [t_chatLog EXCEPT ![n] = log] /\ t_chatSeen' = [t_chatSeen EXCEPT ![n] = seen]
      /\ \/ t_shown' = [t_shown EXCEPT ![n] =
              [m \in T!Said |-> IF m \in fresh THEN T!AddChatMessage(m, @[m]) ELSE @[m]]]
         \/ t_shown' = [t_shown EXCEPT ![n] =
              [m \in T!Said |-> IF m \in fresh THEN T!AddChatHistory(m, @[m]) ELSE @[m]]]
  <2>1. k.log = log /\ k.seen = seen /\ k.fresh = fresh
    BY <1>1
  <2> QED
    BY <2>1 DEF T!Keep
<1> HIDE DEF k
<1>3. /\ t_chatLog'[n] = log /\ t_chatSeen'[n] = seen
      /\ \A o \in t_Members \ {n} : /\ t_chatLog'[o] = t_chatLog[o] /\ t_chatSeen'[o] = t_chatSeen[o]
                                    /\ t_shown'[o] = t_shown[o]
  BY <1>2 DEF ChatShape
<1>4. ASSUME NEW m \in T!Said PROVE t_shown'[n][m] \in {0, 1} /\ (t_shown'[n][m] # 0 => m \in seen)
  <2>1. t_shown[n][m] \in {0, 1} /\ (t_shown[n][m] # 0 => m \in t_chatSeen[n])
    BY DEF Once
  <2>2. m \notin fresh => t_shown'[n][m] = t_shown[n][m]
    BY <1>2 DEF ChatShape
  <2>3. m \in fresh => \/ t_shown'[n][m] = T!AddChatMessage(m, t_shown[n][m])
                       \/ t_shown'[n][m] = T!AddChatHistory(m, t_shown[n][m])
    BY <1>2 DEF ChatShape
  <2>4. m \in fresh => t_shown[n][m] = 0 /\ m \in seen
    BY <1>1, <2>1
  <2>5. m \in fresh => t_shown'[n][m] = 1 /\ m \in seen
    <3>1. T!AddChatMessage(m, 0) = 1 /\ T!AddChatHistory(m, 0) = 1
      BY ShownNow
    <3>2. CASE m \in fresh
      <4>1. t_shown[n][m] = 0
        BY <2>4, <3>2
      <4> QED
        BY <2>3, <2>4, <3>1, <3>2, <4>1, Zenon
    <3> QED
      BY <3>2
  <2>6. m \in t_chatSeen[n] => m \in seen
    BY <1>1
  <2> QED
    BY <2>1, <2>2, <2>5, <2>6
<1>5. Ring(t_chatLog'[n], t_chatSeen'[n], top) /\ Once(t_shown'[n], t_chatSeen'[n])
  BY <1>1, <1>3, <1>4 DEF Once
<1> QED
  BY <1>3, <1>5

\* The short messages of a ring are a sequence of the messages in it.
LEMMA ShortOnes ==
    ASSUME NEW top \in Nat, NEW log \in Seq(1 .. top)
    PROVE  T!FoldLeft(T!AppendShort, <<>>, log) \in Seq(1 .. top)
<1> DEFINE last == Len(log)
<1>1. T!FoldLeft(T!AppendShort, <<>>, log) = Shorts!FoldLeft(Short, <<>>, log)
  BY DEF T!FoldLeft, T!MapThenFoldSet, T!Max, Shorts!FoldLeft, Shorts!MapThenFoldSet, Shorts!Max, Short
<1>2. last \in Nat /\ DOMAIN log = 1 .. last
  OBVIOUS
<1> HIDE DEF last
<1>3. PICK after : Shorts!StepByStep(after, last, <<>>, log)
                   /\ Shorts!FoldLeft(Short, <<>>, log) = after[last]
  BY <1>2, Shorts!FoldStepByStep
<1> DEFINE good == {k \in 0 .. last : after[k] \in Seq(1 .. top)}
<1>4. 0 \in good
  <2>1. <<>> \in Seq(1 .. top) /\ 0 \in 0 .. last
    BY <1>2
  <2>2. after[0] = <<>>
    BY <1>3 DEF Shorts!StepByStep
  <2> QED
    BY <2>1, <2>2, Zenon
<1>5. ASSUME NEW k \in good, k < last PROVE k + 1 \in good
  <2>1. k \in 0 .. last /\ k + 1 \in 1 .. last /\ k + 1 \in 0 .. last
    BY <1>2, <1>5
  <2>2. log[k + 1] \in 1 .. top
    BY <1>2, <2>1
  <2>3. after[k + 1] = T!AppendShort(after[k], log[k + 1])
    BY <1>3, <1>5, <2>1 DEF Shorts!StepByStep, Short
  <2>4. after[k + 1] \in Seq(1 .. top)
    <3> DEFINE before == after[k]
    <3>1. before \in Seq(1 .. top)
      OBVIOUS
    <3> HIDE DEF before
    <3>2. Append(before, log[k + 1]) \in Seq(1 .. top)
      BY <2>2, <3>1
    <3> QED
      BY <2>3, <3>1, <3>2 DEF T!AppendShort, before
  <2> QED
    BY <2>1, <2>4
<1> HIDE DEF good
<1>6. last \in good
  BY <1>2, <1>4, <1>5, Shorts!UpTo
<1> QED
  BY <1>1, <1>3, <1>6 DEF good

\* What holds of the first messages holds with more of them.
LEMMA MoreMessages ==
    ASSUME NEW few \in Nat, NEW many \in Nat, few <= many, AllKept(few)
    PROVE  AllKept(many)
<1>1. 1 .. few \subseteq 1 .. many
  OBVIOUS
<1>2. \A s : s \in Seq(1 .. few) => s \in Seq(1 .. many)
  BY <1>1
<1> HIDE <1>1
<1> QED
  BY <1>1, <1>2 DEF AllKept, Carries, Ring

LEMMA ChatInit == Init => ChatInv
<1> SUFFICES ASSUME T!Init PROVE ChatInv
  BY DEF Init
<1> USE ChatAssumed DEF T!ChatHistoryAssumption
<1>1. ChatShape
  BY DEF T!Init, ChatShape
<1>2. AllKept(t_said)
  BY DEF T!Init, AllKept, Ring, Once
<1> QED
  BY <1>1, <1>2 DEF ChatInv

\* A member keeps entries, and the network stays as it is.
LEMMA ArrivalKeeps ==
    ASSUME t_Limit \in Nat, ChatInv, NEW n \in t_Members, NEW entries,
           t_said <= t_Limit => entries \in Seq(1 .. t_said), UNCHANGED <<t_said, t_inRoom, t_net>>,
           T!Keep(n, entries, T!AddChatMessage) \/ T!Keep(n, entries, T!AddChatHistory)
    PROVE  ChatInv'
<1>1. ChatShape'
  BY DEF ChatInv, ChatShape, T!Keep
<1>2. t_said <= t_Limit => AllKept(t_said)'
  <2> SUFFICES ASSUME t_said <= t_Limit PROVE AllKept(t_said)'
    OBVIOUS
  <2>1. t_said \in Nat /\ AllKept(t_said) /\ ChatShape
    BY DEF ChatInv, ChatShape
  <2>2. \A o \in t_Members : Ring(t_chatLog'[o], t_chatSeen'[o], t_said) /\ Once(t_shown'[o], t_chatSeen'[o])
    BY <2>1, KeepKeeps DEF AllKept
  <2> QED
    BY <2>1, <2>2 DEF AllKept, Carries
<1> QED
  BY <1>1, <1>2 DEF ChatInv

\* A packet more or less, and the rings as they were
LEMMA PacketsKeep ==
    ASSUME ChatInv, UNCHANGED <<t_said, t_chatLog, t_chatSeen, t_shown>>, t_inRoom' \subseteq t_Members,
           \A p \in t_net' : p \in t_net \/ (p.to \in t_Members /\ (t_said <= t_Limit => Carries(p, t_said)))
    PROVE  ChatInv'
<1>1. ChatShape'
  BY DEF ChatInv, ChatShape
<1>2. t_said <= t_Limit => AllKept(t_said)'
  BY DEF ChatInv, AllKept, Carries
<1> QED
  BY <1>1, <1>2 DEF ChatInv

\* A ring that is emptied, and nothing new on the screens
LEMMA EmptyKeeps ==
    ASSUME ChatInv, NEW n, UNCHANGED <<t_said, t_net>>, t_inRoom' \subseteq t_Members,
           t_chatLog' = [t_chatLog EXCEPT ![n] = <<>>],
           \/ UNCHANGED <<t_chatSeen, t_shown>>
           \/ /\ t_chatSeen' = [t_chatSeen EXCEPT ![n] = {}]
              /\ t_shown' = [t_shown EXCEPT ![n] = [m \in T!Said |-> 0]]
    PROVE  ChatInv'
<1>1. ChatShape'
  BY DEF ChatInv, ChatShape
<1>2. t_said <= t_Limit => AllKept(t_said)'
  <2> SUFFICES ASSUME t_said <= t_Limit, NEW o \in t_Members
               PROVE  Ring(t_chatLog'[o], t_chatSeen'[o], t_said) /\ Once(t_shown'[o], t_chatSeen'[o])
    BY DEF ChatInv, AllKept, Carries
  <2>1. Ring(t_chatLog[o], t_chatSeen[o], t_said) /\ Once(t_shown[o], t_chatSeen[o])
    BY DEF ChatInv, AllKept
  <2>2. Ring(<<>>, t_chatSeen[o], t_said) /\ Ring(<<>>, {}, t_said) /\ Once([m \in T!Said |-> 0], {})
    BY <2>1 DEF Ring, Once
  <2> QED
    BY <2>1, <2>2 DEF ChatInv, ChatShape
<1> QED
  BY <1>1, <1>2 DEF ChatInv

LEMMA ChatStep == ChatInv /\ [Next]_all => ChatInv'
<1> SUFFICES ASSUME ChatInv, [Next]_all PROVE ChatInv'
  OBVIOUS
<1> USE ChatAssumed DEF T!ChatHistoryAssumption
<1>1. ChatShape /\ t_said \in Nat /\ (t_said <= t_Limit => AllKept(t_said))
  BY DEF ChatInv, ChatShape
<1>2. CASE UNCHANGED tVars
  BY <1>2, <1>1, PacketsKeep DEF tVars, ChatShape
<1>3. ASSUME NEW n \in t_Members, T!Join(n)
      PROVE  ChatInv'
  BY <1>1, <1>3, PacketsKeep DEF T!Join, T!kept, ChatShape
<1>4. ASSUME NEW n \in t_Members, T!Leave(n)
      PROVE  ChatInv'
  <2>1. t_inRoom' \subseteq t_Members
    BY <1>1, <1>4 DEF T!Leave, ChatShape
  <2> QED
    BY <1>4, <2>1, EmptyKeeps DEF T!Leave
<1>5. ASSUME NEW n \in t_Members, T!SendChatMessage(n)
      PROVE  ChatInv'
  <2> DEFINE top == t_said + 1
  <2>1. n \in t_inRoom /\ UNCHANGED t_inRoom /\ t_said' = top /\ T!Keep(n, <<top>>, T!AddChatMessage)
    BY <1>5 DEF T!SendChatMessage
  <2>2. \A p \in t_net' : \/ p \in t_net
                          \/ \E o \in t_inRoom : p = T!Live(top, o) \/ p \in T!Parts(top, FALSE, o)
    BY <1>5 DEF T!SendChatMessage
  <2>3. top \in Nat /\ top \in 1 .. top /\ t_said <= top
    BY <1>1
  <2> HIDE DEF top
  <2>4. \A p \in t_net' : p \in t_net \/ (p.to \in t_Members /\ Carries(p, top))
    BY <1>1, <2>2, <2>3 DEF ChatShape, T!Live, T!Parts, Carries
  <2>5. ChatShape'
    BY <1>1, <2>1, <2>3, <2>4 DEF ChatShape, T!Keep
  <2>6. ASSUME t_said' <= t_Limit PROVE AllKept(t_said)'
    <3>1. t_said <= t_Limit /\ top <= t_Limit
      BY <1>1, <2>1, <2>3, <2>6
    <3>2. AllKept(top)
      BY <1>1, <2>3, <3>1, MoreMessages
    <3>3. <<top>> \in Seq(1 .. top)
      BY <2>3
    <3>4. \A o \in t_Members : Ring(t_chatLog'[o], t_chatSeen'[o], top) /\ Once(t_shown'[o], t_chatSeen'[o])
      BY <1>1, <2>1, <2>3, <3>1, <3>2, <3>3, KeepKeeps DEF AllKept
    <3>5. \A p \in t_net' : Carries(p, top)
      BY <2>4, <3>2 DEF AllKept
    <3> QED
      BY <2>1, <3>4, <3>5 DEF AllKept, Carries
  <2> QED
    BY <2>5, <2>6 DEF ChatInv
<1>6. ASSUME NEW n \in t_Members, NEW to \in t_Members, T!SendChatHistory(n, to)
      PROVE  ChatInv'
  <2> DEFINE log == t_chatLog[n]
             short == T!FoldLeft(T!AppendShort, <<>>, log)
  <2>1. \A p \in t_net' : \/ p \in t_net
                          \/ p = T!History(short, to)
                          \/ \E m \in T!ToSet(log) : p \in T!Parts(m, TRUE, to)
    BY <1>6 DEF T!SendChatHistory
  <2>2. t_said <= t_Limit => log \in Seq(1 .. t_said)
    BY <1>1 DEF AllKept, Ring
  <2>3. t_said <= t_Limit => short \in Seq(1 .. t_said)
    BY <1>1, <2>2, ShortOnes
  <2>4. \A m \in T!ToSet(log) : t_said <= t_Limit => m \in 1 .. t_said
    <3> SUFFICES ASSUME t_said <= t_Limit PROVE \A i \in DOMAIN log : log[i] \in 1 .. t_said
      BY DEF T!ToSet
    <3> DEFINE msgs == 1 .. t_said
    <3>1. log \in Seq(msgs)
      BY <2>2
    <3> HIDE DEF log, msgs
    <3>2. \A i \in DOMAIN log : log[i] \in msgs
      BY <3>1
    <3> QED
      BY <3>2 DEF msgs
  <2> HIDE DEF log, short
  <2>5. \A p \in t_net' : p \in t_net \/ (p.to \in t_Members /\ (t_said <= t_Limit => Carries(p, t_said)))
    BY <2>1, <2>3, <2>4 DEF Carries, T!History, T!Parts
  <2>6. UNCHANGED <<t_said, t_inRoom, t_chatLog, t_chatSeen, t_shown>>
    BY <1>6 DEF T!SendChatHistory, T!kept
  <2> QED
    BY <1>1, <2>5, <2>6, PacketsKeep DEF ChatShape
<1>7. ASSUME NEW p \in t_net, T!ReceiveLive(p)
      PROVE  ChatInv'
  <2>1. p.to \in t_Members /\ (t_said <= t_Limit => <<p.m>> \in Seq(1 .. t_said))
    <3>1. p.to \in t_Members /\ (t_said <= t_Limit => Carries(p, t_said)) /\ p.type = "live"
      BY <1>1, <1>7 DEF ChatShape, AllKept, T!ReceiveLive
    <3> QED
      BY <3>1 DEF Carries
  <2>2. UNCHANGED <<t_said, t_inRoom, t_net>>
    BY <1>7 DEF T!ReceiveLive
  <2>3. \/ UNCHANGED <<t_chatLog, t_chatSeen, t_shown>>
        \/ T!Keep(p.to, <<p.m>>, T!AddChatMessage)
    BY <1>7 DEF T!ReceiveLive, T!kept
  <2> QED
    BY <1>1, <2>1, <2>2, <2>3, PacketsKeep, ArrivalKeeps DEF ChatShape
<1>8. ASSUME NEW p \in t_net, T!ReceiveHistory(p)
      PROVE  ChatInv'
  <2>1. p.to \in t_Members /\ (t_said <= t_Limit => p.entries \in Seq(1 .. t_said))
    BY <1>1, <1>8 DEF ChatShape, AllKept, T!ReceiveHistory, Carries
  <2>2. UNCHANGED <<t_said, t_inRoom, t_net>> /\ T!Keep(p.to, p.entries, T!AddChatHistory)
    BY <1>8 DEF T!ReceiveHistory
  <2> QED
    BY <2>1, <2>2, ArrivalKeeps
<1>9. ASSUME NEW p \in t_net, T!ReceivePart(p)
      PROVE  ChatInv'
  <2>1. p.to \in t_Members /\ (t_said <= t_Limit => <<p.m>> \in Seq(1 .. t_said))
    <3>1. p.to \in t_Members /\ (t_said <= t_Limit => Carries(p, t_said)) /\ p.type = "part"
      BY <1>1, <1>9 DEF ChatShape, AllKept, T!ReceivePart
    <3> QED
      BY <3>1 DEF Carries
  <2>2. UNCHANGED <<t_said, t_inRoom, t_net>>
    BY <1>9 DEF T!ReceivePart
  <2>3. \/ UNCHANGED <<t_chatLog, t_chatSeen, t_shown>>
        \/ T!Keep(p.to, <<p.m>>, T!AddChatMessage)
        \/ T!Keep(p.to, <<p.m>>, T!AddChatHistory)
    BY <1>9 DEF T!ReceivePart, T!kept
  <2> QED
    BY <1>1, <2>1, <2>2, <2>3, PacketsKeep, ArrivalKeeps DEF ChatShape
<1>10. ASSUME NEW n \in t_Members, T!DropParts(n) \/ T!SendPing(n)
      PROVE  ChatInv'
  <2>1. UNCHANGED <<t_said, t_inRoom, t_chatLog, t_chatSeen, t_shown>>
    BY <1>10 DEF T!DropParts, T!SendPing, T!kept
  <2>2. \A p \in t_net' : p \in t_net \/ p = T!Ping(t_chatHistoryOff[t_Host], n)
    BY <1>10 DEF T!DropParts, T!SendPing
  <2>3. \A p \in t_net' : p \in t_net \/ (p.to \in t_Members /\ (t_said <= t_Limit => Carries(p, t_said)))
    BY <2>2 DEF T!Ping, Carries
  <2> QED
    BY <1>1, <2>1, <2>3, PacketsKeep DEF ChatShape
<1>11. ASSUME T!Switch \/ \E p \in t_net : T!ReceivePing(p)
      PROVE  ChatInv'
  <2>1. UNCHANGED <<t_said, t_inRoom, t_net, t_chatSeen, t_shown>>
    BY <1>11 DEF T!Switch, T!ReceivePing
  <2>2. t_chatLog' = t_chatLog \/ \E n : t_chatLog' = [t_chatLog EXCEPT ![n] = <<>>]
    BY <1>11 DEF T!Switch, T!ReceivePing, T!SetChatHistory
  <2> QED
    BY <1>1, <2>1, <2>2, PacketsKeep, EmptyKeeps DEF ChatShape
<1>12. T!Next \/ UNCHANGED tVars
  BY DEF Next, Others, all
<1> QED
  BY <1>2, <1>3, <1>4, <1>5, <1>6, <1>7, <1>8, <1>9, <1>10, <1>11, <1>12 DEF T!Next

-----------------------------------------------------------------------------
(* The types of the hosts                                                  *)

\* What the relay tells, one piece at a time.
HostWord == [left : h_Nodes \union {0}, host : h_Nodes \union {0}]
HostKeys == H!Key \union {H!EmptyKey}

\* A datagram between two members of the room
HostPacket(p) ==
    /\ p.type \in {"leave", "rekey", "ack"} /\ p.from \in h_Nodes /\ p.to \in H!Others(p.from)
    /\ p.type = "rekey" => p.key \in H!Key /\ p.dir \subseteq H!Others(p.to)

\* The members of the room as each of them knows them
HostRoles ==
    /\ h_Peers \in [h_Nodes -> SUBSET h_Nodes] /\ h_memberKeys \in [h_Nodes -> SUBSET h_Nodes]
    /\ h_departed \in [h_Nodes -> SUBSET h_Nodes]
    /\ h_HostID \in [h_Nodes -> h_Nodes] /\ h_IsHost \in [h_Nodes -> BOOLEAN]
    /\ \A n \in h_Nodes : n \notin h_Peers[n] /\ n \notin h_memberKeys[n] /\ n \notin h_departed[n]

\* The keys of each member, and its last rotation
HostRings ==
    /\ h_ring \in [h_Nodes -> [cur : H!Key, next : HostKeys, prev : HostKeys]]
    /\ h_rekey \in [h_Nodes -> [key : HostKeys, to : SUBSET h_Nodes, acked : SUBSET h_Nodes, live : BOOLEAN]]
    /\ \A n \in h_Nodes : n \notin h_rekey[n].to /\ h_rekey[n].acked \subseteq h_rekey[n].to
    /\ h_timers \subseteq h_Nodes \X H!Key

\* What is under way between the members, and from the relay to those in the room
HostWords ==
    /\ \A p \in h_net : HostPacket(p)
    /\ h_batches \in [h_Nodes -> SUBSET (Seq(HostWord) \ {<<>>})]
    /\ \A n \in h_Nodes \ h_in : h_batches[n] = {}

HostRoom ==
    /\ h_in \subseteq h_Nodes /\ h_leaving \subseteq h_Nodes \ h_in /\ h_relayHost \in h_Nodes
    /\ h_losses \in 0 .. h_MaxLosses /\ h_rekeyDue \subseteq h_in

HostTypes == HostRoom /\ HostRoles /\ HostRings /\ HostWords

LEMMA HostTyped == HostTypes => H!TypeOK
<1> SUFFICES ASSUME HostTypes PROVE H!TypeOK
  OBVIOUS
<1> USE DEF HostTypes
<1>1. /\ h_in \subseteq h_Nodes /\ h_leaving \subseteq h_Nodes \ h_in /\ h_relayHost \in h_Nodes
      /\ h_losses \in 0 .. h_MaxLosses /\ h_rekeyDue \subseteq h_in
  BY DEF HostRoom
<1>2. \A p \in h_net : p.type \in {"leave", "rekey", "ack"} /\ p.from \in h_Nodes /\ p.to \in H!Others(p.from)
  BY DEF HostWords, HostPacket
<1>3. h_timers \subseteq h_Nodes \X H!Key
  BY DEF HostRings
<1> SUFFICES ASSUME NEW n \in h_Nodes
             PROVE  /\ h_Peers[n] \subseteq H!Others(n) /\ h_memberKeys[n] \subseteq H!Others(n)
                    /\ h_departed[n] \subseteq H!Others(n)
                    /\ h_HostID[n] \in h_Nodes /\ h_IsHost[n] \in BOOLEAN
                    /\ h_ring[n].cur \in H!Key /\ {h_ring[n].next, h_ring[n].prev} \subseteq H!Key \union {H!EmptyKey}
                    /\ h_rekey[n].acked \subseteq h_rekey[n].to /\ h_rekey[n].to \subseteq H!Others(n)
                    /\ \A batch \in h_batches[n] : batch \in Seq([left : h_Nodes \union {0}, host : h_Nodes \union {0}])
  BY <1>1, <1>2, <1>3 DEF H!TypeOK
<1>4. /\ h_Peers[n] \subseteq H!Others(n) /\ h_memberKeys[n] \subseteq H!Others(n)
      /\ h_departed[n] \subseteq H!Others(n)
      /\ h_HostID[n] \in h_Nodes /\ h_IsHost[n] \in BOOLEAN
  BY DEF HostRoles, H!Others
<1>5. /\ h_ring[n].cur \in H!Key /\ {h_ring[n].next, h_ring[n].prev} \subseteq H!Key \union {H!EmptyKey}
      /\ h_rekey[n].acked \subseteq h_rekey[n].to /\ h_rekey[n].to \subseteq H!Others(n)
  <2>1. h_ring[n] \in [cur : H!Key, next : HostKeys, prev : HostKeys] /\ h_rekey[n].to \subseteq h_Nodes
    BY DEF HostRings
  <2> QED
    BY <2>1 DEF HostRings, H!Others, HostKeys
<1>6. \A batch \in h_batches[n] : batch \in Seq([left : h_Nodes \union {0}, host : h_Nodes \union {0}])
  BY DEF HostWords, HostWord
<1> QED
  BY <1>4, <1>5, <1>6

LEMMA HostTypesInit == Init => HostTypes
<1> SUFFICES ASSUME H!Init PROVE HostTypes
  BY DEF Init
<1> USE HostAssumed DEF H!HostHandoverAssumption
<1>1. HostRoom
  BY DEF H!Init, HostRoom
<1>2. HostRoles
  BY DEF H!Init, HostRoles, H!Others
<1>3. HostRings
  <2>1. H!FirstKey \in H!Key /\ H!EmptyKey \in HostKeys
    BY DEF H!FirstKey, H!Key, HostKeys
  <2>2. H!NoRotation = [key |-> H!EmptyKey, to |-> {}, acked |-> {}, live |-> FALSE]
    BY DEF H!NoRotation
  <2>3. h_ring \in [h_Nodes -> [cur : H!Key, next : HostKeys, prev : HostKeys]]
    BY <2>1 DEF H!Init
  <2>4. h_rekey \in [h_Nodes -> [key : HostKeys, to : SUBSET h_Nodes, acked : SUBSET h_Nodes, live : BOOLEAN]]
    BY <2>1, <2>2 DEF H!Init
  <2>5. \A n \in h_Nodes : h_rekey[n] = H!NoRotation
    BY DEF H!Init
  <2> QED
    BY <2>2, <2>3, <2>4, <2>5 DEF H!Init, HostRings
<1>4. HostWords
  BY DEF H!Init, HostWords
<1> QED
  BY <1>1, <1>2, <1>3, <1>4 DEF HostTypes

\* The next one of a ring takes over.
LEMMA PromotedRing ==
    ASSUME NEW r \in [cur : H!Key, next : HostKeys, prev : HostKeys]
    PROVE  H!Promoted(r) \in [cur : H!Key, next : HostKeys, prev : HostKeys]
  BY DEF H!Promoted, HostKeys

\* The least of some members is one of them.
LEMMA LeastMember ==
    ASSUME NEW some \in SUBSET h_Nodes, some # {}
    PROVE  H!Min(some) \in some
<1> DEFINE less == {p \in Nat \X Nat : p[1] < p[2]}
<1>1. some \subseteq Nat
  BY HostAssumed DEF H!HostHandoverAssumption
<1>2. IsWellFoundedOn(less, Nat)
  BY NatLessThanWellFounded DEF OpToRel
<1>3. PICK least \in some : \A k \in some : <<k, least>> \notin less
  <2> HIDE DEF less
  <2> QED
    BY <1>1, <1>2, WFMin
<1>4. ASSUME NEW k \in some PROVE least <= k
  <2>1. <<k, least>> \in Nat \X Nat /\ ~(k < least)
    BY <1>1, <1>3
  <2> QED
    BY <2>1
<1> QED
  BY <1>3, <1>4 DEF H!Min

LEMMA HostRoomStep == HostTypes /\ H!Next => HostRoom'
<1> SUFFICES ASSUME HostTypes, H!Next PROVE HostRoom'
  OBVIOUS
<1> USE DEF HostTypes, HostRoom
<1>1. /\ h_in \subseteq h_Nodes /\ h_leaving \subseteq h_Nodes \ h_in /\ h_relayHost \in h_Nodes
      /\ h_losses \in 0 .. h_MaxLosses /\ h_rekeyDue \subseteq h_in /\ h_MaxLosses \in Nat
  BY HostAssumed DEF H!HostHandoverAssumption
<1>2. ASSUME NEW n \in h_Nodes, H!LeaveRoom(n) PROVE HostRoom'
  BY <1>1, <1>2 DEF H!LeaveRoom
<1>3. ASSUME NEW n \in h_Nodes, H!RelayLeave(n) PROVE HostRoom'
  <2>1. h_relayHost' \in h_Nodes
    BY <1>1, <1>3 DEF H!RelayLeave
  <2> QED
    BY <1>1, <1>3, <2>1 DEF H!RelayLeave, H!keys
<1>4. ASSUME NEW n \in h_Nodes, H!PeerLeft(n) \/ H!NewHost(n) PROVE HostRoom'
  <2>1. n \in h_in
    BY <1>4 DEF H!PeerLeft, H!NewHost, HostWords
  <2> QED
    BY <1>1, <1>4, <2>1 DEF H!PeerLeft, H!NewHost, H!ScheduleRekey
<1>5. ASSUME NEW n \in h_Nodes, H!RotateGroupKey(n) \/ H!FinishRotation(n) PROVE HostRoom'
  BY <1>1, <1>5 DEF H!RotateGroupKey, H!FinishRotation, H!relay
<1>6. ASSUME NEW n \in h_Nodes, NEW x \in h_Nodes, H!TimeOut(n, x) PROVE HostRoom'
  <2>1. h_losses' \in 0 .. h_MaxLosses
    BY <1>1, <1>6 DEF H!TimeOut
  <2> QED
    BY <1>1, <1>6, <2>1 DEF H!TimeOut, H!relay, H!ScheduleRekey
<1>7. ASSUME NEW n \in h_Nodes, NEW x \in h_Nodes, H!Register(n, x) PROVE HostRoom'
  BY <1>1, <1>7 DEF H!Register, H!relay, H!keys
<1>8. ASSUME NEW p \in h_net, H!HandleLeave(p) PROVE HostRoom'
  BY <1>1, <1>8 DEF H!HandleLeave, H!relay, H!ScheduleRekey
<1>9. ASSUME NEW p \in h_net, H!HandleRekey(p) \/ H!HandleRekeyAck(p) PROVE HostRoom'
  BY <1>1, <1>9 DEF H!HandleRekey, H!HandleRekeyAck, H!relay
<1>10. ASSUME NEW t \in h_timers, H!PromoteStaged(t) PROVE HostRoom'
  BY <1>1, <1>10 DEF H!PromoteStaged, H!relay
<1> QED
  BY <1>2, <1>3, <1>4, <1>5, <1>6, <1>7, <1>8, <1>9, <1>10 DEF H!Next

\* What the relay says of a departure is about members.
LEMMA HeadOfWord ==
    ASSUME NEW b \in Seq(HostWord) \ {<<>>}
    PROVE  /\ Head(b).left \in h_Nodes \union {0} /\ Head(b).host \in h_Nodes \union {0}
           /\ Len(b) > 1 => Tail(b) \in Seq(HostWord) \ {<<>>}
<1>1. Head(b) \in HostWord
  OBVIOUS
<1>2. Len(b) > 1 => Tail(b) \in Seq(HostWord) /\ Len(Tail(b)) > 0
  OBVIOUS
<1> QED
  BY <1>1, <1>2 DEF HostWord

LEMMA HostRolesStep == HostTypes /\ H!Next => HostRoles'
<1> SUFFICES ASSUME HostTypes, H!Next PROVE HostRoles'
  OBVIOUS
<1> USE DEF HostTypes
<1>1. ASSUME UNCHANGED H!roles PROVE HostRoles'
  BY <1>1 DEF H!roles, HostRoles
<1>2. ASSUME NEW n \in h_Nodes, NEW x \in h_Nodes, x # n, H!Forget(n, x)
      PROVE  /\ h_Peers' \in [h_Nodes -> SUBSET h_Nodes] /\ h_memberKeys' \in [h_Nodes -> SUBSET h_Nodes]
             /\ h_departed' \in [h_Nodes -> SUBSET h_Nodes]
             /\ \A m \in h_Nodes : m \notin h_Peers'[m] /\ m \notin h_memberKeys'[m] /\ m \notin h_departed'[m]
  BY <1>2 DEF H!Forget, HostRoles
<1>3. ASSUME NEW n \in h_Nodes, \/ H!LeaveRoom(n) \/ H!RelayLeave(n) \/ H!RotateGroupKey(n) \/ H!FinishRotation(n)
      PROVE  HostRoles'
  BY <1>1, <1>3 DEF H!LeaveRoom, H!RelayLeave, H!RotateGroupKey, H!FinishRotation
<1>4. ASSUME NEW n \in h_Nodes, H!PeerLeft(n) PROVE HostRoles'
  <2>1. PICK b \in h_batches[n] :
          /\ Head(b).left # 0
          /\ IF Head(b).left \in h_Peers[n] THEN H!Forget(n, Head(b).left)
             ELSE UNCHANGED <<h_Peers, h_memberKeys, h_departed>>
    BY <1>4 DEF H!PeerLeft
  <2>2. UNCHANGED <<h_HostID, h_IsHost>>
    BY <1>4 DEF H!PeerLeft
  <2>3. CASE Head(b).left \in h_Peers[n]
    <3>1. Head(b).left \in h_Nodes /\ Head(b).left # n
      BY <2>3 DEF HostRoles
    <3> QED
      BY <1>2, <2>1, <2>2, <2>3, <3>1 DEF HostRoles
  <2>4. CASE Head(b).left \notin h_Peers[n]
    BY <1>1, <2>1, <2>2, <2>4 DEF H!roles
  <2> QED
    BY <2>3, <2>4
<1>5. ASSUME NEW n \in h_Nodes, H!NewHost(n) PROVE HostRoles'
  <2>1. PICK b \in h_batches[n] :
          /\ Head(b).host # 0
          /\ h_HostID' = [h_HostID EXCEPT ![n] = Head(b).host]
          /\ h_IsHost' = [h_IsHost EXCEPT ![n] = Head(b).host = n]
    BY <1>5 DEF H!NewHost
  <2>2. UNCHANGED <<h_Peers, h_memberKeys, h_departed>>
    BY <1>5 DEF H!NewHost
  <2>3. b \in Seq(HostWord) \ {<<>>}
    BY <2>1 DEF HostWords
  <2>4. Head(b).host \in h_Nodes
    BY <2>1, <2>3, HeadOfWord
  <2> HIDE DEF HostTypes
  <2>5. h_HostID' \in [h_Nodes -> h_Nodes]
    BY <2>1, <2>4 DEF HostTypes, HostRoles
  <2>6. h_IsHost' \in [h_Nodes -> BOOLEAN]
    BY <2>1, Zenon DEF HostTypes, HostRoles
  <2> QED
    BY <2>2, <2>5, <2>6 DEF HostTypes, HostRoles
<1>6. ASSUME NEW n \in h_Nodes, NEW x \in h_Nodes, H!TimeOut(n, x) PROVE HostRoles'
  <2>1. x # n /\ H!Forget(n, x) /\ UNCHANGED <<h_HostID, h_IsHost>>
    BY <1>6 DEF H!TimeOut, HostRoles
  <2> QED
    BY <1>2, <2>1 DEF HostRoles
<1>7. ASSUME NEW n \in h_Nodes, NEW x \in h_Nodes, H!Register(n, x) PROVE HostRoles'
  <2>1. x # n /\ h_Peers' = [h_Peers EXCEPT ![n] = @ \union {x}]
        /\ UNCHANGED <<h_memberKeys, h_departed, h_HostID, h_IsHost>>
    BY <1>7 DEF H!Register
  <2> QED
    BY <2>1 DEF HostRoles
<1>8. ASSUME NEW p \in h_net, H!HandleLeave(p) PROVE HostRoles'
  <2> DEFINE n == p.to
             elected == H!Min((h_Peers[n] \ {p.from}) \union {n})
  <2>1. n \in h_Nodes /\ p.from \in h_Nodes /\ p.from # n /\ H!Forget(n, p.from)
    BY <1>8 DEF H!HandleLeave, HostRoom, HostRoles
  <2>2. elected \in h_Nodes
    <3>1. (h_Peers[n] \ {p.from}) \union {n} \in SUBSET h_Nodes
      BY <2>1 DEF HostRoles
    <3> QED
      BY <3>1, LeastMember
  <2>3. \/ /\ h_HostID' = [h_HostID EXCEPT ![n] = elected]
           /\ h_IsHost' = [h_IsHost EXCEPT ![n] = elected = n]
        \/ UNCHANGED <<h_HostID, h_IsHost>>
    BY <1>8 DEF H!HandleLeave
  <2> HIDE DEF elected, n, HostTypes
  <2>4. h_HostID' \in [h_Nodes -> h_Nodes]
    BY <2>2, <2>3 DEF HostTypes, HostRoles
  <2>5. h_IsHost' \in [h_Nodes -> BOOLEAN]
    BY <2>3, Zenon DEF HostTypes, HostRoles
  <2> QED
    BY <1>2, <2>1, <2>4, <2>5 DEF HostRoles
<1>9. ASSUME NEW p \in h_net, H!HandleRekey(p) PROVE HostRoles'
  <2> DEFINE n == p.to
  <2>1. n \in h_Nodes /\ p.dir \subseteq h_Nodes /\ n \notin p.dir
    BY <1>9 DEF H!HandleRekey, HostRoom, HostWords, HostPacket, H!Others
  <2>2. \/ /\ h_memberKeys' = [h_memberKeys EXCEPT ![n] = p.dir]
           /\ h_departed' = [h_departed EXCEPT ![n] = @ \ p.dir]
        \/ UNCHANGED <<h_memberKeys, h_departed>>
    BY <1>9 DEF H!HandleRekey
  <2>3. UNCHANGED <<h_Peers, h_HostID, h_IsHost>>
    BY <1>9 DEF H!HandleRekey
  <2> QED
    BY <2>1, <2>2, <2>3 DEF HostRoles
<1>10. ASSUME NEW p \in h_net, H!HandleRekeyAck(p) PROVE HostRoles'
  BY <1>1, <1>10 DEF H!HandleRekeyAck
<1>11. ASSUME NEW t \in h_timers, H!PromoteStaged(t) PROVE HostRoles'
  BY <1>1, <1>11 DEF H!PromoteStaged
<1> QED
  BY <1>3, <1>4, <1>5, <1>6, <1>7, <1>8, <1>9, <1>10, <1>11 DEF H!Next

LEMMA HostRingsStep == HostTypes /\ H!Next => HostRings'
<1> SUFFICES ASSUME HostTypes, H!Next PROVE HostRings'
  OBVIOUS
<1> USE DEF HostTypes
<1> DEFINE RingKind == [cur : H!Key, next : HostKeys, prev : HostKeys]
           RotationKind == [key : HostKeys, to : SUBSET h_Nodes, acked : SUBSET h_Nodes, live : BOOLEAN]
<1>1. h_ring \in [h_Nodes -> RingKind] /\ h_rekey \in [h_Nodes -> RotationKind]
  BY DEF HostRings
<1>2. ASSUME UNCHANGED <<h_ring, h_rekey, h_timers>> PROVE HostRings'
  BY <1>2 DEF HostRings
<1>3. ASSUME NEW n \in h_Nodes, NEW r \in RingKind, h_ring' = [h_ring EXCEPT ![n] = r]
      PROVE  h_ring' \in [h_Nodes -> RingKind]
  <2> HIDE DEF RingKind
  <2> QED
    BY <1>1, <1>3
<1>4. ASSUME NEW n \in h_Nodes, NEW r \in RotationKind, n \notin r.to, r.acked \subseteq r.to,
             h_rekey' = [h_rekey EXCEPT ![n] = r]
      PROVE  /\ h_rekey' \in [h_Nodes -> RotationKind]
             /\ \A m \in h_Nodes : m \notin h_rekey'[m].to /\ h_rekey'[m].acked \subseteq h_rekey'[m].to
  <2> HIDE DEF RotationKind
  <2> QED
    BY <1>1, <1>4 DEF HostRings
<1>5. ASSUME NEW n \in h_Nodes
      PROVE  /\ h_ring[n] \in RingKind /\ h_rekey[n] \in RotationKind
             /\ h_rekey[n].to \subseteq h_Nodes \ {n} /\ h_rekey[n].acked \subseteq h_rekey[n].to
  BY <1>1 DEF HostRings
<1>6. ASSUME NEW n \in h_Nodes, H!LeaveRoom(n) PROVE HostRings'
  <2>1. H!NoRotation \in RotationKind /\ n \notin H!NoRotation.to /\ H!NoRotation.acked \subseteq H!NoRotation.to
    BY DEF H!NoRotation, HostKeys
  <2>2. h_rekey' = [h_rekey EXCEPT ![n] = H!NoRotation] /\ UNCHANGED h_ring /\ h_timers' \subseteq h_timers
    BY <1>6 DEF H!LeaveRoom
  <2> QED
    BY <1>4, <2>1, <2>2 DEF HostRings
<1>7. ASSUME NEW n \in h_Nodes, H!RelayLeave(n) \/ H!PeerLeft(n) \/ H!NewHost(n) PROVE HostRings'
  BY <1>2, <1>7 DEF H!RelayLeave, H!PeerLeft, H!NewHost, H!keys
<1>8. ASSUME NEW n \in h_Nodes, H!RotateGroupKey(n) PROVE HostRings'
  <2> DEFINE newest == IF h_ring[n].next = H!EmptyKey THEN h_ring[n].cur ELSE h_ring[n].next
             key == [epoch |-> newest.epoch + 1, by |-> n]
             to == h_Peers[n] \intersect h_memberKeys[n]
             staged == [h_ring[n] EXCEPT !.next = key]
  <2>1. newest \in H!Key /\ newest.epoch < h_MaxEpoch /\ h_MaxEpoch \in Nat
    BY <1>5, <1>8, HostAssumed DEF H!RotateGroupKey, HostKeys, H!HostHandoverAssumption
  <2>2. key \in H!Key /\ key \in HostKeys
    <3> HIDE DEF newest
    <3> QED
      BY <2>1 DEF H!Key, HostKeys
  <2>3. staged \in RingKind
    <3> HIDE DEF key
    <3> QED
      BY <1>5, <2>2
  <2>4. H!Promoted(staged) \in RingKind
    BY <2>3, PromotedRing
  <2>5. to \subseteq h_Nodes \ {n}
    BY DEF HostRoles
  <2>6. \E r \in RingKind : h_ring' = [h_ring EXCEPT ![n] = r]
    BY <1>8, <2>3, <2>4 DEF H!RotateGroupKey
  <2>7. \E live \in BOOLEAN : \E some \in {{}, to} :
          h_rekey' = [h_rekey EXCEPT ![n] = [key |-> key, to |-> some, acked |-> {}, live |-> live]]
    BY <1>8 DEF H!RotateGroupKey
  <2>8. UNCHANGED h_timers
    BY <1>8 DEF H!RotateGroupKey
  <2> HIDE DEF key, to, staged, newest
  <2>9. \E r \in RotationKind : n \notin r.to /\ r.acked \subseteq r.to /\ h_rekey' = [h_rekey EXCEPT ![n] = r]
    BY <2>2, <2>5, <2>7
  <2>10. h_ring' \in [h_Nodes -> RingKind]
    BY <1>3, <2>6
  <2> QED
    BY <1>4, <2>8, <2>9, <2>10 DEF HostRings
<1>9. ASSUME NEW n \in h_Nodes, H!FinishRotation(n) PROVE HostRings'
  <2>1. /\ h_ring' = [h_ring EXCEPT ![n] = H!Promoted(h_ring[n])]
        /\ h_rekey' = [h_rekey EXCEPT ![n] = [h_rekey[n] EXCEPT !.live = FALSE]] /\ UNCHANGED h_timers
    BY <1>9 DEF H!FinishRotation
  <2>2. H!Promoted(h_ring[n]) \in RingKind
    BY <1>5, PromotedRing
  <2> DEFINE r == [h_rekey[n] EXCEPT !.live = FALSE]
  <2>3. r \in RotationKind /\ n \notin r.to /\ r.acked \subseteq r.to
    BY <1>5
  <2> HIDE DEF r
  <2>4. h_ring' \in [h_Nodes -> RingKind]
    BY <1>3, <2>1, <2>2
  <2> QED
    BY <1>4, <2>1, <2>3, <2>4 DEF HostRings, r
<1>10. ASSUME NEW n \in h_Nodes, NEW x \in h_Nodes, H!TimeOut(n, x) \/ H!Register(n, x) PROVE HostRings'
  BY <1>2, <1>10 DEF H!TimeOut, H!Register, H!keys
<1>11. ASSUME NEW p \in h_net, H!HandleLeave(p) PROVE HostRings'
  BY <1>2, <1>11 DEF H!HandleLeave
<1>12. ASSUME NEW p \in h_net, H!HandleRekey(p) PROVE HostRings'
  <2> DEFINE n == p.to
             staged == [h_ring[n] EXCEPT !.next = p.key]
  <2>1. n \in h_Nodes /\ p.key \in H!Key
    BY <1>12 DEF H!HandleRekey, HostRoom, HostWords, HostPacket
  <2>2. staged \in RingKind
    BY <1>5, <2>1 DEF HostKeys
  <2>3. \/ h_ring' = [h_ring EXCEPT ![n] = staged] /\ h_timers' = h_timers \union {<<n, p.key>>}
        \/ UNCHANGED <<h_ring, h_timers>>
    BY <1>12 DEF H!HandleRekey
  <2>4. UNCHANGED h_rekey
    BY <1>12 DEF H!HandleRekey
  <2> HIDE DEF n, staged
  <2>5. h_ring' \in [h_Nodes -> RingKind]
    BY <1>1, <1>3, <2>1, <2>2, <2>3
  <2>6. h_timers' \subseteq h_Nodes \X H!Key
    BY <2>1, <2>3 DEF HostRings
  <2> QED
    BY <2>4, <2>5, <2>6 DEF HostRings
<1>13. ASSUME NEW p \in h_net, H!HandleRekeyAck(p) PROVE HostRings'
  <2> DEFINE n == p.to
             r == [h_rekey[n] EXCEPT !.acked = @ \union {p.from}]
  <2>1. n \in h_Nodes /\ p.from \in h_rekey[n].to /\ UNCHANGED <<h_ring, h_timers>>
    BY <1>13 DEF H!HandleRekeyAck, HostRoom
  <2>2. h_rekey' = [h_rekey EXCEPT ![n] = r]
    BY <1>13 DEF H!HandleRekeyAck
  <2>3. r \in RotationKind /\ n \notin r.to /\ r.acked \subseteq r.to
    BY <1>5, <2>1
  <2> HIDE DEF r, n
  <2> QED
    BY <1>4, <2>1, <2>2, <2>3 DEF HostRings
<1>14. ASSUME NEW t \in h_timers, H!PromoteStaged(t) PROVE HostRings'
  <2> DEFINE n == t[1]
             r == IF h_ring[n].next.epoch = t[2].epoch THEN H!Promoted(h_ring[n]) ELSE h_ring[n]
  <2>1. n \in h_Nodes /\ h_timers' \subseteq h_timers /\ UNCHANGED h_rekey
    BY <1>14 DEF H!PromoteStaged, HostRings
  <2>2. h_ring' = [h_ring EXCEPT ![n] = r]
    BY <1>14 DEF H!PromoteStaged
  <2>3. r \in RingKind
    BY <1>5, <2>1, PromotedRing
  <2> HIDE DEF r, n
  <2>4. h_ring' \in [h_Nodes -> RingKind]
    BY <1>3, <2>1, <2>2, <2>3
  <2> QED
    BY <2>1, <2>4 DEF HostRings
<1> QED
  BY <1>6, <1>7, <1>8, <1>9, <1>10, <1>11, <1>12, <1>13, <1>14 DEF H!Next

LEMMA HostWordsStep == HostTypes /\ H!Next => HostWords'
<1> SUFFICES ASSUME HostTypes, H!Next PROVE HostWords'
  OBVIOUS
<1> USE DEF HostTypes
<1>1. ASSUME UNCHANGED h_batches, h_in' = h_in, \A p \in h_net' : p \in h_net \/ HostPacket(p)
      PROVE  HostWords'
  <2>1. \A p : HostPacket(p) => HostPacket(p)'
    BY DEF HostPacket
  <2> QED
    BY <1>1, <2>1 DEF HostWords
<1>2. ASSUME NEW n \in h_Nodes, H!LeaveRoom(n) PROVE HostWords'
  <2>1. \A p \in h_net' : p \in h_net \/ HostPacket(p)
    BY <1>2 DEF H!LeaveRoom, H!Send, HostPacket, HostRoles, H!Others
  <2>2. h_batches' = [h_batches EXCEPT ![n] = {}] /\ h_in' = h_in \ {n}
    BY <1>2 DEF H!LeaveRoom
  <2>3. \A p : HostPacket(p) => HostPacket(p)'
    BY DEF HostPacket
  <2> QED
    BY <2>1, <2>2, <2>3 DEF HostWords
<1>3. ASSUME NEW n \in h_Nodes, H!RelayLeave(n) PROVE HostWords'
  <2>1. UNCHANGED <<h_in, h_net>>
    BY <1>3 DEF H!RelayLeave
  <2>2. CASE UNCHANGED h_batches
    BY <1>1, <2>1, <2>2
  <2>3. CASE ~UNCHANGED h_batches
    <3>1. PICK h \in IF n = h_relayHost /\ h_in # {} THEN h_in ELSE {h_relayHost} :
            h_batches' = [m \in h_Nodes |->
                 IF m \notin h_in THEN {}
                 ELSE h_batches[m] \union {<<[left |-> n, host |-> 0]>> \o
                        (IF h = h_relayHost THEN <<>> ELSE <<[left |-> 0, host |-> h]>>)}]
      BY <1>3, <2>3 DEF H!RelayLeave
    <3> DEFINE told == <<[left |-> n, host |-> 0]>> \o
                        (IF h = h_relayHost THEN <<>> ELSE <<[left |-> 0, host |-> h]>>)
    <3>2. told \in Seq(HostWord) \ {<<>>}
      <4>1. h \in h_Nodes
        BY <3>1 DEF HostRoom
      <4>2. [left |-> n, host |-> 0] \in HostWord /\ [left |-> 0, host |-> h] \in HostWord
        BY <4>1 DEF HostWord
      <4> DEFINE x == [left |-> n, host |-> 0]
                 y == [left |-> 0, host |-> h]
      <4> HIDE DEF x, y
      <4>3. ASSUME x \in HostWord, y \in HostWord
            PROVE <<x>> \o (IF h = h_relayHost THEN <<>> ELSE <<y>>) \in Seq(HostWord) \ {<<>>}
        <5> DEFINE a == <<x>>
                   b == IF h = h_relayHost THEN <<>> ELSE <<y>>
        <5>1. a \in Seq(HostWord) /\ b \in Seq(HostWord) /\ Len(a) = 1 /\ Len(b) \in Nat
          BY <4>3
        <5> HIDE DEF a, b
        <5>2. a \o b \in Seq(HostWord) /\ Len(a \o b) > 0
          BY <5>1
        <5> QED
          BY <5>2 DEF a, b
      <4> QED
        BY <4>2, <4>3 DEF x, y
    <3> HIDE DEF told
    <3>3. h_batches' = [m \in h_Nodes |-> IF m \notin h_in THEN {} ELSE h_batches[m] \union {told}]
      BY <3>1 DEF told
    <3>4. h_batches' \in [h_Nodes -> SUBSET (Seq(HostWord) \ {<<>>})]
          /\ \A m \in h_Nodes \ h_in : h_batches'[m] = {}
      BY <3>2, <3>3 DEF HostWords
    <3>5. \A p : HostPacket(p) => HostPacket(p)'
      BY DEF HostPacket
    <3> QED
      BY <2>1, <3>4, <3>5 DEF HostWords
  <2> QED
    BY <2>2, <2>3
<1>4. ASSUME NEW n \in h_Nodes, H!PeerLeft(n) \/ H!NewHost(n) PROVE HostWords'
  <2>1. PICK b \in h_batches[n] : H!Told(n, b)
    BY <1>4 DEF H!PeerLeft, H!NewHost
  <2>2. UNCHANGED <<h_in, h_net>>
    BY <1>4 DEF H!PeerLeft, H!NewHost
  <2>3. n \in h_in /\ b \in Seq(HostWord) \ {<<>>}
    BY <2>1 DEF HostWords
  <2> DEFINE rest == (h_batches[n] \ {b}) \union (IF Len(b) > 1 THEN {Tail(b)} ELSE {})
  <2>4. rest \subseteq Seq(HostWord) \ {<<>>}
    BY <2>3, HeadOfWord DEF HostWords
  <2>5. h_batches' = [h_batches EXCEPT ![n] = rest]
    BY <2>1 DEF H!Told
  <2>6. \A p : HostPacket(p) => HostPacket(p)'
    BY DEF HostPacket
  <2> HIDE DEF rest
  <2>7. /\ h_batches' \in [h_Nodes -> SUBSET (Seq(HostWord) \ {<<>>})]
        /\ \A m \in h_Nodes \ h_in : h_batches'[m] = {}
    BY <2>3, <2>4, <2>5 DEF HostWords
  <2> QED
    BY <2>2, <2>6, <2>7 DEF HostWords
<1>5. ASSUME NEW n \in h_Nodes, H!RotateGroupKey(n) PROVE HostWords'
  <2> DEFINE newest == IF h_ring[n].next = H!EmptyKey THEN h_ring[n].cur ELSE h_ring[n].next
             key == [epoch |-> newest.epoch + 1, by |-> n]
             to == h_Peers[n] \intersect h_memberKeys[n]
  <2>1. newest \in H!Key /\ newest.epoch < h_MaxEpoch /\ h_MaxEpoch \in Nat
    BY <1>5, HostAssumed DEF H!RotateGroupKey, HostKeys, H!HostHandoverAssumption, HostRings
  <2>2. key \in H!Key
    <3> HIDE DEF newest
    <3> QED
      BY <2>1 DEF H!Key
  <2>3. to \subseteq h_Nodes \ {n}
    BY DEF HostRoles
  <2>4. \/ UNCHANGED h_net
        \/ H!Send({[type |-> "rekey", from |-> n, to |-> m, key |-> key, dir |-> (to \ {m}) \union {n},
                    seal |-> h_ring[n].cur] : m \in to})
    BY <1>5 DEF H!RotateGroupKey
  <2> HIDE DEF key, to
  <2>5. \A m \in to : HostPacket([type |-> "rekey", from |-> n, to |-> m, key |-> key, dir |-> (to \ {m}) \union {n},
                    seal |-> h_ring[n].cur])
    BY <2>2, <2>3 DEF HostPacket, H!Others
  <2>6. UNCHANGED <<h_in, h_batches>>
    BY <1>5 DEF H!RotateGroupKey, H!relay
  <2> QED
    BY <1>1, <2>4, <2>5, <2>6 DEF H!Send
<1>6. ASSUME NEW n \in h_Nodes, H!FinishRotation(n) PROVE HostWords'
  BY <1>1, <1>6 DEF H!FinishRotation, H!relay
<1>7. ASSUME NEW n \in h_Nodes, NEW x \in h_Nodes, H!TimeOut(n, x) \/ H!Register(n, x) PROVE HostWords'
  BY <1>1, <1>7 DEF H!TimeOut, H!Register, H!relay
<1>8. ASSUME NEW p \in h_net, H!HandleLeave(p) \/ H!HandleRekeyAck(p) PROVE HostWords'
  BY <1>1, <1>8 DEF H!HandleLeave, H!HandleRekeyAck, H!relay
<1>9. ASSUME NEW p \in h_net, H!HandleRekey(p) PROVE HostWords'
  <2>1. H!Send({[type |-> "ack", from |-> p.to, to |-> p.from, epoch |-> p.key.epoch, seal |-> h_ring[p.to].cur]})
        /\ UNCHANGED <<h_in, h_batches>>
    BY <1>9 DEF H!HandleRekey, H!relay
  <2>2. HostPacket(p)
    BY DEF HostWords
  <2>3. HostPacket([type |-> "ack", from |-> p.to, to |-> p.from, epoch |-> p.key.epoch, seal |-> h_ring[p.to].cur])
    BY <2>2 DEF HostPacket, H!Others
  <2> QED
    BY <1>1, <2>1, <2>3 DEF H!Send
<1>10. ASSUME NEW t \in h_timers, H!PromoteStaged(t) PROVE HostWords'
  BY <1>1, <1>10 DEF H!PromoteStaged, H!relay
<1> QED
  BY <1>2, <1>3, <1>4, <1>5, <1>6, <1>7, <1>8, <1>9, <1>10 DEF H!Next

LEMMA HostTypesStep == HostTypes /\ [Next]_all => HostTypes'
<1> SUFFICES ASSUME HostTypes, [Next]_all PROVE HostTypes'
  OBVIOUS
<1>1. H!Next \/ UNCHANGED hVars
  BY DEF Next, Others, all
<1>2. CASE H!Next
  BY <1>2, HostRoomStep, HostRolesStep, HostRingsStep, HostWordsStep DEF HostTypes
<1>3. CASE UNCHANGED hVars
  BY <1>3 DEF hVars, HostTypes, HostRoom, HostRoles, HostRings, HostWords, HostPacket
<1> QED
  BY <1>1, <1>2, <1>3

-----------------------------------------------------------------------------
(* The types of the door                                                   *)

\* A frame of the handshake carries numbers that were given out.
DoorFrame(f) ==
    /\ f.of \in a_Joiners
    /\ f.type \in {"hello", "challenge", "auth"} => f.attempt \in 1 .. a_MaxAttempts
    /\ f.type \in {"challenge", "auth"} => f.server \in 1 .. a_MaxServers

DoorNumbers ==
    /\ a_relayed \in BOOLEAN /\ a_IsLocked \in BOOLEAN /\ a_KnockToJoin \in BOOLEAN
    /\ a_servers \in 0 .. a_MaxServers /\ a_switches \in 0 .. a_MaxSwitches
    /\ a_state \in [a_Joiners -> {"out", "joining", "keyed", "in"}]
    /\ a_attempt \in [a_Joiners -> 0 .. a_MaxAttempts] /\ a_auth \in [a_Joiners -> 0 .. a_MaxServers]

DoorSessions ==
    /\ a_sessions \subseteq A!Session
    /\ IsFiniteSet(a_sessions) /\ Cardinality(a_sessions) <= a_MaxSessions

NoTwice(q) == \A i, j \in 1 .. Len(q) : q[i] = q[j] => i = j

DoorTypes ==
    /\ DoorInv /\ DoorNumbers /\ DoorSessions
    /\ \A f \in a_net : DoorFrame(f)
    /\ NoTwice(a_requests)

LEMMA DoorTyped == DoorTypes => A!TypeOK
<1> SUFFICES ASSUME DoorTypes PROVE A!TypeOK
  OBVIOUS
<1>1. A!Cardinality(a_answering) <= 1
  <2>1. Cardinality({}) = 0 /\ \A a : Cardinality({a}) = 1
    BY FS_EmptySet, FS_Singleton
  <2>2. a_answering = {} \/ \E a : a_answering = {a}
    BY DEF DoorTypes, DoorInv, DoorShape
  <2>3. Cardinality(a_answering) \in {0, 1}
    BY <2>1, <2>2
  <2> QED
    BY <2>3, SameSets
<1>2. A!IsInjective(a_requests) /\ a_requests \in Seq(a_Joiners)
  <2>1. a_requests \in Seq(a_Joiners) /\ NoTwice(a_requests)
    BY DEF DoorTypes, DoorInv, DoorShape
  <2>2. DOMAIN a_requests = 1 .. Len(a_requests)
    BY <2>1, LenProperties
  <2> QED
    BY <2>1, <2>2 DEF A!IsInjective, NoTwice
<1>3. A!Cardinality(a_sessions) <= a_MaxSessions /\ a_sessions \subseteq A!Session
  BY SameSets DEF DoorTypes, DoorSessions
<1>4. /\ a_Peers \subseteq a_Joiners /\ a_calls \subseteq a_Joiners
      /\ a_returned \subseteq a_Peers /\ a_members \subseteq a_Joiners
      /\ \A s, t \in a_sessions : s.of = t.of => s = t
  BY DEF DoorTypes, DoorInv, DoorShape, SessionsAgree
<1>5. DoorNumbers
  BY DEF DoorTypes
<1>6. {a_relayed, a_IsLocked, a_KnockToJoin} \subseteq BOOLEAN
  BY <1>5, Zenon DEF DoorNumbers
<1> QED
  BY <1>1, <1>2, <1>3, <1>4, <1>5, <1>6 DEF A!TypeOK, DoorNumbers

LEMMA DoorTypesInit == Init => DoorTypes
<1> SUFFICES ASSUME A!Init, DoorInv PROVE DoorTypes
  BY DoorInit DEF Init
<1>1. /\ a_MaxAttempts \in Nat /\ a_MaxServers \in Nat /\ a_MaxSwitches \in Nat /\ a_MaxSessions \in Nat
  BY DoorAssumed DEF A!AdmissionAssumption
<1>2. a_relayed \in BOOLEAN /\ a_IsLocked \in BOOLEAN /\ a_KnockToJoin \in BOOLEAN
  BY Zenon DEF A!Init
<1>3. DoorNumbers
  BY <1>1, <1>2 DEF A!Init, DoorNumbers
<1>4. DoorSessions
  BY <1>1, FS_EmptySet DEF A!Init, DoorSessions
<1>5. NoTwice(a_requests) /\ a_net = {}
  BY DEF A!Init, NoTwice
<1> QED
  BY <1>3, <1>4, <1>5 DEF DoorTypes

LEMMA DoorNumbersStep == DoorTypes /\ A!Next => DoorNumbers'
<1> SUFFICES ASSUME DoorTypes, A!Next PROVE DoorNumbers'
  OBVIOUS
<1>1. DoorNumbers
  BY DEF DoorTypes
<1>2. /\ a_MaxAttempts \in Nat /\ a_MaxServers \in Nat /\ a_MaxSwitches \in Nat
  BY DoorAssumed DEF A!AdmissionAssumption
<1>3. a_relayed' \in BOOLEAN /\ a_IsLocked' \in BOOLEAN /\ a_KnockToJoin' \in BOOLEAN
  <2>1. a_relayed \in BOOLEAN /\ a_IsLocked \in BOOLEAN /\ a_KnockToJoin \in BOOLEAN
    BY <1>1, Zenon DEF DoorNumbers
  <2>2. /\ a_relayed' = a_relayed
        /\ a_IsLocked' = a_IsLocked \/ a_IsLocked' = ~a_IsLocked
        /\ a_KnockToJoin' = a_KnockToJoin \/ a_KnockToJoin' = ~a_KnockToJoin
    BY Zenon DEF A!Next, A!RequestJoinRoom, A!GiveUp, A!ExpireSession, A!JoinRequest, A!RelayWelcome,
       A!Leave, A!TimeOut, A!ListAgain, A!OnKnock, A!AcceptHello, A!ProcessChallenge, A!ProcessAuth, A!ProcessResult,
       A!TakeKnock, A!ApproveJoin, A!ToggleKnock, A!LockOrUnlock, A!host
  <2> QED
    BY <2>1, <2>2, Zenon
<1>4. a_switches' \in 0 .. a_MaxSwitches
  <2>1. a_switches' = a_switches \/ (a_switches' = a_switches + 1 /\ a_switches < a_MaxSwitches)
    BY Zenon DEF A!Next, A!RequestJoinRoom, A!GiveUp, A!ExpireSession, A!JoinRequest, A!RelayWelcome,
       A!Leave, A!TimeOut, A!ListAgain, A!OnKnock, A!AcceptHello, A!ProcessChallenge, A!ProcessAuth, A!ProcessResult,
       A!TakeKnock, A!ApproveJoin, A!ToggleKnock, A!LockOrUnlock
  <2> QED
    BY <1>1, <1>2, <2>1 DEF DoorNumbers
<1>5. a_servers' \in 0 .. a_MaxServers
  <2>1. a_servers' = a_servers \/ (a_servers' = a_servers + 1 /\ a_servers < a_MaxServers)
    BY Zenon DEF A!Next, A!RequestJoinRoom, A!GiveUp, A!ExpireSession, A!JoinRequest, A!RelayWelcome,
       A!Leave, A!TimeOut, A!ListAgain, A!OnKnock, A!AcceptHello, A!ProcessChallenge, A!ProcessAuth, A!ProcessResult,
       A!TakeKnock, A!ApproveJoin, A!ToggleKnock, A!LockOrUnlock, A!host
  <2> QED
    BY <1>1, <1>2, <2>1 DEF DoorNumbers
<1> DEFINE Status == {"out", "joining", "keyed", "in"}
<1>6. a_state' \in [a_Joiners -> Status]
  <2>1. \/ a_state' = a_state
        \/ \E j \in a_Joiners : \E v \in Status : a_state' = [a_state EXCEPT ![j] = v]
    <3>1. ASSUME NEW f \in a_net, A!ProcessResult(f)
          PROVE  \E j \in a_Joiners : \E v \in Status : a_state' = [a_state EXCEPT ![j] = v]
      BY <1>1, <3>1 DEF A!ProcessResult, DoorTypes, DoorFrame
    <3>2. ASSUME NEW j \in a_Joiners, \/ A!RequestJoinRoom(j) \/ A!GiveUp(j) \/ A!JoinRequest(j)
                                       \/ A!RelayWelcome(j) \/ A!Leave(j)
          PROVE  \E v \in Status : a_state' = [a_state EXCEPT ![j] = v]
      BY <1>1, <3>2 DEF A!RequestJoinRoom, A!GiveUp, A!JoinRequest, A!RelayWelcome, A!Leave, DoorNumbers
    <3>3. ASSUME \/ \E j \in a_Joiners : \/ A!ExpireSession(j) \/ A!OnKnock(j)
                                           \/ A!TimeOut(j) \/ A!ListAgain(j)
                 \/ \E f \in a_net : A!AcceptHello(f) \/ A!ProcessChallenge(f) \/ A!ProcessAuth(f)
                 \/ A!TakeKnock \/ A!ApproveJoin \/ A!ToggleKnock \/ A!LockOrUnlock
          PROVE  a_state' = a_state
      BY <3>3 DEF A!ExpireSession, A!OnKnock, A!TimeOut, A!ListAgain, A!AcceptHello, A!ProcessChallenge, A!ProcessAuth,
         A!TakeKnock, A!ApproveJoin, A!ToggleKnock, A!LockOrUnlock, A!joiner
    <3> HIDE DEF Status
    <3> QED
      BY <3>1, <3>2, <3>3 DEF A!Next
  <2> QED
    BY <1>1, <2>1 DEF DoorNumbers
<1>7. a_attempt' \in [a_Joiners -> 0 .. a_MaxAttempts]
  <2>1. \/ a_attempt' = a_attempt
        \/ \E j \in a_Joiners : a_attempt[j] < a_MaxAttempts /\ a_attempt' = [a_attempt EXCEPT ![j] = @ + 1]
    <3>1. ASSUME NEW j \in a_Joiners, A!RequestJoinRoom(j)
          PROVE  a_attempt[j] < a_MaxAttempts /\ a_attempt' = [a_attempt EXCEPT ![j] = @ + 1]
      BY <3>1 DEF A!RequestJoinRoom
    <3>2. ASSUME \/ \E j \in a_Joiners : \/ A!GiveUp(j) \/ A!ExpireSession(j) \/ A!JoinRequest(j)
                                           \/ A!RelayWelcome(j) \/ A!Leave(j) \/ A!TimeOut(j) \/ A!ListAgain(j) \/ A!OnKnock(j)
                 \/ \E f \in a_net : \/ A!AcceptHello(f) \/ A!ProcessChallenge(f) \/ A!ProcessAuth(f)
                                     \/ A!ProcessResult(f)
                 \/ A!TakeKnock \/ A!ApproveJoin \/ A!ToggleKnock \/ A!LockOrUnlock
          PROVE  a_attempt' = a_attempt
      BY <3>2 DEF A!GiveUp, A!ExpireSession, A!JoinRequest, A!RelayWelcome, A!Leave, A!TimeOut, A!ListAgain, A!OnKnock,
         A!AcceptHello, A!ProcessChallenge, A!ProcessAuth, A!ProcessResult,
         A!TakeKnock, A!ApproveJoin, A!ToggleKnock, A!LockOrUnlock, A!joiner
    <3> QED
      BY <3>1, <3>2 DEF A!Next
  <2> QED
    BY <1>1, <1>2, <2>1 DEF DoorNumbers
<1>8. a_auth' \in [a_Joiners -> 0 .. a_MaxServers]
  <2>1. \/ a_auth' = a_auth
        \/ \E j \in a_Joiners : \E v \in 0 .. a_MaxServers : a_auth' = [a_auth EXCEPT ![j] = v]
    <3>1. ASSUME NEW f \in a_net, A!ProcessChallenge(f)
          PROVE  \E j \in a_Joiners : \E v \in 0 .. a_MaxServers : a_auth' = [a_auth EXCEPT ![j] = v]
      <4>1. f.of \in a_Joiners /\ f.server \in 0 .. a_MaxServers
        BY <1>2, <3>1 DEF A!ProcessChallenge, DoorTypes, DoorFrame
      <4> QED
        BY <3>1, <4>1 DEF A!ProcessChallenge
    <3>2. ASSUME \/ \E j \in a_Joiners : \/ A!GiveUp(j) \/ A!ExpireSession(j) \/ A!JoinRequest(j)
                                           \/ A!RelayWelcome(j) \/ A!Leave(j) \/ A!TimeOut(j) \/ A!ListAgain(j) \/ A!OnKnock(j)
                 \/ \E f \in a_net : A!AcceptHello(f) \/ A!ProcessAuth(f) \/ A!ProcessResult(f)
                 \/ A!TakeKnock \/ A!ApproveJoin \/ A!ToggleKnock \/ A!LockOrUnlock
          PROVE  a_auth' = a_auth
      BY <3>2 DEF A!GiveUp, A!ExpireSession, A!JoinRequest, A!RelayWelcome, A!Leave, A!TimeOut, A!ListAgain, A!OnKnock,
         A!AcceptHello, A!ProcessAuth, A!ProcessResult,
         A!TakeKnock, A!ApproveJoin, A!ToggleKnock, A!LockOrUnlock, A!joiner
    <3>3. ASSUME NEW j \in a_Joiners, A!RequestJoinRoom(j)
          PROVE  \E v \in 0 .. a_MaxServers : a_auth' = [a_auth EXCEPT ![j] = v]
      <4>1. 0 \in 0 .. a_MaxServers /\ a_auth' = [a_auth EXCEPT ![j] = 0]
        BY <1>2, <3>3 DEF A!RequestJoinRoom
      <4> QED
        BY <4>1
    <3> QED
      BY <3>1, <3>2, <3>3 DEF A!Next
  <2> QED
    BY <1>1, <2>1 DEF DoorNumbers
<1> QED
  BY <1>3, <1>4, <1>5, <1>6, <1>7, <1>8 DEF DoorNumbers

\* A session of a joiner in the place of the one it had takes no more room.
LEMMA SessionReplaced ==
    ASSUME DoorTypes, NEW s \in a_sessions, NEW v \in A!Verdicts \union {"new", "waiting"},
           \/ a_sessions' = A!Without(s.of)
           \/ A!SetSession([s EXCEPT !.status = v])
    PROVE  DoorSessions'
<1> DEFINE u == [s EXCEPT !.status = v]
           rest == a_sessions \ {s}
<1>1. u \in A!Session /\ u.of = s.of
  BY DEF DoorTypes, DoorSessions, A!Session
<1>2. A!Without(s.of) = rest
  BY DEF DoorTypes, DoorInv, DoorShape, SessionsAgree, A!Without
<1>3. /\ IsFiniteSet(a_sessions) /\ Cardinality(a_sessions) \in Nat /\ a_MaxSessions \in Nat
      /\ Cardinality(a_sessions) <= a_MaxSessions /\ a_sessions \subseteq A!Session
  BY FS_CardinalityType, DoorAssumed DEF DoorTypes, DoorSessions, A!AdmissionAssumption
<1>4. IsFiniteSet(rest) /\ Cardinality(rest) = Cardinality(a_sessions) - 1
  BY <1>3, FS_RemoveElement
<1> HIDE DEF u, rest
<1>5. IsFiniteSet(rest \union {u}) /\ Cardinality(rest \union {u}) <= Cardinality(a_sessions)
  <2>1. Cardinality(rest) \in Nat
    BY <1>4, FS_CardinalityType
  <2>2. IsFiniteSet(rest \union {u}) /\ Cardinality(rest \union {u}) \in {Cardinality(rest), Cardinality(rest) + 1}
    BY <1>4, FS_AddElement
  <2> QED
    BY <1>3, <1>4, <2>1, <2>2
<1>6. a_sessions' \in {rest, rest \union {u}}
  BY <1>1, <1>2 DEF A!SetSession, u
<1>7. IsFiniteSet(a_sessions') /\ Cardinality(a_sessions') <= Cardinality(a_sessions)
  <2>1. Cardinality(rest) <= Cardinality(a_sessions)
    BY <1>3, <1>4
  <2> QED
    BY <1>4, <1>5, <1>6, <2>1
<1>8. Cardinality(a_sessions') <= a_MaxSessions
  BY <1>3, <1>7, FS_CardinalityType
<1>9. a_sessions' \subseteq A!Session
  BY <1>1, <1>3, <1>6 DEF rest
<1> QED
  BY <1>7, <1>8, <1>9 DEF DoorSessions, A!Session, A!Verdicts

\* A full table loses a session that was opened first.
LEMMA OldestGoes ==
    ASSUME DoorTypes, a_sessions # {}
    PROVE  A!Oldest # {} /\ A!Oldest \subseteq a_sessions
<1> DEFINE numbers == {s.server : s \in a_sessions}
           less == {p \in Nat \X Nat : p[1] < p[2]}
<1>1. \A s \in a_sessions : s.server \in Nat
  BY DoorAssumed DEF DoorTypes, DoorSessions, A!Session, A!AdmissionAssumption
<1>2. numbers \subseteq Nat /\ numbers # {}
  BY <1>1
<1>3. IsWellFoundedOn(less, Nat)
  BY NatLessThanWellFounded DEF OpToRel
<1>4. PICK least \in numbers : \A k \in numbers : <<k, least>> \notin less
  <2> HIDE DEF less, numbers
  <2> QED
    BY <1>2, <1>3, WFMin
<1>5. PICK s \in a_sessions : s.server = least
  OBVIOUS
<1>6. ASSUME NEW t \in a_sessions PROVE s.server <= t.server
  <2>1. <<t.server, least>> \in Nat \X Nat /\ ~(t.server < least)
    BY <1>1, <1>2, <1>4
  <2> QED
    BY <1>5, <2>1
<1> QED
  BY <1>5, <1>6 DEF A!Oldest

LEMMA SessionOpened ==
    ASSUME DoorTypes, NEW s \in A!Session, A!Open(s)
    PROVE  DoorSessions'
<1> DEFINE kept == IF Cardinality(a_sessions) >= a_MaxSessions THEN a_sessions \ A!Oldest ELSE a_sessions
           rest == {t \in kept : t.of # s.of}
<1>1. /\ IsFiniteSet(a_sessions) /\ Cardinality(a_sessions) \in Nat /\ a_MaxSessions \in Nat \ {0}
      /\ Cardinality(a_sessions) <= a_MaxSessions /\ a_sessions \subseteq A!Session
  BY FS_CardinalityType, DoorAssumed DEF DoorTypes, DoorSessions, A!AdmissionAssumption
<1>2. IsFiniteSet(kept) /\ Cardinality(kept) \in Nat /\ Cardinality(kept) < a_MaxSessions
  <2>1. CASE Cardinality(a_sessions) < a_MaxSessions
    BY <1>1, <2>1
  <2>2. CASE Cardinality(a_sessions) >= a_MaxSessions
    <3>1. a_sessions # {}
      BY <1>1, <2>2, FS_EmptySet
    <3>2. PICK o \in a_sessions : o \in A!Oldest
      BY <3>1, OldestGoes
    <3>3. kept \subseteq a_sessions \ {o}
      BY <2>2, <3>2
    <3>4. IsFiniteSet(a_sessions \ {o}) /\ Cardinality(a_sessions \ {o}) = Cardinality(a_sessions) - 1
      BY <1>1, <3>2, FS_RemoveElement
    <3>5. IsFiniteSet(kept) /\ Cardinality(kept) <= Cardinality(a_sessions \ {o})
      BY <3>3, <3>4, FS_Subset
    <3>6. Cardinality(kept) \in Nat
      BY <3>5, FS_CardinalityType
    <3> HIDE DEF kept
    <3> QED
      BY <1>1, <3>4, <3>5, <3>6
  <2> QED
    BY <1>1, <2>1, <2>2
<1>3. IsFiniteSet(rest) /\ Cardinality(rest) <= Cardinality(kept)
  <2>1. rest \subseteq kept
    OBVIOUS
  <2> QED
    BY <1>2, <2>1, FS_Subset
<1>4. a_sessions' = rest \union {s}
  BY SameSets DEF A!Open
<1>5. rest \subseteq A!Session
  BY <1>1
<1> HIDE DEF rest, kept
<1>6. IsFiniteSet(rest \union {s}) /\ Cardinality(rest \union {s}) \in {Cardinality(rest), Cardinality(rest) + 1}
  BY <1>3, FS_AddElement
<1>7. Cardinality(rest) \in Nat
  BY <1>3, FS_CardinalityType
<1>8. Cardinality(rest \union {s}) <= a_MaxSessions
  BY <1>1, <1>2, <1>3, <1>6, <1>7
<1>9. a_sessions' \subseteq A!Session
  BY <1>4, <1>5
<1> QED
  BY <1>4, <1>6, <1>8, <1>9 DEF DoorSessions, A!Session, A!Verdicts

\* The new session of a hello
LEMMA FreshSession ==
    ASSUME DoorTypes, NEW f \in a_net, f.type = "hello", a_servers < a_MaxServers
    PROVE  A!Fresh(f) \in A!Session
<1>1. f.of \in a_Joiners /\ f.attempt \in 1 .. a_MaxAttempts
  BY DEF DoorTypes, DoorFrame
<1>2. a_servers + 1 \in 1 .. a_MaxServers
  BY DoorAssumed DEF DoorTypes, DoorNumbers, A!AdmissionAssumption
<1> QED
  BY <1>1, <1>2 DEF A!Fresh, A!Session

LEMMA DoorSessionsStep == DoorTypes /\ A!Next => DoorSessions'
<1> SUFFICES ASSUME DoorTypes, A!Next PROVE DoorSessions'
  OBVIOUS
<1>1. DoorSessions /\ DoorShape
  BY DEF DoorTypes, DoorInv
<1>2. ASSUME UNCHANGED a_sessions PROVE DoorSessions'
  BY <1>1, <1>2 DEF DoorSessions, A!Session, A!Verdicts
<1>3. ASSUME NEW j \in a_Joiners, a_sessions' = A!Without(j) PROVE DoorSessions'
  <2>1. CASE A!Has(j)
    <3>1. A!SessionOf(j) \in a_sessions /\ A!SessionOf(j).of = j
      BY <1>1, <2>1, TheSession
    <3>2. "new" \in A!Verdicts \union {"new", "waiting"}
      OBVIOUS
    <3> QED
      BY <1>3, <3>1, <3>2, SessionReplaced
  <2>2. CASE ~A!Has(j)
    <3>1. A!Without(j) = a_sessions
      BY <2>2 DEF A!Has, A!Without
    <3> QED
      BY <1>2, <1>3, <3>1
  <2> QED
    BY <2>1, <2>2
<1>4. ASSUME NEW f \in a_net, A!AcceptHello(f) PROVE DoorSessions'
  <2>1. UNCHANGED a_sessions \/ (A!Open(A!Fresh(f)) /\ a_servers < a_MaxServers /\ f.type = "hello")
    BY <1>4 DEF A!AcceptHello
  <2> QED
    BY <1>2, <2>1, FreshSession, SessionOpened
<1>5. A!Verdict \in A!Verdicts /\ "denied" \in A!Verdicts
  BY DEF A!Verdict, A!Verdicts
<1>6. ASSUME NEW f \in a_net, A!ProcessAuth(f) PROVE DoorSessions'
  <2> DEFINE s == A!SessionOf(f.of)
  <2>1. s \in a_sessions /\ s.of = f.of
    BY <1>1, <1>6, TheSession DEF A!ProcessAuth
  <2>2. \/ UNCHANGED a_sessions
        \/ \E v \in A!Verdicts \union {"new", "waiting"} :
             a_sessions' = A!Without(s.of) \/ A!SetSession([s EXCEPT !.status = v])
    BY <1>5, <1>6, <2>1 DEF A!ProcessAuth
  <2> HIDE DEF s
  <2> QED
    BY <1>2, <2>1, <2>2, SessionReplaced
<1>7. ASSUME A!ApproveJoin PROVE DoorSessions'
  <2>1. PICK a \in a_answering :
          \/ UNCHANGED a_sessions
          \/ /\ A!Has(a.of)
             /\ \E v \in A!Verdicts \union {"new", "waiting"} : A!SetSession([A!SessionOf(a.of) EXCEPT !.status = v])
    BY <1>5, <1>7 DEF A!ApproveJoin
  <2> QED
    BY <1>1, <1>2, <2>1, TheSession, SessionReplaced
<1>8. \/ UNCHANGED a_sessions \/ A!ApproveJoin
      \/ \E j \in a_Joiners : a_sessions' = A!Without(j)
      \/ \E f \in a_net : A!AcceptHello(f) \/ A!ProcessAuth(f)
  BY DEF A!Next, A!RequestJoinRoom, A!GiveUp, A!ExpireSession, A!JoinRequest, A!RelayWelcome,
       A!Leave, A!TimeOut, A!ListAgain, A!Forget, A!OnKnock, A!ProcessChallenge, A!ProcessResult,
       A!TakeKnock, A!ToggleKnock, A!LockOrUnlock, A!host
<1> QED
  BY <1>2, <1>3, <1>4, <1>6, <1>7, <1>8

LEMMA DoorFramesStep == DoorTypes /\ A!Next => \A f \in a_net' : DoorFrame(f)
<1> SUFFICES ASSUME DoorTypes, A!Next PROVE \A f \in a_net' : DoorFrame(f)
  OBVIOUS
<1>1. DoorShape /\ DoorNumbers /\ \A f \in a_net : DoorFrame(f)
  BY DEF DoorTypes, DoorInv
<1>2. ASSUME NEW s \in A!Session PROVE DoorFrame(A!Challenge(s))
  BY <1>2 DEF A!Challenge, DoorFrame, A!Session
<1>3. ASSUME NEW j \in a_Joiners, NEW s, NEW v PROVE DoorFrame(A!Result(j, s, v))
  BY <1>3 DEF A!Result, DoorFrame
<1>4. ASSUME NEW j \in a_Joiners, A!RequestJoinRoom(j) PROVE \A f \in a_net' : DoorFrame(f)
  <2>1. a_attempt[j] + 1 \in 1 .. a_MaxAttempts
    BY <1>1, <1>4, DoorAssumed DEF A!RequestJoinRoom, DoorNumbers, A!AdmissionAssumption
  <2>2. a_net' = a_net \union {[type |-> "hello", of |-> j, attempt |-> a_attempt[j] + 1]}
    BY <1>4 DEF A!RequestJoinRoom, A!Send
  <2>3. DoorFrame([type |-> "hello", of |-> j, attempt |-> a_attempt[j] + 1])
    BY <2>1 DEF DoorFrame
  <2> QED
    BY <1>1, <2>2, <2>3
<1>5. ASSUME NEW f \in a_net, A!AcceptHello(f) PROVE \A g \in a_net' : DoorFrame(g)
  <2>1. \E s \in A!Session : A!Send(A!Challenge(s))
    <3>1. CASE A!Has(f.of) /\ A!Send(A!Challenge(A!SessionOf(f.of)))
      BY <1>1, <3>1, TheSession DEF DoorTypes, DoorSessions
    <3>2. CASE a_servers < a_MaxServers /\ f.type = "hello" /\ A!Send(A!Challenge(A!Fresh(f)))
      BY <3>2, FreshSession
    <3> QED
      BY <1>5, <3>1, <3>2 DEF A!AcceptHello
  <2> QED
    BY <1>1, <1>2, <2>1 DEF A!Send
<1>6. ASSUME NEW f \in a_net, A!ProcessChallenge(f) PROVE \A g \in a_net' : DoorFrame(g)
  <2>1. a_net' = a_net \union {[type |-> "auth", of |-> f.of, attempt |-> f.attempt, server |-> f.server]}
    BY <1>6 DEF A!ProcessChallenge, A!Send
  <2>2. DoorFrame([type |-> "auth", of |-> f.of, attempt |-> f.attempt, server |-> f.server])
    BY <1>1, <1>6 DEF A!ProcessChallenge, DoorFrame
  <2> QED
    BY <1>1, <2>1, <2>2
<1>7. ASSUME NEW f \in a_net, A!ProcessAuth(f) PROVE \A g \in a_net' : DoorFrame(g)
  <2>1. \/ UNCHANGED a_net \/ \E s, v : A!Send(A!Result(f.of, s, v))
    BY <1>7 DEF A!ProcessAuth
  <2>2. f.of \in a_Joiners
    BY <1>1 DEF DoorFrame
  <2> QED
    BY <1>1, <1>3, <2>1, <2>2 DEF A!Send
<1>8. ASSUME A!ApproveJoin PROVE \A g \in a_net' : DoorFrame(g)
  <2>1. PICK a \in a_answering :
          \/ UNCHANGED a_net
          \/ A!Has(a.of) /\ \E s, v : A!Send(A!Result(a.of, s, v))
    BY <1>8 DEF A!ApproveJoin
  <2>2. A!Has(a.of) => a.of \in a_Joiners
    BY <1>1, TheSession DEF DoorShape, SessionsAgree, IsSession
  <2> QED
    BY <1>1, <1>3, <2>1, <2>2 DEF A!Send
<1>9. \/ UNCHANGED a_net \/ A!ApproveJoin
      \/ \E j \in a_Joiners : A!RequestJoinRoom(j)
      \/ \E f \in a_net : A!AcceptHello(f) \/ A!ProcessAuth(f) \/ A!ProcessChallenge(f)
  BY DEF A!Next, A!ExpireSession, A!GiveUp, A!JoinRequest, A!RelayWelcome,
       A!Leave, A!TimeOut, A!ListAgain, A!OnKnock, A!ProcessResult, A!TakeKnock, A!ToggleKnock, A!LockOrUnlock
<1> QED
  BY <1>1, <1>4, <1>5, <1>6, <1>7, <1>8, <1>9

LEMMA NoKnockerTwice == DoorTypes /\ A!Next => NoTwice(a_requests')
<1> SUFFICES ASSUME DoorTypes, A!Next PROVE NoTwice(a_requests')
  OBVIOUS
<1>1. a_requests \in Seq(a_Joiners) /\ NoTwice(a_requests)
  BY DEF DoorTypes, DoorInv, DoorShape
<1>2. Len(a_requests) \in Nat /\ DOMAIN a_requests = 1 .. Len(a_requests)
  BY <1>1, LenProperties
<1>3. ASSUME NEW j \in a_Joiners, A!OnKnock(j) PROVE NoTwice(a_requests')
  <2>1. CASE a_requests' = a_requests
    BY <1>1, <2>1
  <2>2. CASE ~A!Contains(a_requests, j) /\ a_requests' = Append(a_requests, j)
    <3>1. /\ Len(a_requests') = Len(a_requests) + 1 /\ a_requests'[Len(a_requests) + 1] = j
          /\ \A i \in 1 .. Len(a_requests) : a_requests'[i] = a_requests[i]
      BY <1>1, <2>2, AppendProperties
    <3>2. \A i \in 1 .. Len(a_requests) : a_requests[i] # j
      BY <1>2, <2>2 DEF A!Contains
    <3> QED
      BY <1>1, <1>2, <3>1, <3>2 DEF NoTwice
  <2> QED
    BY <1>3, <2>1, <2>2 DEF A!OnKnock
<1>4. ASSUME A!TakeKnock PROVE NoTwice(a_requests')
  <2>1. /\ Len(a_requests') = Len(a_requests) - 1 /\ Len(a_requests) > 0
        /\ \A i \in 1 .. Len(a_requests) - 1 : a_requests'[i] = a_requests[i + 1]
    BY <1>1, <1>2, <1>4 DEF A!TakeKnock
  <2> QED
    BY <1>1, <1>2, <2>1 DEF NoTwice
<1>5. ASSUME A!ToggleKnock PROVE NoTwice(a_requests')
  <2>1. a_requests' = <<>> \/ a_requests' = a_requests
    BY <1>5, Zenon DEF A!ToggleKnock
  <2> QED
    BY <1>1, <2>1 DEF NoTwice
<1>6. \/ UNCHANGED a_requests \/ A!TakeKnock \/ A!ToggleKnock
      \/ \E j \in a_Joiners : A!OnKnock(j)
  BY DEF A!Next, A!RequestJoinRoom, A!GiveUp, A!ExpireSession, A!JoinRequest, A!RelayWelcome,
       A!Leave, A!TimeOut, A!ListAgain, A!AcceptHello, A!ProcessChallenge, A!ProcessAuth, A!ProcessResult,
       A!ApproveJoin, A!LockOrUnlock, A!queue
<1> QED
  BY <1>1, <1>3, <1>4, <1>5, <1>6

LEMMA DoorTypesStep == DoorTypes /\ DoorInv' /\ [Next]_all => DoorTypes'
<1> SUFFICES ASSUME DoorTypes, DoorInv', [Next]_all PROVE DoorTypes'
  OBVIOUS
<1>1. A!Next \/ UNCHANGED aVars
  BY DEF Next, Others, all
<1>2. CASE A!Next
  <2>1. DoorNumbers' /\ DoorSessions' /\ NoTwice(a_requests)'
    BY <1>2, DoorNumbersStep, DoorSessionsStep, NoKnockerTwice
  <2>2. (\A f \in a_net : DoorFrame(f))'
    BY <1>2, DoorFramesStep DEF DoorFrame
  <2> QED
    BY <2>1, <2>2 DEF DoorTypes
<1>3. CASE UNCHANGED aVars
  BY <1>3 DEF aVars, DoorTypes, DoorNumbers, DoorSessions, DoorFrame, NoTwice, A!Session, A!Verdicts
<1> QED
  BY <1>1, <1>2, <1>3

-----------------------------------------------------------------------------
(* The types of the chat                                                   *)

\* A ring within its limit, empty while no history is kept
KeptRing(log, seen, off, top) ==
    /\ Ring(log, seen, top) /\ Len(log) <= t_Limit
    /\ off => log = <<>>

\* A packet between members, of messages that were said
ChatPacket(p, top) ==
    /\ p.type = "live" => p.m \in 1 .. top
    /\ p.type = "part" => p.m \in (1 .. top) \intersect t_Long /\ p.history \in BOOLEAN /\ p.part \in {1, 2}
    /\ p.type = "history" => p.entries \in Seq(1 .. top)
    /\ p.type = "ping" => p.off \in BOOLEAN

ChatRoom ==
    /\ t_said \in 0 .. t_MaxSaid /\ t_joins \in 0 .. t_MaxJoins /\ t_switches \in 0 .. t_MaxSwitches
    /\ t_owed \in [t_Members \X t_Members -> 0 .. 2]

\* What each member knows of messages that were said up to a certain one
ChatKnown(top) ==
    /\ t_chatHistoryOff \in [t_Members -> BOOLEAN]
    /\ t_heard \in [t_Members -> SUBSET (1 .. top)]
    /\ t_chatParts \in [t_Members -> SUBSET (t_Long \X BOOLEAN \X {1, 2})]
    /\ t_chatPartsDone \in [t_Members -> SUBSET (t_Long \X BOOLEAN)]
    /\ \A n \in t_Members : KeptRing(t_chatLog[n], t_chatSeen[n], t_chatHistoryOff[n], top)
    /\ \A p \in t_net : ChatPacket(p, top)

ChatTypes == ChatInv /\ ChatRoom /\ ChatKnown(t_said)

LEMMA ChatTyped == ChatTypes => T!TypeOK
<1> SUFFICES ASSUME ChatTypes PROVE T!TypeOK
  OBVIOUS
<1>1. t_inRoom \subseteq t_Members /\ ChatRoom
  BY DEF ChatTypes, ChatInv, ChatShape
<1> SUFFICES ASSUME NEW n \in t_Members
             PROVE  /\ Len(t_chatLog[n]) <= t_Limit /\ T!IsInjective(t_chatLog[n])
                    /\ T!ToSet(t_chatLog[n]) \subseteq t_chatSeen[n] /\ t_chatSeen[n] \subseteq 1 .. t_said
                    /\ t_heard[n] \subseteq 1 .. t_said
                    /\ t_chatParts[n] \subseteq t_Long \X BOOLEAN \X {1, 2}
                    /\ t_chatPartsDone[n] \subseteq t_Long \X BOOLEAN
                    /\ t_chatHistoryOff[n] => t_chatLog[n] = <<>>
  BY <1>1 DEF T!TypeOK, ChatRoom
<1>2. KeptRing(t_chatLog[n], t_chatSeen[n], t_chatHistoryOff[n], t_said)
  BY DEF ChatTypes, ChatKnown
<1>3. /\ t_heard[n] \subseteq 1 .. t_said
      /\ t_chatParts[n] \subseteq t_Long \X BOOLEAN \X {1, 2}
      /\ t_chatPartsDone[n] \subseteq t_Long \X BOOLEAN
  BY DEF ChatTypes, ChatKnown
<1>4. T!IsInjective(t_chatLog[n]) /\ T!ToSet(t_chatLog[n]) \subseteq t_chatSeen[n]
  BY <1>2 DEF KeptRing, Ring, T!IsInjective, T!ToSet
<1> QED
  BY <1>2, <1>3, <1>4 DEF KeptRing, Ring

LEMMA ChatTypesInit == Init => ChatTypes
<1> SUFFICES ASSUME T!Init, ChatInv PROVE ChatTypes
  BY ChatInit DEF Init
<1>1. {t_Limit, t_MaxSaid, t_MaxJoins, t_MaxSwitches} \subseteq Nat
  BY ChatAssumed DEF T!ChatHistoryAssumption
<1>2. ChatRoom
  BY <1>1 DEF T!Init, ChatRoom
<1>3. \A n \in t_Members : KeptRing(t_chatLog[n], t_chatSeen[n], t_chatHistoryOff[n], t_said)
  BY <1>1 DEF T!Init, KeptRing, Ring
<1>4. ChatKnown(t_said)
  BY <1>3 DEF T!Init, ChatKnown
<1> QED
  BY <1>2, <1>4 DEF ChatTypes

\* The newest entries of a ring that grew by one.
LEMMA NewestOnes ==
    ASSUME t_Limit \in Nat, NEW top \in Nat, NEW log, NEW seen, Ring(log, seen, top), NEW m \in 1 .. top, m \notin seen
    PROVE  LET new == T!Newest(Append(log, m))
           IN  /\ Len(new) <= t_Limit
               /\ Ring(new, (seen \union {m}) \ (T!ToSet(log) \ T!ToSet(new)), top)
<1> DEFINE more == Append(log, m)
           new == T!Newest(more)
<1>1. Len(log) \in Nat /\ DOMAIN log = 1 .. Len(log) /\ log \in Seq(1 .. top)
  BY DEF Ring
<1>2. /\ more \in Seq(1 .. top) /\ Len(more) = Len(log) + 1 /\ DOMAIN more = 1 .. Len(log) + 1
      /\ more[Len(log) + 1] = m /\ \A i \in 1 .. Len(log) : more[i] = log[i]
  BY <1>1
<1> HIDE DEF more
<1>3. \A i, j \in 1 .. Len(more) : more[i] = more[j] => i = j
  <2>1. \A i \in 1 .. Len(log) : more[i] # m
    BY <1>1, <1>2 DEF Ring
  <2>2. \A i \in 1 .. Len(more) : i \in 1 .. Len(log) \/ i = Len(log) + 1
    BY <1>1, <1>2
  <2> QED
    BY <1>1, <1>2, <2>1, <2>2 DEF Ring
<1>4. PICK d \in Nat : /\ new \in Seq(1 .. top) /\ Len(new) <= t_Limit
                       /\ Len(new) = Len(more) - d
                       /\ \A i \in 1 .. Len(new) : new[i] = more[i + d]
  <2>1. CASE Len(more) > t_Limit
    <3> DEFINE a == Len(more) - t_Limit + 1
               b == Len(more)
    <3>1. new = SubSeq(more, a, b)
      BY <2>1 DEF T!Newest
    <3>2. a \in Int /\ b \in Int /\ \A i \in a .. b : more[i] \in 1 .. top
      BY <1>1, <1>2, <2>1
    <3>3. b - a + 1 = t_Limit /\ a - 1 = Len(more) - t_Limit /\ a - 1 \in Nat
      BY <1>1, <1>2, <2>1
    <3> HIDE DEF a, new
    <3>4. /\ new \in Seq(1 .. top) /\ Len(new) = IF a <= b THEN b - a + 1 ELSE 0
          /\ \A i \in 1 .. b - a + 1 : new[i] = more[a + i - 1]
      BY <3>1, <3>2, SubSeqProperties
    <3>5. Len(new) = t_Limit
      BY <1>1, <1>2, <3>2, <3>3, <3>4
    <3> DEFINE d == a - 1
    <3>6. \A i \in 1 .. t_Limit : a + i - 1 = i + d
      BY <3>2
    <3>7. d \in Nat /\ Len(new) = Len(more) - d
      BY <1>1, <1>2, <3>3, <3>5
    <3>8. \A i \in 1 .. Len(new) : new[i] = more[i + d]
      BY <3>3, <3>4, <3>5, <3>6
    <3> HIDE DEF d
    <3> QED
      BY <3>4, <3>5, <3>7, <3>8
  <2>2. CASE ~(Len(more) > t_Limit)
    <3>1. new = more
      BY <2>2 DEF T!Newest
    <3> HIDE DEF new
    <3>2. \A i \in 1 .. Len(new) : new[i] = more[i + 0]
      BY <1>1, <1>2, <3>1
    <3>3. new \in Seq(1 .. top) /\ Len(new) <= t_Limit /\ Len(new) = Len(more) - 0
      BY <1>1, <1>2, <2>2, <3>1
    <3>4. 0 \in Nat
      OBVIOUS
    <3> QED
      BY <3>2, <3>3, <3>4
  <2> QED
    BY <2>1, <2>2
<1> HIDE DEF new
<1>5. Len(new) \in Nat /\ DOMAIN new = 1 .. Len(new)
  BY <1>4
<1>6. ASSUME NEW i \in DOMAIN new PROVE i \in Nat /\ i + d \in 1 .. Len(more) /\ i + d \in 1 .. Len(log) + 1
  <2> DEFINE ln == Len(new)
             lm == Len(more)
  <2>1. i \in 1 .. ln /\ ln \in Nat /\ lm = Len(log) + 1 /\ ln = lm - d
    BY <1>2, <1>4, <1>5
  <2> HIDE DEF ln, lm
  <2>2. i + d \in 1 .. lm
    BY <1>1, <2>1
  <2> QED
    BY <2>1, <2>2 DEF lm
<1>7. ASSUME NEW i \in DOMAIN new, NEW j \in DOMAIN new, new[i] = new[j] PROVE i = j
  <2>1. i + d \in 1 .. Len(more) /\ j + d \in 1 .. Len(more)
    BY <1>6
  <2>2. more[i + d] = more[j + d]
    BY <1>4, <1>5, <1>7
  <2>3. i + d = j + d
    BY <1>3, <2>1, <2>2
  <2> QED
    BY <1>6, <2>3
<1> DEFINE rest == (seen \union {m}) \ (T!ToSet(log) \ T!ToSet(new))
<1>8. ASSUME NEW i \in DOMAIN new PROVE new[i] \in rest
  <2>1. i + d \in 1 .. Len(log) + 1 /\ new[i] = more[i + d]
    BY <1>6, <1>4, <1>5
  <2>2. new[i] \in seen \union {m}
    <3> DEFINE j == i + d
    <3>1. j \in 1 .. Len(log) \/ j = Len(log) + 1
      BY <1>1, <2>1
    <3> HIDE DEF j
    <3>2. \A h \in 1 .. Len(log) : log[h] \in seen
      BY <1>1 DEF Ring
    <3>3. more[j] \in seen \union {m}
      BY <1>2, <3>1, <3>2
    <3> QED
      BY <2>1, <3>3 DEF j
  <2>3. new[i] \in T!ToSet(new)
    BY DEF T!ToSet
  <2> QED
    BY <2>2, <2>3
<1>9. rest \subseteq 1 .. top
  BY DEF Ring
<1> HIDE DEF rest
<1>10. Ring(new, rest, top)
  BY <1>4, <1>7, <1>8, <1>9 DEF Ring
<1> QED
  BY <1>4, <1>10 DEF new, more, rest

\* What recordChat starts from and leaves
Tidy(k, top) ==
    \E log, seen, off, fresh :
      /\ k = [log |-> log, seen |-> seen, off |-> off, fresh |-> fresh]
      /\ off \in BOOLEAN /\ KeptRing(log, seen, off, top)

LEMMA RecordTidies ==
    ASSUME NEW k, NEW top \in Nat, NEW m \in 1 .. top, t_Limit \in Nat, Tidy(k, top)
    PROVE  Tidy(T!RecordChat(k, m), top) /\ T!RecordChat(k, m).off = k.off
<1>1. PICK log, seen, off, fresh :
        /\ k = [log |-> log, seen |-> seen, off |-> off, fresh |-> fresh]
        /\ off \in BOOLEAN /\ KeptRing(log, seen, off, top)
  BY DEF Tidy
<1>2. CASE m \in seen
  <2>1. T!RecordChat(k, m) = k
    BY <1>1, <1>2 DEF T!RecordChat
  <2> QED
    BY <2>1
<1> DEFINE new == T!Newest(Append(log, m))
           rest == (seen \union {m}) \ (T!ToSet(log) \ T!ToSet(new))
<1>3. m \notin seen =>
        T!RecordChat(k, m) = [log |-> IF off THEN log ELSE new,
                              seen |-> (seen \union {m}) \ (IF off THEN {} ELSE T!ToSet(log) \ T!ToSet(new)),
                              off |-> off, fresh |-> fresh \union {m}]
  <2>1. k.log = log /\ k.seen = seen /\ k.off = off /\ k.fresh = fresh
    BY <1>1
  <2> QED
    BY <2>1 DEF T!RecordChat
<1> HIDE DEF new
<1>4. CASE m \notin seen /\ off
  <2>1. T!RecordChat(k, m) = [log |-> log, seen |-> (seen \union {m}) \ {}, off |-> off, fresh |-> fresh \union {m}]
    BY <1>3, <1>4
  <2>2. KeptRing(log, (seen \union {m}) \ {}, off, top)
    BY <1>1, <1>4 DEF KeptRing, Ring
  <2>3. T!RecordChat(k, m).off = k.off
    BY <1>1, <2>1
  <2>4. Tidy(T!RecordChat(k, m), top)
    BY <1>1, <2>1, <2>2, Zenon DEF Tidy
  <2> QED
    BY <2>3, <2>4
<1>5. CASE m \notin seen /\ ~off
  <2>1. T!RecordChat(k, m) = [log |-> new, seen |-> rest, off |-> off, fresh |-> fresh \union {m}]
    BY <1>3, <1>5
  <2>2. Ring(new, rest, top) /\ Len(new) <= t_Limit
    BY <1>1, <1>5, NewestOnes DEF KeptRing, new
  <2> HIDE DEF rest
  <2>3. KeptRing(new, rest, off, top)
    BY <1>5, <2>2 DEF KeptRing
  <2>4. T!RecordChat(k, m).off = k.off
    BY <1>1, <2>1
  <2>5. Tidy(T!RecordChat(k, m), top)
    BY <1>1, <2>1, <2>3, Zenon DEF Tidy
  <2> QED
    BY <2>4, <2>5
<1> QED
  BY <1>1, <1>2, <1>4, <1>5

LEMMA RecordAllTidies ==
    ASSUME NEW n, NEW top \in Nat, t_Limit \in Nat, NEW entries \in Seq(1 .. top),
           t_chatHistoryOff[n] \in BOOLEAN,
           KeptRing(t_chatLog[n], t_chatSeen[n], t_chatHistoryOff[n], top)
    PROVE  LET k == T!RecordAll(n, entries) IN KeptRing(k.log, k.seen, t_chatHistoryOff[n], top)
<1> DEFINE off == t_chatHistoryOff[n]
           base == [log |-> t_chatLog[n], seen |-> t_chatSeen[n], off |-> off, fresh |-> {}]
           last == Len(entries)
<1>1. T!RecordAll(n, entries) = Records!FoldLeft(Record, base, entries)
  BY DEF T!RecordAll, T!FoldLeft, T!MapThenFoldSet, T!Max, Records!FoldLeft, Records!MapThenFoldSet,
         Records!Max, Record
<1>2. Tidy(base, top) /\ base.off = off
  BY DEF Tidy
<1>3. last \in Nat /\ DOMAIN entries = 1 .. last
  OBVIOUS
<1> HIDE DEF base, last, off
<1>4. PICK after : Records!StepByStep(after, last, base, entries)
                   /\ Records!FoldLeft(Record, base, entries) = after[last]
  BY <1>3, Records!FoldStepByStep
<1> DEFINE good == {k \in 0 .. last : Tidy(after[k], top) /\ after[k].off = off}
<1>5. 0 \in good
  BY <1>2, <1>3, <1>4 DEF Records!StepByStep
<1>6. ASSUME NEW k \in good, k < last PROVE k + 1 \in good
  <2>1. k \in 0 .. last /\ k + 1 \in 1 .. last /\ k + 1 \in 0 .. last
    BY <1>3, <1>6
  <2>2. entries[k + 1] \in 1 .. top
    BY <1>3, <2>1
  <2>3. after[k + 1] = T!RecordChat(after[k], entries[k + 1])
    BY <1>4, <1>6, <2>1 DEF Records!StepByStep, Record
  <2>4. Tidy(after[k + 1], top) /\ after[k + 1].off = off
    BY <2>2, <2>3, RecordTidies
  <2> QED
    BY <2>1, <2>4
<1> HIDE DEF good
<1>7. last \in good
  BY <1>3, <1>5, <1>6, Records!UpTo
<1>8. Tidy(T!RecordAll(n, entries), top) /\ T!RecordAll(n, entries).off = off
  BY <1>1, <1>4, <1>7 DEF good
<1> DEFINE k == T!RecordAll(n, entries)
<1> HIDE DEF k
<1>9. KeptRing(k.log, k.seen, k.off, top)
  BY <1>8 DEF Tidy, k
<1> QED
  BY <1>8, <1>9 DEF k, off

\* What holds up to a message holds up to a later one.
LEMMA MoreKnown ==
    ASSUME NEW few \in Nat, NEW many \in Nat, few <= many, ChatKnown(few)
    PROVE  ChatKnown(many)
<1>1. 1 .. few \subseteq 1 .. many
  OBVIOUS
<1>2. \A s : s \in Seq(1 .. few) => s \in Seq(1 .. many)
  BY <1>1
<1>3. \A p \in t_net : ChatPacket(p, many)
  BY <1>1, <1>2 DEF ChatKnown, ChatPacket
<1>4. \A n \in t_Members : KeptRing(t_chatLog[n], t_chatSeen[n], t_chatHistoryOff[n], many)
  BY <1>1, <1>2 DEF ChatKnown, KeptRing, Ring
<1>5. t_heard \in [t_Members -> SUBSET (1 .. many)]
  BY <1>1 DEF ChatKnown
<1> QED
  BY <1>3, <1>4, <1>5 DEF ChatKnown

\* What each member keeps, in the next state.
KeptNext(top) ==
    \A n \in t_Members : KeptRing(t_chatLog'[n], t_chatSeen'[n], t_chatHistoryOff'[n], top)

LEMMA KeepTidies ==
    ASSUME t_Limit \in Nat, ChatShape, NEW top \in Nat, ChatKnown(top), NEW n \in t_Members,
           NEW entries \in Seq(1 .. top), UNCHANGED t_chatHistoryOff,
           T!Keep(n, entries, T!AddChatMessage) \/ T!Keep(n, entries, T!AddChatHistory)
    PROVE  KeptNext(top)
<1> DEFINE k == T!RecordAll(n, entries)
<1>1. t_chatHistoryOff[n] \in BOOLEAN /\ KeptRing(t_chatLog[n], t_chatSeen[n], t_chatHistoryOff[n], top)
  BY DEF ChatKnown
<1>2. KeptRing(k.log, k.seen, t_chatHistoryOff[n], top)
  BY <1>1, RecordAllTidies
<1>3. t_chatLog' = [t_chatLog EXCEPT ![n] = k.log] /\ t_chatSeen' = [t_chatSeen EXCEPT ![n] = k.seen]
  BY DEF T!Keep
<1> HIDE DEF k
<1>4. /\ t_chatLog'[n] = k.log /\ t_chatSeen'[n] = k.seen
      /\ \A o \in t_Members \ {n} : t_chatLog'[o] = t_chatLog[o] /\ t_chatSeen'[o] = t_chatSeen[o]
  BY <1>3 DEF ChatShape
<1>5. ASSUME NEW o \in t_Members
      PROVE  KeptRing(t_chatLog'[o], t_chatSeen'[o], t_chatHistoryOff'[o], top)
  <2>1. CASE o = n
    BY <1>2, <1>4, <2>1
  <2>2. CASE o # n
    BY <1>4, <2>2 DEF ChatKnown
  <2> QED
    BY <2>1, <2>2
<1> QED
  BY <1>5 DEF KeptNext

\* The parts of what is known that a step leaves alone
LEMMA KnownStays ==
    ASSUME ChatKnown(t_said), UNCHANGED t_said,
           UNCHANGED t_chatHistoryOff \/ t_chatHistoryOff' \in [t_Members -> BOOLEAN],
           UNCHANGED <<t_chatLog, t_chatSeen, t_chatHistoryOff>> \/ KeptNext(t_said),
           UNCHANGED t_heard \/ t_heard' \in [t_Members -> SUBSET (1 .. t_said)],
           UNCHANGED t_chatParts \/ t_chatParts' \in [t_Members -> SUBSET (t_Long \X BOOLEAN \X {1, 2})],
           UNCHANGED t_chatPartsDone \/ t_chatPartsDone' \in [t_Members -> SUBSET (t_Long \X BOOLEAN)],
           \A p \in t_net' : p \in t_net \/ ChatPacket(p, t_said)
    PROVE  ChatKnown(t_said)'
  BY DEF ChatKnown, KeptNext, KeptRing, Ring, ChatPacket

LEMMA ChatRoomStep == ChatTypes /\ T!Next => ChatRoom'
<1> SUFFICES ASSUME ChatTypes, T!Next PROVE ChatRoom'
  OBVIOUS
<1>1. ChatRoom
  BY DEF ChatTypes
<1>2. {t_Limit, t_MaxSaid, t_MaxJoins, t_MaxSwitches} \subseteq Nat
  BY ChatAssumed DEF T!ChatHistoryAssumption
<1> DEFINE Pairs == t_Members \X t_Members
<1>3. ASSUME UNCHANGED <<t_said, t_joins, t_switches, t_owed>> PROVE ChatRoom'
  BY <1>1, <1>3 DEF ChatRoom
<1>4. ASSUME NEW n \in t_Members, T!Join(n) PROVE ChatRoom'
  <2>1. t_joins' \in 0 .. t_MaxJoins /\ UNCHANGED <<t_said, t_switches>>
    BY <1>1, <1>2, <1>4 DEF T!Join, ChatRoom
  <2>2. \A q \in Pairs : t_owed'[q] \in {2, t_owed[q]}
    BY <1>1, <1>4 DEF T!Join, ChatRoom
  <2>3. t_owed' = [q \in Pairs |-> t_owed'[q]]
    BY <1>1, <1>4 DEF T!Join, ChatRoom
  <2>4. t_owed' \in [Pairs -> 0 .. 2]
    <3> HIDE DEF Pairs
    <3>1. t_owed \in [Pairs -> 0 .. 2]
      BY <1>1 DEF ChatRoom, Pairs
    <3>2. \A q \in Pairs : t_owed'[q] \in 0 .. 2
      BY <2>2, <3>1
    <3> QED
      BY <2>3, <3>2
  <2> QED
    BY <1>1, <2>1, <2>4 DEF ChatRoom
<1>5. ASSUME NEW n \in t_Members, T!Leave(n) \/ T!DropParts(n) \/ T!SendPing(n) PROVE ChatRoom'
  BY <1>3, <1>5 DEF T!Leave, T!DropParts, T!SendPing
<1>6. ASSUME NEW n \in t_Members, T!SendChatMessage(n) PROVE ChatRoom'
  BY <1>1, <1>2, <1>6 DEF T!SendChatMessage, ChatRoom
<1>7. ASSUME NEW n \in t_Members, NEW to \in t_Members, T!SendChatHistory(n, to) PROVE ChatRoom'
  <2> DEFINE q == <<n, to>>
  <2>1. q \in Pairs /\ t_owed[q] > 0 /\ t_owed' = [t_owed EXCEPT ![q] = @ - 1]
        /\ UNCHANGED <<t_said, t_joins, t_switches>>
    BY <1>7 DEF T!SendChatHistory
  <2> HIDE DEF q, Pairs
  <2>2. t_owed \in [Pairs -> 0 .. 2]
    BY <1>1 DEF ChatRoom, Pairs
  <2>3. t_owed' \in [Pairs -> 0 .. 2]
    BY <2>1, <2>2
  <2> QED
    BY <1>1, <2>1, <2>3 DEF ChatRoom, Pairs
<1>8. ASSUME NEW p \in t_net, T!ReceiveLive(p) \/ T!ReceiveHistory(p) \/ T!ReceivePart(p) \/ T!ReceivePing(p)
      PROVE  ChatRoom'
  BY <1>3, <1>8 DEF T!ReceiveLive, T!ReceiveHistory, T!ReceivePart, T!ReceivePing
<1>9. ASSUME T!Switch PROVE ChatRoom'
  BY <1>1, <1>2, <1>9 DEF T!Switch, ChatRoom
<1> QED
  BY <1>4, <1>5, <1>6, <1>7, <1>8, <1>9 DEF T!Next

\* A member switches its history on or off, or begins with an empty one.
LEMMA SwitchTidies ==
    ASSUME t_Limit \in Nat, ChatShape, NEW top \in Nat, ChatKnown(top), NEW n \in t_Members, NEW on \in BOOLEAN,
           T!SetChatHistory(n, on), UNCHANGED t_chatSeen
    PROVE  KeptNext(top) /\ t_chatHistoryOff' \in [t_Members -> BOOLEAN]
<1>1. t_chatHistoryOff' = [t_chatHistoryOff EXCEPT ![n] = ~on] /\ (~on) \in BOOLEAN
  <2>1. (~on) \in BOOLEAN
    BY Zenon
  <2> QED
    BY <2>1 DEF T!SetChatHistory
<1>2. t_chatHistoryOff' \in [t_Members -> BOOLEAN]
  BY <1>1 DEF ChatKnown
<1>3. ASSUME NEW o \in t_Members
      PROVE  KeptRing(t_chatLog'[o], t_chatSeen'[o], t_chatHistoryOff'[o], top)
  <2>1. KeptRing(t_chatLog[o], t_chatSeen[o], t_chatHistoryOff[o], top)
    BY DEF ChatKnown
  <2>2. CASE o # n
    <3>1. t_chatLog'[o] = t_chatLog[o] /\ t_chatHistoryOff'[o] = t_chatHistoryOff[o]
      BY <1>1, <2>2 DEF T!SetChatHistory, ChatShape, ChatKnown
    <3> QED
      BY <2>1, <3>1
  <2>3. CASE o = n /\ on
    <3>1. t_chatLog'[o] = t_chatLog[o] /\ t_chatHistoryOff'[o] = FALSE
      BY <1>1, <2>3 DEF T!SetChatHistory, ChatKnown
    <3> QED
      BY <2>1, <3>1 DEF KeptRing
  <2>4. CASE o = n /\ ~on
    <3>1. t_chatLog'[o] = <<>> /\ t_chatSeen'[o] \subseteq 1 .. top
      BY <2>1, <2>4 DEF T!SetChatHistory, ChatShape, KeptRing, Ring
    <3> QED
      BY <3>1 DEF KeptRing, Ring
  <2> QED
    BY <2>2, <2>3, <2>4
<1> QED
  BY <1>2, <1>3 DEF KeptNext

\* Both parts of a long message
LEMMA PartsFit ==
    ASSUME NEW top, NEW m \in 1 .. top, m \in t_Long, NEW history \in BOOLEAN, NEW to
    PROVE  \A p \in T!Parts(m, history, to) : ChatPacket(p, top)
<1> TAKE p \in T!Parts(m, history, to)
<1>1. PICK i \in {1, 2} : p = [type |-> "part", m |-> m, part |-> i, history |-> history, to |-> to]
  BY DEF T!Parts
<1>2. p.type = "part" /\ p.m = m /\ p.part = i /\ p.history = history
  BY <1>1
<1> QED
  BY <1>2 DEF ChatPacket

LEMMA ChatKnownStep == ChatTypes /\ T!Next => ChatKnown(t_said)'
<1> SUFFICES ASSUME ChatTypes, T!Next PROVE ChatKnown(t_said)'
  OBVIOUS
<1>1. ChatKnown(t_said) /\ ChatShape /\ t_said \in Nat /\ t_Limit \in Nat /\ t_Host \in t_Members
  BY ChatAssumed DEF T!ChatHistoryAssumption, ChatTypes, ChatInv, ChatShape
<1>2. /\ \A p \in t_net : p.to \in t_Members /\ ChatPacket(p, t_said)
      /\ \A n \in t_Members : KeptRing(t_chatLog[n], t_chatSeen[n], t_chatHistoryOff[n], t_said)
      /\ t_chatHistoryOff \in [t_Members -> BOOLEAN]
      /\ t_heard \in [t_Members -> SUBSET (1 .. t_said)]
  BY <1>1 DEF ChatShape, ChatKnown
<1>3. ASSUME NEW n \in t_Members, T!Join(n) PROVE ChatKnown(t_said)'
  BY <1>1, <1>3, KnownStays DEF T!Join, T!kept, T!parts
<1>4. ASSUME NEW n \in t_Members, T!Leave(n) PROVE ChatKnown(t_said)'
  <2>1. /\ t_chatLog' = [t_chatLog EXCEPT ![n] = <<>>] /\ t_chatSeen' = [t_chatSeen EXCEPT ![n] = {}]
        /\ t_chatHistoryOff' = [t_chatHistoryOff EXCEPT ![n] = FALSE]
        /\ UNCHANGED <<t_said, t_heard, t_chatParts, t_chatPartsDone, t_net>>
    BY <1>4 DEF T!Leave, T!parts
  <2>2. t_chatHistoryOff' \in [t_Members -> BOOLEAN]
    BY <1>2, <2>1
  <2>3. ASSUME NEW o \in t_Members
        PROVE  KeptRing(t_chatLog'[o], t_chatSeen'[o], t_chatHistoryOff'[o], t_said)
    <3>1. CASE o # n
      <4>1. t_chatLog'[o] = t_chatLog[o] /\ t_chatSeen'[o] = t_chatSeen[o] /\ t_chatHistoryOff'[o] = t_chatHistoryOff[o]
        BY <1>1, <1>2, <2>1, <3>1 DEF ChatShape
      <4> QED
        BY <1>2, <4>1
    <3>2. CASE o = n
      <4>1. t_chatLog'[o] = <<>> /\ t_chatSeen'[o] = {}
        BY <1>1, <2>1, <3>2 DEF ChatShape
      <4> QED
        BY <1>1, <4>1 DEF KeptRing, Ring
    <3> QED
      BY <3>1, <3>2
  <2> QED
    BY <1>1, <2>1, <2>2, <2>3, KnownStays DEF KeptNext
<1>5. ASSUME NEW n \in t_Members, T!SendChatMessage(n) PROVE ChatKnown(t_said)'
  <2> DEFINE top == t_said + 1
  <2>1. /\ t_said' = top /\ T!Keep(n, <<top>>, T!AddChatMessage)
        /\ UNCHANGED <<t_chatHistoryOff, t_heard, t_chatParts, t_chatPartsDone>>
    BY <1>5 DEF T!SendChatMessage, T!parts
  <2>2. \A p \in t_net' : \/ p \in t_net
                          \/ \E o : p = T!Live(top, o) \/ (top \in t_Long /\ p \in T!Parts(top, FALSE, o))
    BY <1>5 DEF T!SendChatMessage
  <2>3. top \in Nat /\ top \in 1 .. top /\ t_said <= top
    BY <1>1
  <2> HIDE DEF top
  <2>4. ChatKnown(top)
    BY <1>1, <2>3, MoreKnown
  <2>5. \A p \in t_net' : ChatPacket(p, top)
    <3>1. \A p \in t_net : ChatPacket(p, top)
      BY <2>4 DEF ChatKnown
    <3>2. \A o : ChatPacket(T!Live(top, o), top)
      BY <2>3 DEF T!Live, ChatPacket
    <3>3. top \in t_Long => \A o : \A p \in T!Parts(top, FALSE, o) : ChatPacket(p, top)
      BY <2>3, PartsFit
    <3> QED
      BY <2>2, <3>1, <3>2, <3>3
  <2>6. <<top>> \in Seq(1 .. top)
    BY <2>3
  <2>7. KeptNext(top)
    BY <1>1, <2>1, <2>3, <2>4, <2>6, KeepTidies
  <2> QED
    BY <2>1, <2>4, <2>5, <2>7 DEF ChatKnown, KeptNext, KeptRing, Ring, ChatPacket
<1>6. ASSUME NEW n \in t_Members, NEW to \in t_Members, T!SendChatHistory(n, to) PROVE ChatKnown(t_said)'
  <2> DEFINE log == t_chatLog[n]
             short == T!FoldLeft(T!AppendShort, <<>>, log)
             msgs == 1 .. t_said
  <2>1. \A p \in t_net' : \/ p \in t_net
                          \/ p = T!History(short, to)
                          \/ \E m \in T!ToSet(log) \intersect t_Long : p \in T!Parts(m, TRUE, to)
    BY <1>6 DEF T!SendChatHistory
  <2>2. log \in Seq(msgs)
    BY <1>2 DEF KeptRing, Ring
  <2>3. short \in Seq(msgs)
    BY <1>1, <2>2, ShortOnes
  <2>4. T!ToSet(log) \subseteq msgs
    <3> HIDE DEF log, msgs
    <3>1. \A i \in DOMAIN log : log[i] \in msgs
      BY <2>2
    <3> QED
      BY <3>1 DEF T!ToSet
  <2> HIDE DEF log, short
  <2>5. ChatPacket(T!History(short, to), t_said)
    BY <2>3 DEF T!History, ChatPacket
  <2>6. \A m \in T!ToSet(log) \intersect t_Long : \A p \in T!Parts(m, TRUE, to) : ChatPacket(p, t_said)
    BY <2>4, PartsFit
  <2>7. \A p \in t_net' : p \in t_net \/ ChatPacket(p, t_said)
    BY <2>1, <2>5, <2>6
  <2>8. UNCHANGED <<t_said, t_chatLog, t_chatSeen, t_chatHistoryOff, t_heard, t_chatParts, t_chatPartsDone>>
    BY <1>6 DEF T!SendChatHistory, T!kept, T!parts
  <2> QED
    BY <1>1, <2>7, <2>8, KnownStays
<1>7. ASSUME NEW p \in t_net, T!ReceiveLive(p) PROVE ChatKnown(t_said)'
  <2>1. p.to \in t_Members /\ p.m \in 1 .. t_said /\ <<p.m>> \in Seq(1 .. t_said)
    BY <1>2, <1>7 DEF ChatPacket, T!ReceiveLive
  <2>2. UNCHANGED <<t_said, t_chatHistoryOff, t_chatParts, t_chatPartsDone, t_net>>
    BY <1>7 DEF T!ReceiveLive, T!parts
  <2>3. \/ UNCHANGED <<t_heard, t_chatLog, t_chatSeen>>
        \/ /\ t_heard' = [t_heard EXCEPT ![p.to] = @ \union {p.m}]
           /\ T!Keep(p.to, <<p.m>>, T!AddChatMessage)
    BY <1>7 DEF T!ReceiveLive, T!kept
  <2>4. UNCHANGED t_heard \/ t_heard' \in [t_Members -> SUBSET (1 .. t_said)]
    BY <1>2, <2>1, <2>3
  <2>5. UNCHANGED <<t_chatLog, t_chatSeen, t_chatHistoryOff>> \/ KeptNext(t_said)
    BY <1>1, <2>1, <2>2, <2>3, KeepTidies
  <2> QED
    BY <1>1, <2>2, <2>4, <2>5, KnownStays
<1>8. ASSUME NEW p \in t_net, T!ReceiveHistory(p) PROVE ChatKnown(t_said)'
  <2>1. p.to \in t_Members /\ p.entries \in Seq(1 .. t_said)
    BY <1>2, <1>8 DEF ChatPacket, T!ReceiveHistory
  <2>2. UNCHANGED <<t_said, t_chatHistoryOff, t_heard, t_chatParts, t_chatPartsDone, t_net>>
    BY <1>8 DEF T!ReceiveHistory, T!parts
  <2>3. KeptNext(t_said)
    BY <1>1, <1>8, <2>1, <2>2, KeepTidies DEF T!ReceiveHistory
  <2> QED
    BY <1>1, <2>2, <2>3, KnownStays
<1>9. ASSUME NEW p \in t_net, T!ReceivePart(p) PROVE ChatKnown(t_said)'
  <2> DEFINE n == p.to
             arrived == t_chatParts[n] \union {<<p.m, p.history, p.part>>}
             complete == \A i \in {1, 2} : <<p.m, p.history, i>> \in arrived
             rest == IF complete THEN arrived \ {<<p.m, p.history, i>> : i \in {1, 2}} ELSE arrived
  <2>1. /\ n \in t_Members /\ p.m \in 1 .. t_said /\ <<p.m>> \in Seq(1 .. t_said)
        /\ p.m \in t_Long /\ p.history \in BOOLEAN /\ p.part \in {1, 2}
    BY <1>2, <1>9 DEF ChatPacket, T!ReceivePart
  <2>2. UNCHANGED <<t_said, t_chatHistoryOff, t_net>> /\ t_chatParts' = [t_chatParts EXCEPT ![n] = rest]
    BY <1>9 DEF T!ReceivePart
  <2>3. \/ UNCHANGED t_chatPartsDone
        \/ t_chatPartsDone' = [t_chatPartsDone EXCEPT ![n] = @ \union {<<p.m, p.history>>}]
    BY <1>9 DEF T!ReceivePart
  <2>4. UNCHANGED t_heard \/ t_heard' = [t_heard EXCEPT ![n] = @ \union {p.m}]
    BY <1>9 DEF T!ReceivePart
  <2>5. \/ UNCHANGED <<t_chatLog, t_chatSeen>>
        \/ T!Keep(n, <<p.m>>, T!AddChatMessage) \/ T!Keep(n, <<p.m>>, T!AddChatHistory)
    BY <1>9 DEF T!ReceivePart, T!kept
  <2>6. rest \subseteq t_Long \X BOOLEAN \X {1, 2}
    <3>1. arrived \subseteq t_Long \X BOOLEAN \X {1, 2}
      <4>1. <<p.m, p.history, p.part>> \in t_Long \X BOOLEAN \X {1, 2}
        BY <2>1
      <4>2. t_chatParts[n] \subseteq t_Long \X BOOLEAN \X {1, 2}
        BY <1>1, <2>1 DEF ChatKnown
      <4> QED
        BY <4>1, <4>2
    <3> QED
      BY <3>1
  <2> HIDE DEF n, rest
  <2>7. t_chatParts' \in [t_Members -> SUBSET (t_Long \X BOOLEAN \X {1, 2})]
    BY <1>1, <2>1, <2>2, <2>6 DEF ChatKnown
  <2>8. UNCHANGED t_chatPartsDone \/ t_chatPartsDone' \in [t_Members -> SUBSET (t_Long \X BOOLEAN)]
    BY <1>1, <2>1, <2>3 DEF ChatKnown
  <2>9. UNCHANGED t_heard \/ t_heard' \in [t_Members -> SUBSET (1 .. t_said)]
    BY <1>2, <2>1, <2>4
  <2>10. UNCHANGED <<t_chatLog, t_chatSeen, t_chatHistoryOff>> \/ KeptNext(t_said)
    BY <1>1, <2>1, <2>2, <2>5, KeepTidies
  <2> QED
    BY <1>1, <2>2, <2>7, <2>8, <2>9, <2>10, KnownStays
<1>10. ASSUME NEW n \in t_Members, T!DropParts(n) PROVE ChatKnown(t_said)'
  <2>1. UNCHANGED <<t_said, t_chatLog, t_chatSeen, t_chatHistoryOff, t_heard, t_chatPartsDone, t_net>>
        /\ t_chatParts' = [t_chatParts EXCEPT ![n] = {}]
    BY <1>10 DEF T!DropParts, T!kept
  <2>2. t_chatParts' \in [t_Members -> SUBSET (t_Long \X BOOLEAN \X {1, 2})]
    BY <1>1, <2>1 DEF ChatKnown
  <2> QED
    BY <1>1, <2>1, <2>2, KnownStays
<1>11. ASSUME NEW n \in t_Members, T!SendPing(n) PROVE ChatKnown(t_said)'
  <2>1. UNCHANGED <<t_said, t_chatLog, t_chatSeen, t_chatHistoryOff, t_heard, t_chatParts, t_chatPartsDone>>
        /\ t_net' = t_net \union {T!Ping(t_chatHistoryOff[t_Host], n)}
    BY <1>11 DEF T!SendPing, T!kept, T!parts
  <2>2. ChatPacket(T!Ping(t_chatHistoryOff[t_Host], n), t_said)
    BY <1>1, <1>2 DEF T!Ping, ChatPacket
  <2> QED
    BY <1>1, <2>1, <2>2, KnownStays
<1>12. ASSUME T!Switch \/ \E p \in t_net : T!ReceivePing(p) PROVE ChatKnown(t_said)'
  <2>1. \E n \in t_Members : \E on \in BOOLEAN : T!SetChatHistory(n, on)
    <3>1. CASE T!Switch
      BY <1>1, <1>2, <3>1 DEF T!Switch
    <3>2. ASSUME NEW p \in t_net, T!ReceivePing(p)
          PROVE  \E n \in t_Members : \E on \in BOOLEAN : T!SetChatHistory(n, on)
      <4>1. p.to \in t_Members /\ (~p.off) \in BOOLEAN /\ T!SetChatHistory(p.to, ~p.off)
        <5>1. p.to \in t_Members /\ p.off \in BOOLEAN /\ T!SetChatHistory(p.to, ~p.off)
          BY <1>2, <3>2 DEF T!ReceivePing, ChatPacket
        <5>2. (~p.off) \in BOOLEAN
          BY Zenon
        <5> QED
          BY <5>1, <5>2
      <4> QED
        BY <4>1
    <3> QED
      BY <1>12, <3>1, <3>2
  <2>2. UNCHANGED <<t_said, t_net, t_chatSeen, t_heard, t_chatParts, t_chatPartsDone>>
    BY <1>12 DEF T!Switch, T!ReceivePing, T!parts
  <2>3. KeptNext(t_said) /\ t_chatHistoryOff' \in [t_Members -> BOOLEAN]
    BY <1>1, <2>1, <2>2, SwitchTidies
  <2> QED
    BY <1>1, <2>2, <2>3, KnownStays
<1> QED
  BY <1>3, <1>4, <1>5, <1>6, <1>7, <1>8, <1>9, <1>10, <1>11, <1>12 DEF T!Next

LEMMA ChatTypesStep == ChatTypes /\ ChatInv' /\ [Next]_all => ChatTypes'
<1> SUFFICES ASSUME ChatTypes, ChatInv', [Next]_all PROVE ChatTypes'
  OBVIOUS
<1>1. T!Next \/ UNCHANGED tVars
  BY DEF Next, Others, all
<1>2. CASE T!Next
  BY <1>2, ChatRoomStep, ChatKnownStep DEF ChatTypes
<1>3. CASE UNCHANGED tVars
  BY <1>3 DEF tVars, ChatTypes, ChatRoom, ChatKnown, ChatPacket, KeptRing, Ring
<1> QED
  BY <1>1, <1>2, <1>3

-----------------------------------------------------------------------------
(* The types of the files                                                  *)

Filed == {"f", "g"}
Last(x) == IF x = "f" THEN 2 ELSE 1
Packets == {p \in Filed \X (0 .. 2) : p[2] <= Last(p[1])}
Transfer == [got : SUBSET {1, 2}, bytes : Nat, here : BOOLEAN]

\* A transfer under way has not got every chunk of its file.
UnderWay(t, x) == t \in Transfer /\ t.got \subseteq 1 .. Last(x) /\ (t.here => t.got # 1 .. Last(x))

\* Of two files one is received at a time.
OneAtATime == ~(f_incoming["f"].here /\ f_incoming["g"].here)

Transfers ==
    /\ f_incoming \in [Filed -> Transfer]
    /\ \A x \in Filed : UnderWay(f_incoming[x], x)
    /\ OneAtATime

OnTheWay ==
    /\ f_next \in [Filed -> Nat] /\ \A x \in Filed : f_next[x] <= Last(x) + 2
    /\ f_relay \in Seq(Packets) /\ f_direct \in SUBSET Packets
    /\ f_lost \in SUBSET Filed

Received ==
    /\ f_refused \in SUBSET Filed /\ f_expired \in SUBSET Filed /\ f_verifying \in Seq(Filed)
    /\ f_current \in {"f", "none"} /\ f_pending \in Seq({"f"})

KeptMedia ==
    /\ f_order \in Seq({"g"}) /\ Len(f_order) <= 1
    /\ f_media \in SUBSET {"g"} /\ (f_order = <<>> => f_media = {})

FileTypes == Transfers /\ OnTheWay /\ Received /\ KeptMedia

LEMMA FileSizes == \A x : F!Chunks(x) = Last(x)
BY DEF F!Chunks, Last

LEMMA FewFiles ==
    ASSUME NEW S \in SUBSET Filed
    PROVE  /\ F!Cardinality(S) \in {0, 1, 2}
           /\ F!Cardinality(S) = 0 <=> S = {}
           /\ F!Cardinality(S) = 2 <=> S = Filed
<1>1. F!Cardinality(S) = Cardinality(S)
  BY DEF F!Cardinality, Cardinality
<1>2. Cardinality({}) = 0 /\ Cardinality({"f"}) = 1 /\ Cardinality({"g"}) = 1
  BY FS_EmptySet, FS_Singleton
<1>3. Cardinality({"f", "g"}) = 2
  <2>1. IsFiniteSet({"f"}) /\ "g" \notin {"f"} /\ {"f"} \union {"g"} = {"f", "g"}
    BY FS_Singleton
  <2> QED
    BY <1>2, <2>1, FS_AddElement
<1>4. S = {} \/ S = {"f"} \/ S = {"g"} \/ S = {"f", "g"}
  BY DEF Filed
<1>5. CASE S = {}
  BY <1>1, <1>2, <1>5 DEF Filed
<1>6. CASE S = {"f"} \/ S = {"g"}
  <2>1. Cardinality(S) = 1 /\ S # {} /\ S # Filed
    BY <1>2, <1>6 DEF Filed
  <2> QED
    BY <1>1, <2>1
<1>7. CASE S = {"f", "g"}
  <2>1. Cardinality(S) = 2 /\ S # {}
    BY <1>3, <1>7
  <2> QED
    BY <1>1, <1>7, <2>1 DEF Filed
<1> QED
  BY <1>4, <1>5, <1>6, <1>7

LEMMA BusyFiles ==
    ASSUME Transfers
    PROVE  /\ F!Busy \in {0, 1}
           /\ F!Busy = 0 <=> \A x \in Filed : ~f_incoming[x].here
<1> DEFINE S == {x \in Filed : f_incoming[x].here}
<1>1. S \in SUBSET Filed /\ S # Filed
  BY DEF Transfers, OneAtATime, Filed
<1>2. F!Busy = F!Cardinality(S)
  BY DEF F!Busy, Filed
<1>3. S = {} <=> \A x \in Filed : ~f_incoming[x].here
  OBVIOUS
<1> QED
  BY <1>1, <1>2, <1>3, FewFiles

LEMMA FileTyped == FileTypes => F!TypeOK
<1> SUFFICES ASSUME FileTypes PROVE F!TypeOK
  OBVIOUS
<1>1. f_next \in [{"f", "g"} -> Nat] /\ {f_refused, f_lost, f_expired} \subseteq SUBSET {"f", "g"}
  BY DEF FileTypes, OnTheWay, Received, Filed
<1>2. ASSUME NEW x \in {"f", "g"}
      PROVE  /\ f_next[x] <= F!Unsent(x) /\ f_incoming[x].got \subseteq 1 .. F!Chunks(x)
             /\ f_incoming[x].here => f_incoming[x].got # 1 .. F!Chunks(x)
  <2>1. x \in Filed
    BY DEF Filed
  <2>2. f_next[x] <= Last(x) + 2 /\ UnderWay(f_incoming[x], x)
    BY <2>1 DEF FileTypes, OnTheWay, Transfers
  <2> QED
    BY <2>2, FileSizes DEF F!Unsent, UnderWay
<1>3. F!Busy <= 1
  BY BusyFiles DEF FileTypes
<1>4. F!ToSet(f_verifying) \subseteq {"f", "g"}
  BY DEF FileTypes, Received, Filed, F!ToSet
<1>5. Len(f_order) <= 1 /\ f_media \subseteq F!ToSet(f_order)
  BY DEF FileTypes, KeptMedia, F!ToSet
<1>6. F!ToSet(f_pending) \subseteq {"f", "g"} \ {"g"} /\ f_current \in ({"f", "g"} \ {"g"}) \union {F!None}
  BY DEF FileTypes, Received, F!ToSet, F!None
<1> QED
  BY <1>1, <1>2, <1>3, <1>4, <1>5, <1>6 DEF F!TypeOK

LEMMA FileTypesInit == Init => FileTypes
<1> SUFFICES ASSUME F!Init PROVE FileTypes
  BY DEF Init
<1>1. OnTheWay
  <2>1. f_next = [x \in Filed |-> Last(x) + 2] /\ \A x : Last(x) + 2 \in Nat
    BY FileSizes DEF F!Init, F!Unsent, Filed, Last
  <2>2. f_relay = <<>> /\ f_direct = {} /\ f_lost = {}
    BY DEF F!Init
  <2> QED
    BY <2>1, <2>2 DEF OnTheWay
<1>2. Received
  BY DEF F!Init, Received, F!None, Filed
<1>3. KeptMedia
  BY DEF F!Init, KeptMedia
<1>4. Transfers
  <2>1. \A x \in Filed : UnderWay(F!Absent, x)
    BY DEF UnderWay, Transfer, F!Absent
  <2>2. f_incoming = [x \in Filed |-> F!Absent] /\ ~F!Absent.here /\ F!Absent \in Transfer
    BY DEF F!Init, Filed, F!Absent, Transfer
  <2> QED
    BY <2>1, <2>2 DEF Transfers, OneAtATime, Filed
<1> QED
  BY <1>1, <1>2, <1>3, <1>4 DEF FileTypes

\* A transfer that is put in the place of that of x, when no other is under way
LEMMA TransferPut ==
    ASSUME NEW before \in [Filed -> Transfer], NEW x \in Filed, NEW t, UnderWay(t, x),
           \A y \in Filed : UnderWay(before[y], y),
           \A y \in Filed \ {x} : before[y].here => ~t.here,
           f_incoming' = [before EXCEPT ![x] = t]
    PROVE  Transfers'
<1>1. f_incoming' \in [Filed -> Transfer] /\ \A y \in Filed : UnderWay(f_incoming'[y], y)
  BY DEF UnderWay
<1>2. ~(f_incoming'["f"].here /\ f_incoming'["g"].here)
  BY DEF Filed
<1> QED
  BY <1>1, <1>2 DEF Transfers, OneAtATime, UnderWay

\* A header takes the room of the transfers that are too old.
LEMMA HeaderTypes ==
    ASSUME Transfers, f_refused \in SUBSET Filed, f_expired \in SUBSET Filed, NEW x \in Filed,
           F!HandleHeader(x)
    PROVE  Transfers' /\ f_refused' \in SUBSET Filed /\ f_expired' \in SUBSET Filed
<1>1. CASE f_incoming[x].here
  BY <1>1 DEF F!HandleHeader, Transfers, OneAtATime, UnderWay
<1>2. CASE ~f_incoming[x].here
  <2>1. PICK old \in SUBSET {y \in Filed : f_incoming[y].here} :
          LET left == [y \in Filed |-> IF y \in old THEN F!Absent ELSE f_incoming[y]] IN
          /\ f_expired' = f_expired \union old
          /\ IF F!Busy - F!Cardinality(old) >= 1
             THEN f_incoming' = left /\ f_refused' = f_refused \union {x}
             ELSE f_incoming' = [left EXCEPT ![x] = [F!Absent EXCEPT !.here = TRUE]] /\ UNCHANGED f_refused
    BY <1>2 DEF F!HandleHeader, Filed
  <2> DEFINE left == [y \in Filed |-> IF y \in old THEN F!Absent ELSE f_incoming[y]]
  <2>2. left \in [Filed -> Transfer] /\ f_incoming \in [Filed -> Transfer]
    BY DEF Transfers, Transfer, F!Absent
  <2>3. \A y \in Filed : left[y].here => f_incoming[y].here /\ left[y] = f_incoming[y]
    BY DEF F!Absent
  <2>4. F!Busy - F!Cardinality(old) >= 1 \/ \A y \in Filed : ~left[y].here
    <3>1. old \in SUBSET Filed /\ \A y \in old : f_incoming[y].here
      OBVIOUS
    <3>2. CASE F!Busy = 0
      BY <2>3, <3>2, BusyFiles
    <3>3. CASE F!Busy = 1 /\ F!Cardinality(old) = 0
      BY <3>3
    <3>4. CASE old # {}
      <4>1. PICK y \in old : f_incoming[y].here
        BY <3>1, <3>4
      <4>2. \A z \in Filed : z # y => ~f_incoming[z].here
        BY <3>1, <4>1 DEF Transfers, OneAtATime, Filed
      <4>3. ~left[y].here
        BY <3>1, <4>1 DEF F!Absent
      <4> QED
        BY <2>3, <4>2, <4>3
    <3> QED
      BY <3>1, <3>2, <3>3, <3>4, BusyFiles, FewFiles
  <2>5. \A y \in Filed : UnderWay(left[y], y)
    BY DEF Transfers, UnderWay, Transfer, F!Absent
  <2>6. f_expired' \in SUBSET Filed /\ f_refused' \in SUBSET Filed
    BY <2>1
  <2>7. CASE F!Busy - F!Cardinality(old) >= 1
    <3>1. f_incoming' = left
      BY <2>1, <2>7
    <3>2. OneAtATime'
      BY <2>3, <3>1 DEF Transfers, OneAtATime, Filed
    <3> HIDE DEF left
    <3> QED
      BY <2>2, <2>5, <2>6, <3>1, <3>2 DEF Transfers, UnderWay
  <2>8. CASE ~(F!Busy - F!Cardinality(old) >= 1)
    <3> DEFINE new == [F!Absent EXCEPT !.here = TRUE]
    <3>1. f_incoming' = [left EXCEPT ![x] = new]
      BY <2>1, <2>8
    <3>2. \A y \in Filed : ~left[y].here
      BY <2>4, <2>8
    <3>3. UnderWay(new, x)
      <4>1. F!Absent \in Transfer /\ F!Absent.got = {}
        BY DEF F!Absent, Transfer
      <4>2. new \in Transfer /\ new.got = {}
        BY <4>1 DEF Transfer
      <4>3. 1 .. Last(x) # {}
        BY DEF Last
      <4> HIDE DEF new
      <4> QED
        BY <4>2, <4>3 DEF UnderWay
    <3> HIDE DEF new, left
    <3> QED
      BY <2>2, <2>5, <2>6, <3>1, <3>2, <3>3, TransferPut
  <2> QED
    BY <2>7, <2>8
<1> QED
  BY <1>1, <1>2

LEMMA ChunkTypes ==
    ASSUME Transfers, f_verifying \in Seq(Filed), NEW x \in Filed, NEW c \in 1 .. Last(x), F!HandleChunk(x, c)
    PROVE  Transfers' /\ f_verifying' \in Seq(Filed)
<1>1. CASE ~f_incoming[x].here
  BY <1>1 DEF F!HandleChunk, Transfers, OneAtATime, UnderWay
<1>2. CASE f_incoming[x].here
  <2> DEFINE t == F!Stored(f_incoming[x], c)
             new == IF t.bytes > Last(x) \/ t.got = 1 .. Last(x) THEN F!Absent ELSE t
  <2>1. /\ f_incoming' = [f_incoming EXCEPT ![x] = new]
        /\ \/ f_verifying' = Append(f_verifying, x)
           \/ f_verifying' = f_verifying
    BY <1>2, FileSizes DEF F!HandleChunk
  <2>2. t \in Transfer /\ t.got \subseteq 1 .. Last(x)
    <3> DEFINE got == f_incoming[x].got \union {c}
               bytes == f_incoming[x].bytes + 1
    <3>1. f_incoming[x] \in Transfer /\ f_incoming[x].got \subseteq 1 .. Last(x)
      BY DEF Transfers, UnderWay
    <3>2. t = f_incoming[x] \/ t = [f_incoming[x] EXCEPT !.got = got, !.bytes = bytes]
      BY DEF F!Stored
    <3>3. got \subseteq 1 .. Last(x) /\ bytes \in Nat
      BY <3>1 DEF Transfer
    <3>4. got \in SUBSET {1, 2}
      BY <3>3 DEF Last
    <3> HIDE DEF t, got, bytes
    <3> QED
      BY <3>1, <3>2, <3>3, <3>4 DEF Transfer
  <2>3. UnderWay(new, x)
    <3>1. F!Absent \in Transfer /\ ~F!Absent.here /\ F!Absent.got = {}
      BY DEF F!Absent, Transfer
    <3> HIDE DEF t
    <3> QED
      BY <2>2, <3>1 DEF UnderWay
  <2>4. \A y \in Filed \ {x} : ~f_incoming[y].here
    BY <1>2 DEF Transfers, OneAtATime, Filed
  <2> HIDE DEF t, new
  <2>5. Transfers'
    <3>1. f_incoming \in [Filed -> Transfer] /\ \A y \in Filed : UnderWay(f_incoming[y], y)
      BY DEF Transfers
    <3> QED
      BY <2>1, <2>3, <2>4, <3>1, TransferPut
  <2> QED
    BY <2>1, <2>5
<1> QED
  BY <1>1, <1>2

LEMMA HandleTypes ==
    ASSUME FileTypes, NEW p \in Packets, F!Handle(p)
    PROVE  /\ Transfers' /\ Received' /\ KeptMedia' /\ f_next' = f_next /\ f_lost' = f_lost
<1>1. PICK x \in Filed, c \in 0 .. 2 : p[1] = x /\ p[2] = c /\ c <= Last(x)
  BY DEF Packets
<1>2. UNCHANGED <<f_next, f_lost, f_current, f_pending, f_order, f_media>>
  BY DEF F!Handle, F!screen
<1>3. /\ Transfers' /\ f_verifying' \in Seq(Filed)
      /\ f_refused' \in SUBSET Filed /\ f_expired' \in SUBSET Filed
  <2>1. CASE c = 0
    <3>1. F!HandleHeader(x) /\ UNCHANGED f_verifying
      BY <1>1, <2>1 DEF F!Handle
    <3> QED
      BY <3>1, HeaderTypes DEF FileTypes, Received
  <2>2. CASE c # 0
    <3>1. F!HandleChunk(x, c) /\ UNCHANGED <<f_refused, f_expired>> /\ c \in 1 .. Last(x)
      BY <1>1, <2>2 DEF F!Handle, Last
    <3> QED
      BY <3>1, ChunkTypes DEF FileTypes, Received
  <2> QED
    BY <2>1, <2>2
<1> QED
  BY <1>2, <1>3 DEF FileTypes, Received, KeptMedia

LEMMA RemovedIsSeq ==
    ASSUME NEW s \in Seq(Filed), NEW i \in 1 .. Len(s)
    PROVE  F!RemoveAt(s, i) \in Seq(Filed)
<1>1. SubSeq(s, 1, i - 1) \in Seq(Filed) /\ SubSeq(s, i + 1, Len(s)) \in Seq(Filed)
  BY SubSeqProperties
<1>2. F!RemoveAt(s, i) = SubSeq(s, 1, i - 1) \o SubSeq(s, i + 1, Len(s))
  BY DEF F!RemoveAt
<1> QED
  BY <1>1, <1>2, ConcatProperties

LEMMA OfferTypes ==
    ASSUME FileTypes, F!Offer
    PROVE  FileTypes'
<1>1. PICK i \in DOMAIN f_verifying :
        /\ f_verifying' = F!RemoveAt(f_verifying, i)
        /\ IF f_verifying[i] \in {"g"} THEN F!KeepMedia(f_verifying[i]) /\ UNCHANGED <<f_current, f_pending>>
           ELSE F!EnqueueOffer(f_verifying[i]) /\ UNCHANGED <<f_order, f_media>>
        /\ UNCHANGED <<f_next, f_relay, f_direct, f_incoming, f_refused, f_lost, f_expired>>
  BY DEF F!Offer, F!paths
<1>2. f_verifying \in Seq(Filed) /\ f_verifying[i] \in Filed /\ i \in 1 .. Len(f_verifying)
  BY DEF FileTypes, Received
<1>3. Transfers' /\ OnTheWay'
  BY <1>1 DEF FileTypes, Transfers, OneAtATime, UnderWay, OnTheWay
<1>4. f_verifying' \in Seq(Filed)
  BY <1>1, <1>2, RemovedIsSeq
<1>5. CASE f_verifying[i] = "g"
  <2> DEFINE kept == Append(f_order, "g")
  <2>1. /\ IF Len(kept) > 1 THEN f_order' = Tail(kept) /\ f_media' = (f_media \union {"g"}) \ {Head(kept)}
                            ELSE f_order' = kept /\ f_media' = f_media \union {"g"}
        /\ UNCHANGED <<f_current, f_pending>>
    BY <1>1, <1>5 DEF F!KeepMedia
  <2>2. f_order \in Seq({"g"}) /\ Len(f_order) \in {0, 1} /\ f_media \in SUBSET {"g"}
    BY DEF FileTypes, KeptMedia
  <2>3. kept \in Seq({"g"}) /\ Len(kept) = Len(f_order) + 1 /\ kept # <<>>
    BY <2>2, AppendProperties
  <2>4. Head(kept) = "g" /\ Tail(kept) \in Seq({"g"}) /\ Len(Tail(kept)) = Len(kept) - 1
    BY <2>3, HeadTailProperties
  <2> HIDE DEF kept
  <2>5. KeptMedia'
    <3>1. CASE Len(f_order) = 0
      <4>1. ~(Len(kept) > 1) /\ Len(kept) = 1
        BY <2>3, <3>1
      <4>2. f_order' = kept /\ f_media' = f_media \union {"g"}
        BY <2>1, <4>1, Zenon
      <4>3. f_media' \in SUBSET {"g"}
        BY <2>2, <4>2
      <4>4. f_order' # <<>> /\ Len(f_order') <= 1 /\ f_order' \in Seq({"g"})
        BY <2>3, <4>1, <4>2
      <4> QED
        BY <4>3, <4>4 DEF KeptMedia
    <3>2. CASE Len(f_order) = 1
      <4>1. Len(kept) > 1 /\ Len(kept) = 2
        BY <2>3, <3>2
      <4>2. f_order' = Tail(kept) /\ f_media' = (f_media \union {"g"}) \ {"g"}
        BY <2>1, <2>4, <4>1, Zenon
      <4>3. f_media' = {}
        BY <2>2, <4>2
      <4>4. Len(f_order') <= 1 /\ f_order' \in Seq({"g"})
        BY <2>4, <4>1, <4>2
      <4> QED
        BY <4>3, <4>4 DEF KeptMedia
    <3> QED
      BY <2>2, <3>1, <3>2
  <2>6. Received'
    BY <1>1, <1>4, <2>1 DEF FileTypes, Received
  <2> QED
    BY <1>3, <2>5, <2>6 DEF FileTypes
<1>6. CASE f_verifying[i] = "f"
  <2>1. F!EnqueueOffer("f") /\ UNCHANGED <<f_order, f_media>>
    BY <1>1, <1>6
  <2>2. KeptMedia'
    BY <2>1 DEF FileTypes, KeptMedia
  <2>3. f_current' \in {"f", "none"} /\ f_pending' \in Seq({"f"})
    BY <2>1 DEF F!EnqueueOffer, FileTypes, Received
  <2>4. Received'
    BY <1>1, <1>4, <2>3 DEF FileTypes, Received
  <2> QED
    BY <1>3, <2>2, <2>4 DEF FileTypes
<1> QED
  BY <1>2, <1>5, <1>6 DEF Filed

LEMMA FileTypesStep == FileTypes /\ [Next]_all => FileTypes'
<1> SUFFICES ASSUME FileTypes, F!Next \/ UNCHANGED fVars PROVE FileTypes'
  BY DEF Next, Others, all
<1> DEFINE rest == <<f_incoming, f_refused, f_expired, f_verifying, f_current, f_pending, f_order, f_media>>
<1>1. UNCHANGED rest => Transfers' /\ Received' /\ KeptMedia'
  BY DEF FileTypes, Transfers, OneAtATime, UnderWay, Received, KeptMedia
<1>2. CASE UNCHANGED fVars
  BY <1>1, <1>2 DEF fVars, FileTypes, OnTheWay
<1>3. CASE F!SendFile
  <2>1. UNCHANGED <<f_relay, f_direct, f_lost>> /\ UNCHANGED rest
    BY <1>3 DEF F!SendFile, F!paths, F!screen
  <2>2. PICK x \in Filed : f_next' = [f_next EXCEPT ![x] = 0]
    BY <1>3 DEF F!SendFile, Filed
  <2>3. OnTheWay'
    BY <2>1, <2>2 DEF FileTypes, OnTheWay, Last
  <2> QED
    BY <1>1, <2>1, <2>3 DEF FileTypes
<1>4. CASE F!SendPacket
  <2>1. PICK x \in Filed :
          /\ f_next[x] <= Last(x) /\ f_next' = [f_next EXCEPT ![x] = @ + 1]
          /\ \/ f_relay' = Append(f_relay, <<x, f_next[x]>>) /\ UNCHANGED f_lost
             \/ f_lost' = f_lost \union {x} /\ UNCHANGED f_relay
          /\ f_direct' \in {f_direct, f_direct \union {<<x, f_next[x]>>}}
    BY <1>4, FileSizes DEF F!SendPacket, Filed
  <2>2. <<x, f_next[x]>> \in Packets /\ f_next[x] \in Nat
    BY <2>1 DEF FileTypes, OnTheWay, Packets, Last
  <2>3. f_relay' \in Seq(Packets) /\ f_direct' \in SUBSET Packets /\ f_lost' \in SUBSET Filed
    <3>1. f_relay \in Seq(Packets) /\ f_direct \in SUBSET Packets /\ f_lost \in SUBSET Filed
      BY DEF FileTypes, OnTheWay
    <3> DEFINE sent == <<x, f_next[x]>>
    <3>2. (f_relay' = Append(f_relay, sent) \/ f_relay' = f_relay) /\ sent \in Packets
      BY <2>1, <2>2
    <3> HIDE DEF sent
    <3>3. f_relay' \in Seq(Packets)
      BY <3>1, <3>2
    <3> QED
      BY <2>1, <2>2, <3>1, <3>3
  <2>4. f_next' \in [Filed -> Nat] /\ \A y \in Filed : f_next'[y] <= Last(y) + 2
    <3>1. \A y \in Filed : f_next[y] <= Last(y) + 2 /\ Last(y) \in Nat
      BY DEF FileTypes, OnTheWay, Last
    <3> QED
      BY <2>1, <2>2, <3>1 DEF FileTypes, OnTheWay
  <2>5. UNCHANGED rest
    BY <1>4 DEF F!SendPacket, F!screen
  <2> QED
    BY <1>1, <2>3, <2>4, <2>5 DEF FileTypes, OnTheWay
<1>5. CASE F!ReceiveRelayed
  <2>1. f_relay # <<>> /\ f_relay' = Tail(f_relay) /\ UNCHANGED f_direct /\ F!Handle(Head(f_relay))
    BY <1>5 DEF F!ReceiveRelayed
  <2>2. f_relay \in Seq(Packets) /\ Head(f_relay) \in Packets /\ Tail(f_relay) \in Seq(Packets)
    BY <2>1 DEF FileTypes, OnTheWay
  <2>3. Transfers' /\ Received' /\ KeptMedia' /\ f_next' = f_next /\ f_lost' = f_lost
    BY <2>1, <2>2, HandleTypes
  <2> QED
    BY <2>1, <2>2, <2>3 DEF FileTypes, OnTheWay
<1>6. CASE F!ReceiveDirect
  <2>1. PICK p \in f_direct : f_direct' = f_direct \ {p} /\ UNCHANGED f_relay /\ F!Handle(p)
    BY <1>6 DEF F!ReceiveDirect
  <2>2. Transfers' /\ Received' /\ KeptMedia' /\ f_next' = f_next /\ f_lost' = f_lost
    BY <2>1, HandleTypes DEF FileTypes, OnTheWay
  <2> QED
    BY <2>1, <2>2 DEF FileTypes, OnTheWay
<1>7. CASE F!Offer
  BY <1>7, OfferTypes
<1>8. CASE F!Answer
  <2>1. f_current' \in {"f", "none"} /\ f_pending' \in Seq({"f"})
    BY <1>8 DEF F!Answer, F!None, FileTypes, Received
  <2> QED
    BY <1>8, <2>1 DEF F!Answer, F!paths, FileTypes, Transfers, OneAtATime, UnderWay, OnTheWay, Received, KeptMedia
<1> QED
  BY <1>2, <1>3, <1>4, <1>5, <1>6, <1>7, <1>8 DEF F!Next

-----------------------------------------------------------------------------
(* The types of the keys: they are those of GroupRekeyProofs               *)

\* The same rotation with the theorems about it
GP == INSTANCE GroupRekeyProofs WITH
  Host <- "h", Members <- {"m"}, Initial <- {"m"}, MaxEpoch <- 2, MaxTries <- 2,
  MaxStays <- 1, Lapses <- {"h", "m"} \X (1 .. 2), phase <- g_phase, stay <- g_stay,
  ring <- g_ring, timers <- g_timers, hostKnown <- g_hostKnown, peers <- g_peers,
  ident <- g_ident, removed <- g_removed, session <- g_session, rot <- g_rot,
  due <- g_due, spawned <- g_spawned, net <- g_net, given <- g_given

LEMMA KeyAssumptions == GP!GroupRekeyAssumption /\ GP!NoKeyAssumption
  BY KeysAssumed DEF G!GroupRekeyAssumption, G!NoKeyAssumption, GP!GroupRekeyAssumption,
     GP!NoKeyAssumption, G!Key, GP!Key, G!Epochs, GP!Epochs

LEMMA KeysTyped == GP!IInv => G!TypeOK
  BY DEF GP!IInv, G!TypeOK, GP!TypeOK, G!Stays, GP!Stays, G!Nodes, GP!Nodes, G!Rings,
     GP!Rings, G!Key, GP!Key, G!Epochs, GP!Epochs, G!Rotation, GP!Rotation, G!Message,
     GP!Message

LEMMA KeysInit == Init => GP!IInv
<1>1. G!Init => GP!Init
  BY DEF G!Init, GP!Init, G!Nodes, GP!Nodes, G!Outside, GP!Outside, G!NewRing, GP!NewRing,
     G!KeyOf, GP!KeyOf, G!NoRotation, GP!NoRotation
<1> QED
  BY <1>1, KeyAssumptions, GP!InitOK DEF Init


LEMMA KeysNext == G!Next => GP!Next
<1>1. G!Admit("m") => GP!Admit("m")
  BY DEF G!Admit, GP!Admit, G!memberVars, GP!memberVars, G!hostVars, GP!hostVars
<1>2. G!CompleteJoin("m") => GP!CompleteJoin("m")
  BY DEF G!CompleteJoin, GP!CompleteJoin, G!memberVars, GP!memberVars, G!hostVars,
     GP!hostVars, G!NewRing, GP!NewRing
<1>3. G!GiveUpJoin("m") => GP!GiveUpJoin("m")
  BY DEF G!GiveUpJoin, GP!GiveUpJoin, G!memberVars, GP!memberVars, G!hostVars, GP!hostVars
<1>4. G!ExpireSession("m") => GP!ExpireSession("m")
  BY DEF G!ExpireSession, GP!ExpireSession, G!memberVars, GP!memberVars, G!hostVars, GP!hostVars
<1>5. G!Register("m") => GP!Register("m")
  BY DEF G!Register, GP!Register, G!memberVars, GP!memberVars, G!hostVars, GP!hostVars,
     G!HostReads, GP!HostReads, G!OpenKeys, GP!OpenKeys, G!SealKey, GP!SealKey
<1>6. G!Leave("m") => GP!Leave("m")
  BY DEF G!Leave, GP!Leave, G!memberVars, GP!memberVars, G!hostVars, GP!hostVars,
     G!LeaveRoom, GP!LeaveRoom, G!Outside, GP!Outside, G!NewRing, GP!NewRing, G!KeyOf,
     GP!KeyOf, G!LeaveMsg, GP!LeaveMsg, G!SealKey, GP!SealKey
<1>7. G!HandleLeave("m") => GP!HandleLeave("m")
  BY DEF G!HandleLeave, GP!HandleLeave, G!memberVars, GP!memberVars, G!hostVars,
     GP!hostVars, G!HostReads, GP!HostReads, G!OpenKeys, GP!OpenKeys, G!Forget, GP!Forget
<1>8. G!TimeOutMember("m") => GP!TimeOutMember("m")
  BY DEF G!TimeOutMember, GP!TimeOutMember, G!memberVars, GP!memberVars, G!hostVars,
     GP!hostVars, G!Forget, GP!Forget
<1>9. G!TimeOutHost("m") => GP!TimeOutHost("m")
  BY DEF G!TimeOutHost, GP!TimeOutHost, G!memberVars, GP!memberVars, G!hostVars, GP!hostVars
<1>10. G!Kick("m") => GP!Kick("m")
  BY DEF G!Kick, GP!Kick, G!memberVars, GP!memberVars, G!hostVars, GP!hostVars, G!KickMsg,
     GP!KickMsg, G!SealKey, GP!SealKey, G!Forget, GP!Forget
<1>11. G!HandleKick("m") => GP!HandleKick("m")
  BY DEF G!HandleKick, GP!HandleKick, G!memberVars, GP!memberVars, G!hostVars,
     GP!hostVars, G!LeaveRoom, GP!LeaveRoom, G!Outside, GP!Outside, G!NewRing, GP!NewRing,
     G!KeyOf, GP!KeyOf, G!LeaveMsg, GP!LeaveMsg, G!SealKey, GP!SealKey, G!Reads, GP!Reads,
     G!OpenKeys, GP!OpenKeys
<1>12. G!HandleRekey("m") => GP!HandleRekey("m")
  BY DEF G!HandleRekey, GP!HandleRekey, G!memberVars, GP!memberVars, G!hostVars,
     GP!hostVars, G!Reads, GP!Reads, G!OpenKeys, GP!OpenKeys, G!Stage, GP!Stage,
     G!Stageable, GP!Stageable, G!AckMsg, GP!AckMsg, G!SealKey, GP!SealKey
<1>13. G!PromoteStaged("m") => GP!PromoteStaged("m")
  BY DEF G!PromoteStaged, GP!PromoteStaged, G!memberVars, GP!memberVars, G!hostVars,
     GP!hostVars, G!Promote, GP!Promote
<1>14. G!HandleAck("m") => GP!HandleAck("m")
  BY DEF G!HandleAck, GP!HandleAck, G!memberVars, GP!memberVars, G!hostVars, GP!hostVars,
     G!HostReads, GP!HostReads, G!OpenKeys, GP!OpenKeys
<1>15. G!AskForKey("m") => GP!AskForKey("m")
  BY DEF G!AskForKey, GP!AskForKey, G!memberVars, GP!memberVars, G!hostVars, GP!hostVars,
     G!Deaf, GP!Deaf, G!InRoom, GP!InRoom, G!OpenKeys, GP!OpenKeys, G!SealKey, GP!SealKey,
     G!RequestMsg, GP!RequestMsg
<1>16. G!AnswerKeyRequest("m") => GP!AnswerKeyRequest("m")
  BY DEF G!AnswerKeyRequest, GP!AnswerKeyRequest, G!memberVars, GP!memberVars, G!hostVars,
     GP!hostVars, G!Newest, GP!Newest, G!StagedAhead, GP!StagedAhead, G!RequestMsg,
     GP!RequestMsg, G!GrantMsg, GP!GrantMsg
<1>17. G!InstallKeyGrant("m") => GP!InstallKeyGrant("m")
  BY DEF G!InstallKeyGrant, GP!InstallKeyGrant, G!memberVars, GP!memberVars, G!hostVars,
     GP!hostVars, G!Promote, GP!Promote, G!Stage, GP!Stage, G!Stageable, GP!Stageable
<1>18. G!RotatePort => GP!RotatePort
  BY DEF G!RotatePort, GP!RotatePort, G!memberVars, GP!memberVars, G!hostVars, GP!hostVars
<1>19. G!RotateOnTimer => GP!RotateOnTimer
  BY DEF G!RotateOnTimer, GP!RotateOnTimer, G!memberVars, GP!memberVars, G!hostVars,
     GP!hostVars, G!RotateGroupKey, GP!RotateGroupKey, G!KeyOf, GP!KeyOf, G!Newest,
     GP!Newest, G!StagedAhead, GP!StagedAhead, G!Stage, GP!Stage, G!Stageable,
     GP!Stageable, G!Recipients, GP!Recipients
<1>20. G!RotateOnRemoval => GP!RotateOnRemoval
  BY DEF G!RotateOnRemoval, GP!RotateOnRemoval, G!memberVars, GP!memberVars, G!hostVars,
     GP!hostVars, G!RotateGroupKey, GP!RotateGroupKey, G!KeyOf, GP!KeyOf, G!Newest,
     GP!Newest, G!StagedAhead, GP!StagedAhead, G!Stage, GP!Stage, G!Stageable,
     GP!Stageable, G!Recipients, GP!Recipients
<1>21. G!RekeyAttempt => GP!RekeyAttempt
  BY DEF G!RekeyAttempt, GP!RekeyAttempt, G!memberVars, GP!memberVars, G!hostVars,
     GP!hostVars, G!Pending, GP!Pending, G!RekeyMsg, GP!RekeyMsg, G!KeyOf, GP!KeyOf,
     G!SealKey, GP!SealKey
<1>22. G!FinishRotation => GP!FinishRotation
  BY DEF G!FinishRotation, GP!FinishRotation, G!memberVars, GP!memberVars, G!hostVars,
     GP!hostVars, G!Pending, GP!Pending, G!Promote, GP!Promote
<1>23. \A n \in {"h", "m"} : G!GraceLapses(n) => GP!GraceLapses(n)
  BY DEF G!GraceLapses, GP!GraceLapses, G!Lapse, GP!Lapse, G!memberVars, GP!memberVars,
     G!hostVars, GP!hostVars
<1> QED
  BY <1>1, <1>2, <1>3, <1>4, <1>5, <1>6, <1>7, <1>8, <1>9, <1>10, <1>11, <1>12, <1>13,
     <1>14, <1>15, <1>16, <1>17, <1>18, <1>19, <1>20, <1>21, <1>22, <1>23
     DEF G!Next, GP!Next, G!MemberStep, GP!MemberStep, G!HostStep, GP!HostStep, G!Nodes, GP!Nodes

LEMMA KeysStep == GP!IInv /\ [Next]_all => GP!IInv'
<1>1. [Next]_all => G!Next \/ UNCHANGED gVars
  BY DEF Next, Others, all
<1>2. UNCHANGED gVars => UNCHANGED GP!vars
  BY DEF gVars, GP!vars, GP!memberVars, GP!hostVars
<1> QED
  BY <1>1, <1>2, KeyAssumptions, KeysNext, GP!StepOK

-----------------------------------------------------------------------------
(* The types of the paths                                                  *)

Pair == {"a", "b"}
Mate(x) == IF x = "a" THEN "b" ELSE "a"
\* What is known of a member that has used so many ports: 0, or one of its public ports
Known(k) == {0} \union (101 .. 100 + k)

PathShape ==
    /\ p_port \in [Pair -> {1, 2}] /\ p_announcing \in [Pair -> Nat]
    /\ p_open \in [Pair -> SUBSET Nat] /\ p_holes \in [Pair -> SUBSET (Nat \X Nat)]
    /\ p_learnt \in [Pair -> Nat] /\ p_endpoint \in [Pair -> Nat] /\ p_addr \in [Pair -> Nat]
    /\ p_via \in [Pair -> BOOLEAN] /\ p_recent \in [Pair -> BOOLEAN]
    /\ p_signals \in [Pair -> Seq(Nat)]

\* A member's own sockets, and what its router lets in
OwnSockets(x) ==
    /\ p_port[x] \in p_open[x] /\ p_open[x] \subseteq 1 .. p_port[x]
    /\ p_announcing[x] <= p_port[x] - 1
    /\ \A h \in p_holes[x] : h[1] \in p_open[x]

Learnt(x) == p_learnt[x] \in Known(p_port[x])

\* What a member knows of the other
MateAddress(x) == p_addr[x] \in Known(p_port[Mate(x)]) \union (1 .. p_port[Mate(x)])

MateSignals(x) ==
    /\ p_endpoint[x] \in Known(p_port[Mate(x)])
    /\ p_signals[x] \in Seq(Known(p_port[Mate(x)]))

LatePacket(d) ==
    /\ d.to \in Pair /\ d.from \in Known(p_port[Mate(d.to)])
    /\ d.new \in 0 .. p_port[Mate(d.to)]

PathTypes ==
    /\ PathShape
    /\ \A x \in Pair : OwnSockets(x) /\ Learnt(x) /\ MateAddress(x) /\ MateSignals(x)
    /\ \A d \in p_late : LatePacket(d)

LEMMA TheMate == \A x \in Pair : P!Other(x) = Mate(x) /\ Mate(x) \in Pair /\ Mate(Mate(x)) = x /\ Mate(x) # x
<1>1. P!Other("a") = "b"
  BY DEF P!Other, P!Members
<1>2. P!Other("b") = "a"
  BY DEF P!Other, P!Members
<1> QED
  BY <1>1, <1>2 DEF Pair, Mate

LEMMA PublicPort == \A k \in Nat : P!Public(k) = (IF k = 0 THEN 0 ELSE k + 100) /\ P!Public(k) \in Nat
  BY DEF P!Public

LEMMA KnownPorts ==
    ASSUME NEW k \in {1, 2}
    PROVE  /\ Known(k) = {0} \union {P!Public(i) : i \in 1 .. k}
           /\ \A i \in 1 .. k : P!Public(i) \in Known(k)
           /\ Known(1) \subseteq Known(k) /\ Known(k) \subseteq Nat /\ 0 \in Known(k)
<1>1. \A i \in 1 .. k : P!Public(i) = i + 100
  BY PublicPort
<1>2. {P!Public(i) : i \in 1 .. k} = 101 .. 100 + k
  <2>1. \A v \in 101 .. 100 + k : v - 100 \in 1 .. k /\ v = P!Public(v - 100)
    BY <1>1
  <2> QED
    BY <1>1, <2>1
<1> QED
  BY <1>1, <1>2 DEF Known

LEMMA PathTyped == PathTypes => P!TypeOK
<1> SUFFICES ASSUME PathTypes, NEW x \in Pair
             PROVE  /\ p_port[x] \in p_open[x] /\ p_open[x] \subseteq 1 .. 1 + 1
                    /\ p_learnt[x] \in {0} \union {P!Public(i) : i \in 1 .. p_port[x]}
                    /\ p_addr[x] \in {0} \union {P!Public(i) : i \in 1 .. p_port[P!Other(x)]} \union 1 .. p_port[P!Other(x)]
                    /\ p_announcing[x] <= 1 /\ \A h \in p_holes[x] : h[1] \in p_open[x]
  BY DEF P!TypeOK, P!Members, Pair
<1>1. p_port[x] \in {1, 2} /\ p_port[Mate(x)] \in {1, 2} /\ p_announcing[x] \in Nat
  BY TheMate DEF PathTypes, PathShape
<1>2. OwnSockets(x) /\ Learnt(x) /\ MateAddress(x)
  BY DEF PathTypes
<1>3. p_open[x] \subseteq 1 .. 2 /\ p_announcing[x] <= 1
  BY <1>1, <1>2 DEF OwnSockets
<1>4. p_learnt[x] \in {0} \union {P!Public(i) : i \in 1 .. p_port[x]}
  BY <1>1, <1>2, KnownPorts DEF Learnt
<1>5. p_addr[x] \in {0} \union {P!Public(i) : i \in 1 .. p_port[P!Other(x)]} \union 1 .. p_port[P!Other(x)]
  BY <1>1, <1>2, KnownPorts, TheMate DEF MateAddress
<1> QED
  BY <1>2, <1>3, <1>4, <1>5 DEF OwnSockets

LEMMA PathTypesInit == Init => PathTypes
<1> SUFFICES ASSUME P!Init PROVE PathTypes
  BY DEF Init
<1>1. P!Public(1) = 101 /\ 101 \in Known(1)
  BY PublicPort DEF Known
<1>2. /\ p_port = [x \in Pair |-> 1] /\ p_open = [x \in Pair |-> {1}]
      /\ p_learnt = [x \in Pair |-> 101] /\ p_announcing = [x \in Pair |-> 0]
      /\ p_signals = [x \in Pair |-> <<>>] /\ p_late = {}
      /\ p_endpoint = [x \in Pair |-> 101] /\ p_addr = [x \in Pair |-> 101]
  BY <1>1 DEF P!Init, P!Members, Pair
<1>3. PICK direct \in BOOLEAN :
        /\ p_holes = [x \in Pair |-> IF direct THEN {<<1, 101>>} ELSE {}]
        /\ p_via = [x \in Pair |-> ~direct] /\ p_recent = [x \in Pair |-> direct]
  BY <1>1 DEF P!Init, P!Members, Pair
<1>4. p_via \in [Pair -> BOOLEAN] /\ p_recent \in [Pair -> BOOLEAN]
  BY <1>3, Zenon
<1>5. p_holes \in [Pair -> SUBSET (Nat \X Nat)] /\ \A x \in Pair : \A h \in p_holes[x] : h[1] = 1
  BY <1>3
<1>6. PathShape
  BY <1>2, <1>4, <1>5 DEF PathShape
<1> SUFFICES ASSUME NEW x \in Pair PROVE OwnSockets(x) /\ Learnt(x) /\ MateAddress(x) /\ MateSignals(x)
  BY <1>2, <1>6 DEF PathTypes
<1>7. OwnSockets(x)
  BY <1>2, <1>5 DEF OwnSockets
<1>8. Learnt(x) /\ MateAddress(x) /\ MateSignals(x)
  BY <1>1, <1>2, TheMate DEF Learnt, MateAddress, MateSignals
<1> QED
  BY <1>7, <1>8

\* A ping changes the address of the member it gets to, and what the routers let in.
LEMMA ProbeTypes ==
    ASSUME PathTypes, NEW x \in Pair, NEW to \in Nat, P!Probe(x, to),
           UNCHANGED <<p_port, p_open, p_learnt, p_announcing, p_signals, p_endpoint, p_late>>
    PROVE  PathTypes'
<1> DEFINE y == Mate(x)
           from == P!Public(p_port[x])
<1>1. y \in Pair /\ y # x /\ P!Other(x) = y /\ Mate(y) = x
  BY TheMate
<1>2. p_port[x] \in {1, 2} /\ from \in Known(p_port[x]) /\ from \in Nat
  BY KnownPorts DEF PathTypes, PathShape
<1>3. \/ UNCHANGED <<p_addr, p_via, p_recent>>
      \/ /\ p_addr' = [p_addr EXCEPT ![y] = from] /\ p_via' = [p_via EXCEPT ![y] = FALSE]
         /\ p_recent' = [p_recent EXCEPT ![y] = TRUE]
  BY <1>1 DEF P!Probe, P!Direct
<1>4. \/ p_holes' = p_holes
      \/ p_holes' = [p_holes EXCEPT ![x] = @ \union {<<p_port[x], to>>}]
      \/ p_holes' = [[p_holes EXCEPT ![x] = @ \union {<<p_port[x], to>>}] EXCEPT ![y] = @ \union {<<p_port[y], from>>}]
  BY <1>1 DEF P!Probe
<1> HIDE DEF y, from
<1>5. /\ p_holes' \in [Pair -> SUBSET (Nat \X Nat)]
      /\ \A z \in Pair : \A h \in p_holes'[z] : h[1] \in p_open[z]
  <2>1. \A z \in Pair : p_port[z] \in Nat /\ p_port[z] \in p_open[z] /\ \A h \in p_holes[z] : h[1] \in p_open[z]
    BY DEF PathTypes, PathShape, OwnSockets
  <2>2. p_holes \in [Pair -> SUBSET (Nat \X Nat)]
    BY DEF PathTypes, PathShape
  <2> DEFINE one == [p_holes EXCEPT ![x] = @ \union {<<p_port[x], to>>}]
             two == [one EXCEPT ![y] = @ \union {<<p_port[y], from>>}]
  <2>3. one \in [Pair -> SUBSET (Nat \X Nat)] /\ \A z \in Pair : \A h \in one[z] : h[1] \in p_open[z]
    BY <2>1, <2>2
  <2>4. p_holes' = p_holes \/ p_holes' = one \/ p_holes' = two
    BY <1>4
  <2> HIDE DEF one
  <2>5. two \in [Pair -> SUBSET (Nat \X Nat)] /\ \A z \in Pair : \A h \in two[z] : h[1] \in p_open[z]
    BY <1>1, <1>2, <2>1, <2>3
  <2> HIDE DEF two
  <2> QED
    BY <2>1, <2>2, <2>3, <2>4, <2>5
<1>6. /\ p_addr' \in [Pair -> Nat] /\ p_via' \in [Pair -> BOOLEAN] /\ p_recent' \in [Pair -> BOOLEAN]
      /\ \A z \in Pair : p_addr'[z] = p_addr[z] \/ (z = y /\ p_addr'[z] = from)
  <2>1. p_addr \in [Pair -> Nat] /\ p_via \in [Pair -> BOOLEAN] /\ p_recent \in [Pair -> BOOLEAN]
    BY DEF PathTypes, PathShape
  <2>2. p_addr' = p_addr \/ p_addr' = [p_addr EXCEPT ![y] = from]
    BY <1>3
  <2>3. p_addr' \in [Pair -> Nat] /\ \A z \in Pair : p_addr'[z] = p_addr[z] \/ (z = y /\ p_addr'[z] = from)
    BY <1>1, <1>2, <2>1, <2>2
  <2>4. p_via' \in [Pair -> BOOLEAN]
    BY <1>3, <2>1
  <2>5. p_recent' \in [Pair -> BOOLEAN]
    BY <1>3, <2>1
  <2> QED
    BY <2>3, <2>4, <2>5
<1>7. PathShape'
  BY <1>5, <1>6 DEF PathTypes, PathShape
<1>8. ASSUME NEW z \in Pair PROVE MateAddress(z)'
  <2>1. CASE p_addr'[z] = p_addr[z]
    BY <2>1 DEF PathTypes, MateAddress
  <2>2. CASE z = y /\ p_addr'[z] = from
    BY <1>1, <1>2, <2>2 DEF MateAddress
  <2> QED
    BY <1>6, <2>1, <2>2
<1>9. ASSUME NEW z \in Pair PROVE (OwnSockets(z) /\ Learnt(z) /\ MateSignals(z))'
  BY <1>5 DEF PathTypes, OwnSockets, Learnt, MateSignals
<1>10. \A d \in p_late : LatePacket(d)'
  BY DEF PathTypes, LatePacket
<1> QED
  BY <1>7, <1>8, <1>9, <1>10 DEF PathTypes

LEMMA WiderSeq ==
    ASSUME NEW R, NEW S, R \subseteq S, NEW s \in Seq(R)
    PROVE  s \in Seq(S)
  OBVIOUS

\* What was known of a member's ports is known after a hop.
LEMMA MorePorts ==
    ASSUME NEW i \in {1, 2}, NEW k \in {1, 2}, i <= k
    PROVE  Known(i) \subseteq Known(k) /\ 1 .. i \subseteq 1 .. k /\ 0 .. i \subseteq 0 .. k
  BY DEF Known

LEMMA HopTypes ==
    ASSUME PathTypes, NEW x \in Pair, P!RotatePort(x)
    PROVE  PathTypes'
<1> DEFINE y == Mate(x)
           new == p_port[x] + 1
           copy(from) == [to |-> P!Other(x), from |-> from, at |-> p_addr[x], new |-> new]
           copies == {copy(0)} \union (IF p_addr[x] = 0 THEN {} ELSE {copy(P!Public(new)), copy(P!Public(p_port[x]))})
<1>1. y \in Pair /\ y # x /\ P!Other(x) = y /\ Mate(y) = x /\ Pair = {x, y}
  BY TheMate DEF Pair, Mate
<1>2. /\ p_port["a"] + p_port["b"] < 3
      /\ p_port' = [p_port EXCEPT ![x] = new] /\ p_open' = [p_open EXCEPT ![x] = @ \union {new}]
      /\ p_learnt' = [p_learnt EXCEPT ![x] = 0] /\ p_announcing' = [p_announcing EXCEPT ![x] = @ + 1]
      /\ p_holes' = [p_holes EXCEPT ![x] = IF p_addr[x] = 0 THEN @ ELSE @ \union {<<new, p_addr[x]>>, <<p_port[x], p_addr[x]>>}]
      /\ \E sent \in SUBSET copies : p_late' = p_late \union sent
      /\ UNCHANGED <<p_signals, p_endpoint, p_addr, p_via, p_recent>>
  BY DEF P!RotatePort
<1>3. PathShape /\ OwnSockets(x) /\ OwnSockets(y)
  BY <1>1 DEF PathTypes
<1>4. p_port[x] = 1 /\ new = 2 /\ p_port[y] = 1
  <2>1. p_port["a"] \in {1, 2} /\ p_port["b"] \in {1, 2}
    BY <1>3 DEF PathShape, Pair
  <2>2. p_port["a"] = 1 /\ p_port["b"] = 1
    BY <1>2, <2>1
  <2> QED
    BY <1>1, <2>2 DEF Pair
<1>5. \A c \in copies : c.to = y /\ c.from \in Known(2) /\ c.new = 2
  <2>1. P!Public(new) \in Known(2) /\ P!Public(p_port[x]) \in Known(2) /\ 0 \in Known(2)
    BY <1>4, KnownPorts
  <2> QED
    BY <1>1, <1>4, <2>1
<1> HIDE DEF y, new, copies
<1>6. /\ p_port' \in [Pair -> {1, 2}] /\ p_port'[x] = 2 /\ p_port'[y] = 1
      /\ p_open' \in [Pair -> SUBSET Nat] /\ p_open'[x] = p_open[x] \union {2} /\ p_open'[y] = p_open[y]
      /\ p_learnt' \in [Pair -> Nat] /\ p_learnt'[x] = 0 /\ p_learnt'[y] = p_learnt[y]
      /\ p_announcing' \in [Pair -> Nat] /\ p_announcing'[x] = p_announcing[x] + 1
      /\ p_announcing'[y] = p_announcing[y]
  BY <1>1, <1>2, <1>3, <1>4 DEF PathShape
<1>7. /\ p_holes' \in [Pair -> SUBSET (Nat \X Nat)] /\ p_holes'[y] = p_holes[y]
      /\ \A h \in p_holes'[x] : h \in p_holes[x] \/ h[1] \in {1, 2}
  <2>1. p_addr[x] \in Nat /\ p_holes \in [Pair -> SUBSET (Nat \X Nat)]
    BY <1>3 DEF PathShape
  <2> DEFINE added == {<<2, p_addr[x]>>, <<1, p_addr[x]>>}
  <2>2. added \in SUBSET (Nat \X Nat) /\ \A h \in added : h[1] \in {1, 2}
    BY <2>1
  <2>3. p_holes' = [p_holes EXCEPT ![x] = IF p_addr[x] = 0 THEN @ ELSE @ \union added]
    BY <1>2, <1>4
  <2> HIDE DEF added
  <2> QED
    BY <1>1, <2>1, <2>2, <2>3
<1>8. PathShape'
  BY <1>2, <1>3, <1>6, <1>7 DEF PathShape
<1>9. OwnSockets(x)' /\ OwnSockets(y)'
  <2>1. p_announcing[x] \in Nat
    BY <1>3 DEF PathShape
  <2> QED
    BY <1>3, <1>4, <1>6, <1>7, <2>1 DEF OwnSockets
<1>10. Learnt(x)' /\ Learnt(y)'
  BY <1>1, <1>4, <1>6 DEF PathTypes, Learnt, Known
<1>11. \A z \in Pair : Known(p_port[Mate(z)]) \subseteq Known(p_port'[Mate(z)])
                      /\ 1 .. p_port[Mate(z)] \subseteq 1 .. p_port'[Mate(z)]
                      /\ 0 .. p_port[Mate(z)] \subseteq 0 .. p_port'[Mate(z)]
  <2>1. Known(1) \subseteq Known(2) /\ 1 .. 1 \subseteq 1 .. 2 /\ 0 .. 1 \subseteq 0 .. 2
    BY MorePorts
  <2>2. \A z \in Pair : Mate(z) \in {x, y}
    BY <1>1, TheMate
  <2> QED
    BY <1>4, <1>6, <2>1, <2>2
<1>12. ASSUME NEW z \in Pair PROVE MateAddress(z)' /\ MateSignals(z)'
  <2>1. MateAddress(z) /\ MateSignals(z)
    BY DEF PathTypes
  <2>2. MateAddress(z)'
    BY <1>2, <1>11, <2>1 DEF MateAddress
  <2>3. p_signals'[z] = p_signals[z] /\ p_endpoint'[z] = p_endpoint[z]
    BY <1>2
  <2>4. p_signals'[z] \in Seq(Known(p_port'[Mate(z)]))
    BY <1>11, <2>1, <2>3, WiderSeq DEF MateSignals
  <2>5. MateSignals(z)'
    BY <1>11, <2>1, <2>3, <2>4 DEF MateSignals
  <2> QED
    BY <2>2, <2>5
<1>13. ASSUME NEW d \in p_late' PROVE LatePacket(d)'
  <2>1. CASE d \in p_late
    <3>1. LatePacket(d)
      BY <2>1 DEF PathTypes
    <3> QED
      BY <1>11, <3>1 DEF LatePacket
  <2>2. CASE d \in copies
    BY <1>1, <1>5, <1>6, <2>2 DEF LatePacket
  <2> QED
    BY <1>2, <2>1, <2>2
<1> QED
  BY <1>1, <1>8, <1>9, <1>10, <1>12, <1>13 DEF PathTypes

LEMMA ArriveTypes ==
    ASSUME PathTypes, NEW y \in Pair, P!Arrive(y)
    PROVE  PathTypes'
<1>1. PICK d \in p_late :
        /\ d.to = y /\ p_late' = p_late \ {d}
        /\ IF d.new = 0
           THEN P!Direct(y, d.from) /\ p_holes' = [p_holes EXCEPT ![y] = @ \union {<<p_port[y], d.from>>}]
           ELSE /\ p_addr' = [p_addr EXCEPT ![y] = P!HopTarget(y, d)]
                /\ p_via' = [p_via EXCEPT ![y] = d.from = 0 /\ (@ \/ p_addr[y] = 0 \/ ~p_recent[y])]
                /\ p_recent' = [p_recent EXCEPT ![y] = @ \/ d.from # 0]
                /\ p_holes' = [p_holes EXCEPT ![y] = IF P!HopTarget(y, d) = 0 THEN @ ELSE @ \union {<<p_port[y], P!HopTarget(y, d)>>}]
        /\ UNCHANGED <<p_port, p_open, p_learnt, p_announcing, p_signals, p_endpoint>>
  BY DEF P!Arrive
<1> DEFINE to == IF d.new = 0 THEN d.from ELSE P!HopTarget(y, d)
<1>2. /\ d.from \in Known(p_port[Mate(y)]) /\ d.new \in 0 .. p_port[Mate(y)]
      /\ p_port[y] \in {1, 2} /\ p_port[Mate(y)] \in {1, 2} /\ OwnSockets(y)
  BY <1>1, TheMate DEF PathTypes, LatePacket, PathShape
<1>3. to \in Known(p_port[Mate(y)]) \union (1 .. p_port[Mate(y)]) /\ to \in Nat
  <2>1. P!HopTarget(y, d) = 0 \/ P!HopTarget(y, d) = d.new
    BY DEF P!HopTarget
  <2>2. 0 \in Known(p_port[Mate(y)]) /\ Known(p_port[Mate(y)]) \subseteq Nat
    BY <1>2, KnownPorts
  <2> QED
    BY <1>2, <2>1, <2>2
<1>4. p_addr' = [p_addr EXCEPT ![y] = to]
  BY <1>1 DEF P!Direct
<1>5. p_holes' = p_holes \/ p_holes' = [p_holes EXCEPT ![y] = @ \union {<<p_port[y], to>>}]
  <2>1. CASE d.new = 0
    BY <1>1, <2>1
  <2>2. CASE d.new # 0 /\ P!HopTarget(y, d) # 0
    BY <1>1, <2>2
  <2>3. CASE d.new # 0 /\ P!HopTarget(y, d) = 0
    <3>1. p_holes' = [p_holes EXCEPT ![y] = p_holes[y]] /\ p_holes \in [Pair -> SUBSET (Nat \X Nat)]
      BY <1>1, <2>3 DEF PathTypes, PathShape
    <3> QED
      BY <3>1
  <2> QED
    BY <2>1, <2>2, <2>3
<1>6. p_via' \in [Pair -> BOOLEAN] /\ p_recent' \in [Pair -> BOOLEAN]
  <2>1. p_via \in [Pair -> BOOLEAN] /\ p_recent \in [Pair -> BOOLEAN]
    BY DEF PathTypes, PathShape
  <2>2. CASE d.new = 0
    BY <1>1, <2>1, <2>2 DEF P!Direct
  <2>3. CASE d.new # 0
    <3> DEFINE relayed == d.from = 0 /\ (p_via[y] \/ p_addr[y] = 0 \/ ~p_recent[y])
               heard == p_recent[y] \/ d.from # 0
    <3>1. relayed \in BOOLEAN /\ heard \in BOOLEAN
      BY <2>1, Zenon
    <3>2. p_via' = [p_via EXCEPT ![y] = relayed] /\ p_recent' = [p_recent EXCEPT ![y] = heard]
      BY <1>1, <2>3
    <3> HIDE DEF relayed, heard
    <3> QED
      BY <2>1, <3>1, <3>2
  <2> QED
    BY <2>2, <2>3
<1> HIDE DEF to
<1>7. /\ p_holes' \in [Pair -> SUBSET (Nat \X Nat)]
      /\ \A z \in Pair : \A h \in p_holes'[z] : h[1] \in p_open[z]
  <2>1. /\ p_holes \in [Pair -> SUBSET (Nat \X Nat)]
        /\ \A z \in Pair : \A h \in p_holes[z] : h[1] \in p_open[z]
    BY DEF PathTypes, PathShape, OwnSockets
  <2>2. p_port[y] \in Nat /\ p_port[y] \in p_open[y]
    BY <1>2 DEF OwnSockets
  <2> QED
    BY <1>3, <1>5, <2>1, <2>2
<1>8. p_addr' \in [Pair -> Nat] /\ p_addr'[y] = to /\ \A z \in Pair : z # y => p_addr'[z] = p_addr[z]
  BY <1>3, <1>4 DEF PathTypes, PathShape
<1>9. PathShape'
  BY <1>1, <1>6, <1>7, <1>8 DEF PathTypes, PathShape
<1>10. ASSUME NEW z \in Pair PROVE (OwnSockets(z) /\ Learnt(z) /\ MateSignals(z) /\ MateAddress(z))'
  <2>1. OwnSockets(z) /\ Learnt(z) /\ MateSignals(z) /\ MateAddress(z)
    BY DEF PathTypes
  <2>2. OwnSockets(z)' /\ Learnt(z)' /\ MateSignals(z)'
    BY <1>1, <1>7, <2>1 DEF OwnSockets, Learnt, MateSignals
  <2>3. MateAddress(z)'
    BY <1>1, <1>3, <1>8, <2>1 DEF MateAddress
  <2> QED
    BY <2>2, <2>3
<1>11. \A q \in p_late' : LatePacket(q)'
  BY <1>1 DEF PathTypes, LatePacket
<1> QED
  BY <1>9, <1>10, <1>11 DEF PathTypes

LEMMA PathTypesStep == PathTypes /\ [Next]_all => PathTypes'
<1> SUFFICES ASSUME PathTypes, P!Next \/ UNCHANGED pVars PROVE PathTypes'
  BY DEF Next, Others, all
<1>1. PathShape /\ \A x \in Pair : OwnSockets(x) /\ Learnt(x) /\ MateAddress(x) /\ MateSignals(x)
  BY DEF PathTypes
<1>2. ASSUME NEW x \in Pair
      PROVE  /\ p_port[x] \in {1, 2} /\ p_port[Mate(x)] \in {1, 2} /\ Mate(x) \in Pair
             /\ P!Other(x) = Mate(x) /\ Mate(Mate(x)) = x /\ Mate(x) # x
             /\ p_addr[x] \in Nat /\ p_endpoint[x] \in Nat
  BY <1>1, TheMate DEF PathShape
<1>3. CASE UNCHANGED pVars
  BY <1>3 DEF pVars, PathTypes, PathShape, OwnSockets, Learnt, MateAddress, MateSignals, LatePacket
<1>4. ASSUME NEW x \in Pair, P!Ping(x) PROVE PathTypes'
  BY <1>2, <1>4, ProbeTypes DEF P!Ping
<1>5. ASSUME NEW x \in Pair, P!punchPeer(x) PROVE PathTypes'
  BY <1>2, <1>5, ProbeTypes DEF P!punchPeer
<1>6. ASSUME NEW y \in Pair, P!Relayed(y),
             UNCHANGED <<p_port, p_open, p_holes, p_learnt, p_announcing, p_signals, p_endpoint, p_late>>
      PROVE  PathTypes'
  <2> DEFINE relayed == p_via[y] \/ p_addr[y] = 0 \/ ~p_recent[y]
  <2>1. p_via' = [p_via EXCEPT ![y] = relayed] /\ UNCHANGED <<p_addr, p_recent>>
    BY <1>6 DEF P!Relayed
  <2>2. p_via \in [Pair -> BOOLEAN] /\ p_recent \in [Pair -> BOOLEAN]
    BY <1>1 DEF PathShape
  <2>3. relayed \in BOOLEAN
    BY <2>2, Zenon
  <2> HIDE DEF relayed
  <2>4. p_via' \in [Pair -> BOOLEAN]
    BY <2>1, <2>2, <2>3
  <2> QED
    BY <1>6, <2>1, <2>4 DEF PathTypes, PathShape, OwnSockets, Learnt, MateAddress, MateSignals, LatePacket
<1>7. ASSUME NEW x \in Pair, P!PingRelayed(x) \/ P!Talk(x) PROVE PathTypes'
  BY <1>2, <1>6, <1>7 DEF P!PingRelayed, P!Talk
<1>8. ASSUME NEW x \in Pair, P!Delay(x) PROVE PathTypes'
  <2> DEFINE d == [to |-> Mate(x), from |-> P!Public(p_port[x]), at |-> p_addr[x], new |-> 0]
  <2>1. p_late' = p_late \union {d}
    BY <1>2, <1>8 DEF P!Delay
  <2>2. UNCHANGED <<p_port, p_open, p_holes, p_learnt, p_announcing, p_signals, p_endpoint, p_addr, p_via, p_recent>>
    BY <1>8 DEF P!Delay
  <2>3. P!Public(p_port[x]) \in Known(p_port[x]) /\ 0 \in 0 .. p_port[x]
    BY <1>2, KnownPorts
  <2>4. LatePacket(d)
    BY <1>2, <2>3 DEF LatePacket
  <2> HIDE DEF d
  <2> QED
    BY <2>1, <2>2, <2>4 DEF PathTypes, PathShape, OwnSockets, Learnt, MateAddress, MateSignals, LatePacket
<1>9. ASSUME NEW x \in Pair, P!Forget(x) PROVE PathTypes'
  <2>1. p_recent' \in [Pair -> BOOLEAN]
    BY <1>1, <1>9 DEF P!Forget, PathShape
  <2> QED
    BY <1>9, <2>1 DEF P!Forget, PathTypes, PathShape, OwnSockets, Learnt, MateAddress, MateSignals, LatePacket
<1>10. ASSUME NEW x \in Pair, P!CloseOld(x) PROVE PathTypes'
  <2>1. /\ p_open' = [p_open EXCEPT ![x] = {p_port[x]}]
        /\ p_holes' = [p_holes EXCEPT ![x] = {h \in @ : h[1] = p_port[x]}]
        /\ UNCHANGED <<p_port, p_learnt, p_announcing, p_signals, p_endpoint, p_addr, p_via, p_recent, p_late>>
    BY <1>10 DEF P!CloseOld
  <2>2. PathShape'
    BY <1>1, <1>2, <2>1 DEF PathShape
  <2>3. ASSUME NEW z \in Pair PROVE OwnSockets(z)'
    BY <1>1, <1>2, <2>1 DEF PathShape, OwnSockets
  <2> QED
    BY <1>1, <2>1, <2>2, <2>3 DEF PathTypes, Learnt, MateAddress, MateSignals, LatePacket
<1>11. ASSUME NEW x \in Pair, NEW v \in Nat, v \in Known(p_port[x]),
              p_signals' = [p_signals EXCEPT ![Mate(x)] = Append(@, v)]
       PROVE  p_signals' \in [Pair -> Seq(Nat)] /\ \A z \in Pair : p_signals'[z] \in Seq(Known(p_port[Mate(z)]))
  <2>1. p_signals \in [Pair -> Seq(Nat)] /\ \A z \in Pair : p_signals[z] \in Seq(Known(p_port[Mate(z)]))
    BY <1>1 DEF PathShape, MateSignals
  <2>2. Mate(x) \in Pair /\ Mate(Mate(x)) = x
    BY <1>2
  <2>3. Append(p_signals[Mate(x)], v) \in Seq(Nat) /\ Append(p_signals[Mate(x)], v) \in Seq(Known(p_port[x]))
    BY <1>11, <2>1, <2>2
  <2> QED
    BY <1>11, <2>1, <2>2, <2>3
<1>12. ASSUME NEW x \in Pair, P!Stun(x) PROVE PathTypes'
  <2>1. PICK k \in p_open[x] \union {p_port[x]} :
          /\ p_learnt' = [p_learnt EXCEPT ![x] = P!Public(k)]
          /\ p_signals' = [p_signals EXCEPT ![Mate(x)] = Append(@, P!Public(k))]
          /\ UNCHANGED <<p_port, p_open, p_holes, p_announcing, p_endpoint, p_addr, p_via, p_recent, p_late>>
    BY <1>2, <1>12 DEF P!Stun
  <2>2. k \in 1 .. p_port[x] /\ k \in Nat
    BY <1>1, <1>2 DEF OwnSockets
  <2>3. P!Public(k) \in Known(p_port[x]) /\ P!Public(k) \in Nat
    BY <1>2, <2>2, KnownPorts, PublicPort
  <2>4. p_signals' \in [Pair -> Seq(Nat)] /\ \A z \in Pair : p_signals'[z] \in Seq(Known(p_port[Mate(z)]))
    BY <1>11, <2>1, <2>3
  <2>5. p_learnt' \in [Pair -> Nat] /\ \A z \in Pair : p_learnt'[z] \in Known(p_port[z])
    BY <1>1, <2>1, <2>3 DEF PathShape, Learnt
  <2> QED
    BY <2>1, <2>4, <2>5 DEF PathTypes, PathShape, OwnSockets, Learnt, MateAddress, MateSignals, LatePacket
<1>13. ASSUME NEW x \in Pair, P!SignalHop(x) PROVE PathTypes'
  <2>1. /\ p_announcing[x] > 0 /\ p_announcing' = [p_announcing EXCEPT ![x] = @ - 1]
        /\ p_signals' = [p_signals EXCEPT ![Mate(x)] = Append(@, p_learnt[x])]
        /\ UNCHANGED <<p_port, p_open, p_holes, p_learnt, p_endpoint, p_addr, p_via, p_recent, p_late>>
    BY <1>2, <1>13 DEF P!SignalHop
  <2>2. p_learnt[x] \in Known(p_port[x]) /\ p_learnt[x] \in Nat
    BY <1>1 DEF PathShape, Learnt
  <2>3. p_signals' \in [Pair -> Seq(Nat)] /\ \A z \in Pair : p_signals'[z] \in Seq(Known(p_port[Mate(z)]))
    BY <1>11, <2>1, <2>2
  <2>4. p_announcing' \in [Pair -> Nat] /\ \A z \in Pair : p_announcing'[z] <= p_port[z] - 1
    <3>1. p_announcing \in [Pair -> Nat] /\ \A z \in Pair : p_announcing[z] <= p_port[z] - 1 /\ p_port[z] \in Nat
      BY <1>1 DEF PathShape, OwnSockets
    <3> QED
      BY <2>1, <3>1
  <2> QED
    BY <2>1, <2>3, <2>4 DEF PathTypes, PathShape, OwnSockets, Learnt, MateAddress, MateSignals, LatePacket
<1>14. ASSUME NEW y \in Pair, P!PeerPortUpdated(y) PROVE PathTypes'
  <2> DEFINE said == Head(p_signals[y])
  <2>1. /\ p_signals[y] # <<>>
        /\ p_signals' = [p_signals EXCEPT ![y] = Tail(@)] /\ p_endpoint' = [p_endpoint EXCEPT ![y] = said]
        /\ p_addr' = p_addr \/ p_addr' = [p_addr EXCEPT ![y] = said]
        /\ UNCHANGED <<p_port, p_open, p_holes, p_learnt, p_announcing, p_via, p_recent, p_late>>
    <3>1. p_addr \in [Pair -> Nat]
      BY <1>1 DEF PathShape
    <3>2. p_addr' = [p_addr EXCEPT ![y] = IF said # 0 /\ (p_via[y] \/ @ = 0) THEN said ELSE @]
      BY <1>14 DEF P!PeerPortUpdated
    <3>3. CASE said # 0 /\ (p_via[y] \/ p_addr[y] = 0)
      BY <1>14, <3>2, <3>3 DEF P!PeerPortUpdated
    <3>4. CASE ~(said # 0 /\ (p_via[y] \/ p_addr[y] = 0))
      <4>1. p_addr' = [p_addr EXCEPT ![y] = p_addr[y]]
        BY <3>2, <3>4
      <4>2. p_addr' = p_addr
        BY <3>1, <4>1
      <4> QED
        BY <1>14, <4>2 DEF P!PeerPortUpdated
    <3> QED
      BY <3>3, <3>4
  <2>2. p_signals[y] \in Seq(Known(p_port[Mate(y)])) /\ p_signals \in [Pair -> Seq(Nat)] /\ p_signals[y] \in Seq(Nat)
    BY <1>1 DEF PathShape, MateSignals
  <2>3. /\ said \in Known(p_port[Mate(y)]) /\ said \in Nat
        /\ Tail(p_signals[y]) \in Seq(Known(p_port[Mate(y)])) /\ Tail(p_signals[y]) \in Seq(Nat)
    BY <2>1, <2>2
  <2> HIDE DEF said
  <2>4. PathShape'
    <3>1. p_signals' \in [Pair -> Seq(Nat)]
      BY <2>1, <2>2, <2>3
    <3>2. p_endpoint' \in [Pair -> Nat]
      BY <1>1, <2>1, <2>3 DEF PathShape
    <3>3. p_addr' \in [Pair -> Nat]
      BY <1>1, <2>1, <2>3 DEF PathShape
    <3> QED
      BY <1>1, <2>1, <3>1, <3>2, <3>3 DEF PathShape
  <2>5. ASSUME NEW z \in Pair PROVE MateAddress(z)' /\ MateSignals(z)'
    BY <1>1, <2>1, <2>3 DEF PathShape, MateAddress, MateSignals
  <2> QED
    BY <1>1, <2>1, <2>4, <2>5 DEF PathTypes, OwnSockets, Learnt, LatePacket
<1>15. CASE P!Lose
  BY <1>15 DEF P!Lose, PathTypes, PathShape, OwnSockets, Learnt, MateAddress, MateSignals, LatePacket
<1>16. ASSUME NEW x \in Pair, P!RotatePort(x) \/ P!Arrive(x) PROVE PathTypes'
  BY <1>16, HopTypes, ArriveTypes
<1>17. P!Members = Pair
  BY DEF P!Members, Pair
<1> QED
  BY <1>3, <1>4, <1>5, <1>7, <1>8, <1>9, <1>10, <1>12, <1>13, <1>14, <1>15, <1>16, <1>17 DEF P!Next

-----------------------------------------------------------------------------
(* The properties of the runs                                              *)

\* Whoever has heard the relay out holds its host for the host, and itself only when it is the one
\* (PacketLeave in node.go, SigNewHost in relay.go): whatever it has elected meanwhile, with any
\* number of members, leaves, time-outs and rotations, while the room changes its host once.
THEOREM HostsComeToAgree == Spec => []HostsAgree
<1>1. HostInv => HostsAgree
  BY DEF HostInv, HostsAgree, H!HostsAgree, Agrees
<1> QED
  BY <1>1, HostInit, HostStep, PTL DEF Spec

\* The rooms on the LAN never overflow, although several joiners get the key before the first of
\* them registers (PacketJoinRequest), and while knocking stays on nobody gets the key without the
\* user's word for that very attempt (processAuth, ApproveJoin): for every number of joiners,
\* attempts and sessions, and whatever the host's limits are.
THEOREM DoorStaysKept == Spec => []DoorIsKept
<1>1. DoorInv => DoorIsKept
  BY DEF DoorInv, OnlyAllowed, DoorIsKept, A!OnlyTheAllowedGetIn
<1> QED
  BY <1>1, DoorInit, DoorStep, PTL DEF Spec

\* None waits for the host's word without being asked about (processAuth, onKnock, answerKnock):
\* also when a new attempt replaces a session that was being answered.
THEOREM KnockersStayAsked == Spec => []KnockersAreAsked
<1>1. DoorInv => KnockersAreAsked
  BY DEF DoorInv, KnockersAreAsked
<1> QED
  BY <1>1, DoorInit, DoorStep, PTL DEF Spec

\* "every member sends its history, and sends it twice" (handleChatHistoryLocked), and live messages
\* come over several paths: with any number of members that join, leave and come back, for every
\* order in which the copies, whole or in parts, arrive, and with the history switched on and off,
\* no message is on a screen twice while the room keeps everything that was said.
THEOREM MessagesStayShownOnce == Spec => []ShownOnce
<1>1. ChatInv => ShownOnce
  <2> SUFFICES ASSUME ChatInv, t_said <= t_Limit, NEW n \in t_Members, NEW m \in T!Said
               PROVE  t_shown[n][m] <= 1
    BY DEF ShownOnce, T!ShownOnce
  <2>1. t_shown[n][m] \in {0, 1}
    BY DEF ChatInv, AllKept, Once
  <2> QED
    BY <2>1
<1> QED
  BY <1>1, ChatInit, ChatStep, PTL DEF Spec

\* Every component is in a state the code can be in: who the members hold for the room's members and
\* its host and which keys they have (node.go, handshake.go), every session, question and frame of
\* a joiner (handshake.go), the logs and parts of the chat (node.go), the slots of the file transfers
\* and the media that are kept (files.go, media.go), the keyrings (keyrecovery.go), and the sockets
\* and addresses of a path, which are ones the other member had or was taken for having (nat.go).
THEOREM MembersStayTyped == Spec => []TypeOK
<1> DEFINE Typed == HostTypes /\ DoorTypes /\ ChatTypes /\ FileTypes /\ GP!IInv /\ PathTypes
<1>1. Init => Typed
  BY HostTypesInit, DoorTypesInit, ChatTypesInit, FileTypesInit, KeysInit, PathTypesInit
<1>2. Typed /\ [Next]_all => Typed'
  <2>1. DoorTypes => DoorInv
    BY DEF DoorTypes
  <2>2. ChatTypes => ChatInv
    BY DEF ChatTypes
  <2> QED
    BY <2>1, <2>2, DoorStep, ChatStep, HostTypesStep, DoorTypesStep, ChatTypesStep, FileTypesStep,
       KeysStep, PathTypesStep
<1>3. Typed => TypeOK
  BY HostTyped, DoorTyped, ChatTyped, FileTyped, KeysTyped, PathTyped DEF TypeOK
<1> HIDE DEF Typed
<1> QED
  BY <1>1, <1>2, <1>3, PTL DEF Spec
=============================================================================
