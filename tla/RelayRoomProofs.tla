--------------------------- MODULE RelayRoomProofs ---------------------------
(***************************************************************************)
(* Theorems about RelayRoom for every set of nodes, connections and sizes  *)
(* of the room, and every order in which signals, notices, timers and      *)
(* broken connections overtake one another.                                *)
(***************************************************************************)
EXTENDS RelayRoom, TLAPS, FiniteSetTheorems, SequenceTheorems,
        WellFoundedInduction

-----------------------------------------------------------------------------
(* The inductive invariant                                                 *)

\* The join order lists every member once.
OrderIsRoom ==
    /\ IsInjective(order)
    /\ members = Range(order)
    /\ IsFiniteSet(members) /\ Cardinality(members) = Len(order)

\* A connection that has a slot or a request is the one the room has for its
\* node, and the server is not done with it.
SlotsAgree ==
    /\ \A i \in Ids : /\ client[i] # None => i \in members /\ Owner(client[i]) = i
                      /\ pending[i] # None => /\ i \notin members
                                              /\ Owner(pending[i]) = i
    /\ \A c \in Conns : /\ c \in roomOf <=> client[Owner(c)] = c
                        /\ c \in pendOf <=> pending[Owner(c)] = c
                        /\ link[c] = "done" => c \notin roomOf \cup pendOf

\* An inhabited room has one of its members as host, and nobody waits for an
\* empty one.
RoomHasHost ==
    /\ members # {} => exists /\ hostID \in members
    /\ members = {} => \A i \in Ids : pending[i] = None

RoomInv ==
    /\ OrderIsRoom
    /\ SlotsAgree
    /\ RoomHasHost
    /\ RoomFits
    /\ GraceIsLimited

\* s tells a node that its host token is t.
Tells(s, t) == s.type \in {"created", "newhost"} /\ s.hostToken = t

\* i has the host token t, or is about to be told it, or presents it.
HasToken(i, t) ==
    \/ node[i].hostToken = t
    \/ \E g \in Threads : \E n \in out[g] : Owner(n.to) = i /\ Tells(n.sig, t)
    \/ \E c \in Conns : /\ Owner(c) = i
                        /\ \/ \E s \in Range(down[c]) : Tells(s, t)
                           \/ \E s \in Range(up[c]) :
                                 s.type = "host" /\ s.hostToken = t

\* No token is newer than the room's, and the room's is with its host only.
TokenInv ==
    /\ exists => hostToken # 0
    /\ \A i \in Ids : \A t \in Nat : HasToken(i, t) =>
          t <= hostToken /\ (exists /\ t = hostToken => i = hostID)

\* A node uses connections of its own.
ConnsAreOwn == \A i \in Ids : node[i].conn # None => Owner(node[i].conn) = i

IInv ==
    /\ TypeOK
    /\ RoomInv
    /\ TokenInv
    /\ ConnsAreOwn

-----------------------------------------------------------------------------
(* Sequences                                                               *)

\* What is taken from a queue was in it, and so is what is left.
LEMMA TakeOne ==
    ASSUME NEW S, NEW s \in Seq(S), s # <<>>
    PROVE  /\ Head(s) \in S /\ Head(s) \in Range(s)
           /\ Tail(s) \in Seq(S) /\ Range(Tail(s)) \subseteq Range(s)
<1>1. Len(s) \in Nat \ {0} /\ DOMAIN s = 1 .. Len(s)
  BY EmptySeq, LenProperties
<1>2. Head(s) = s[1]
  BY <1>1
<1>3. /\ Tail(s) \in Seq(S) /\ Len(Tail(s)) = Len(s) - 1
      /\ \A k \in 1 .. Len(Tail(s)) : Tail(s)[k] = s[k + 1]
  BY HeadTailProperties
<1>4. DOMAIN Tail(s) = 1 .. (Len(s) - 1)
  BY <1>3, LenProperties
<1>5. \A k \in DOMAIN Tail(s) : k + 1 \in DOMAIN s /\ Tail(s)[k] = s[k + 1]
  BY <1>1, <1>3, <1>4
<1>6. Range(Tail(s)) \subseteq Range(s)
  BY <1>5 DEF Range
<1> QED
  BY <1>1, <1>2, <1>3, <1>6, HeadTailProperties DEF Range

\* What is in a queue after something is put on it.
LEMMA PutOne ==
    ASSUME NEW S, NEW s \in Seq(S), NEW e \in S
    PROVE  /\ Append(s, e) \in Seq(S)
           /\ Range(Append(s, e)) = Range(s) \cup {e}
           /\ Len(Append(s, e)) = Len(s) + 1
<1>1. /\ Append(s, e) \in Seq(S) /\ Len(Append(s, e)) = Len(s) + 1
      /\ \A k \in 1 .. Len(s) : Append(s, e)[k] = s[k]
      /\ Append(s, e)[Len(s) + 1] = e
  BY AppendProperties
<1>2. /\ Len(s) \in Nat /\ DOMAIN s = 1 .. Len(s)
      /\ DOMAIN Append(s, e) = 1 .. (Len(s) + 1)
  BY <1>1, LenProperties
<1> QED
  BY <1>1, <1>2 DEF Range

\* Taking an element out of a sequence without repetition takes it out of what
\* is listed, and repeats nothing.
LEMMA TakeOut ==
    ASSUME NEW S, NEW s \in Seq(S), IsInjective(s), NEW k \in DOMAIN s
    PROVE  /\ RemoveAt(s, k) \in Seq(S)
           /\ Len(RemoveAt(s, k)) = Len(s) - 1
           /\ IsInjective(RemoveAt(s, k))
           /\ Range(RemoveAt(s, k)) = Range(s) \ {s[k]}
<1> DEFINE p == SubSeq(s, 1, k - 1)
           q == SubSeq(s, k + 1, Len(s))
           r == RemoveAt(s, k)
<1>1. /\ Len(s) \in Nat /\ DOMAIN s = 1 .. Len(s)
      /\ \A j \in 1 .. Len(s) : s[j] \in S
  BY LenProperties
<1>2. /\ p \in Seq(S) /\ Len(p) = k - 1
      /\ \A j \in 1 .. (k - 1) : p[j] = s[j]
  <2>1. /\ p \in Seq(S) /\ Len(p) = IF 1 <= k - 1 THEN k - 1 - 1 + 1 ELSE 0
        /\ \A j \in 1 .. (k - 1 - 1 + 1) : p[j] = s[1 + j - 1]
    BY <1>1, SubSeqProperties
  <2> QED
    BY <1>1, <2>1
<1>3. /\ q \in Seq(S) /\ Len(q) = Len(s) - k
      /\ \A j \in 1 .. (Len(s) - k) : q[j] = s[j + k]
  <2>1. /\ q \in Seq(S)
        /\ Len(q) = IF k + 1 <= Len(s) THEN Len(s) - (k + 1) + 1 ELSE 0
        /\ \A j \in 1 .. (Len(s) - (k + 1) + 1) : q[j] = s[(k + 1) + j - 1]
    BY <1>1, SubSeqProperties
  <2>2. k \in 1 .. Len(s) /\ Len(s) \in Nat
    BY <1>1
  <2> HIDE DEF q
  <2>3. Len(q) = Len(s) - k
    BY <2>1, <2>2
  <2>4. ASSUME NEW j \in 1 .. (Len(s) - k) PROVE q[j] = s[j + k]
    <3>1. j \in 1 .. (Len(s) - (k + 1) + 1) /\ (k + 1) + j - 1 = j + k
      BY <2>2
    <3>2. q[j] = s[(k + 1) + j - 1]
      BY <2>1, <3>1
    <3> QED
      BY <3>1, <3>2
  <2> QED
    BY <2>1, <2>3, <2>4
<1>4. r = p \o q
  BY DEF RemoveAt
<1>5. /\ r \in Seq(S) /\ Len(r) = Len(s) - 1
      /\ \A j \in 1 .. (Len(s) - 1) :
            r[j] = IF j <= k - 1 THEN p[j] ELSE q[j - (k - 1)]
  <2>1. /\ p \o q \in Seq(S) /\ Len(p \o q) = Len(p) + Len(q)
        /\ \A j \in 1 .. (Len(p) + Len(q)) :
              (p \o q)[j] = IF j <= Len(p) THEN p[j] ELSE q[j - Len(p)]
    BY <1>2, <1>3, ConcatProperties
  <2>2. Len(p) + Len(q) = Len(s) - 1
    BY <1>1, <1>2, <1>3
  <2> HIDE DEF p, q
  <2> QED
    BY <1>2, <1>4, <2>1, <2>2
<1>6. \A j \in 1 .. (Len(s) - 1) : r[j] = IF j < k THEN s[j] ELSE s[j + 1]
  <2> SUFFICES ASSUME NEW j \in 1 .. (Len(s) - 1)
               PROVE  r[j] = IF j < k THEN s[j] ELSE s[j + 1]
    OBVIOUS
  <2>1. CASE j < k
    BY <1>1, <1>2, <1>5, <2>1
  <2>2. CASE ~(j < k)
    <3>1. j - (k - 1) \in 1 .. (Len(s) - k) /\ j - (k - 1) + k = j + 1
      BY <1>1, <2>2
    <3>2. r[j] = q[j - (k - 1)]
      BY <1>1, <1>5, <2>2
    <3>3. q[j - (k - 1)] = s[j - (k - 1) + k]
      BY <1>3, <3>1
    <3> QED
      BY <2>2, <3>1, <3>2, <3>3
  <2> QED
    BY <2>1, <2>2
<1>7. DOMAIN r = 1 .. (Len(s) - 1)
  BY <1>5, LenProperties
<1>8. IsInjective(r)
  BY <1>1, <1>6, <1>7 DEF IsInjective
<1>9. Range(r) = Range(s) \ {s[k]}
  <2>1. ASSUME NEW x \in Range(r) PROVE x \in Range(s) \ {s[k]}
    <3>1. PICK j \in 1 .. (Len(s) - 1) : x = r[j]
      BY <1>7 DEF Range
    <3>2. PICK l \in 1 .. Len(s) : l # k /\ x = s[l]
      BY <1>1, <1>6, <3>1
    <3> QED
      BY <1>1, <3>2 DEF Range, IsInjective
  <2>2. ASSUME NEW x \in Range(s) \ {s[k]} PROVE x \in Range(r)
    <3>1. PICK l \in 1 .. Len(s) : l # k /\ x = s[l]
      BY <1>1 DEF Range
    <3>2. CASE l < k
      <4>1. l \in 1 .. (Len(s) - 1) /\ r[l] = x
        BY <1>1, <1>6, <3>1, <3>2
      <4> QED
        BY <1>7, <4>1 DEF Range
    <3>3. CASE ~(l < k)
      <4>1. l - 1 \in 1 .. (Len(s) - 1) /\ r[l - 1] = x
        BY <1>1, <1>6, <3>1, <3>3
      <4> QED
        BY <1>7, <4>1 DEF Range
    <3> QED
      BY <3>2, <3>3
  <2> QED
    BY <2>1, <2>2
<1> QED
  BY <1>5, <1>8, <1>9

\* If somebody of S is listed, there is a first of S in the list.
LEMMA SomeoneIsFirst ==
    ASSUME NEW T, NEW s \in Seq(T), NEW S, Range(s) \cap S # {}
    PROVE  \E k \in DOMAIN s : /\ s[k] \in S
                               /\ \A j \in 1 .. (k - 1) : s[j] \notin S
<1> DEFINE At == {k \in DOMAIN s : s[k] \in S}
<1>1. Len(s) \in Nat /\ DOMAIN s = 1 .. Len(s)
  BY LenProperties
<1>2. At \subseteq Nat /\ At # {}
  BY <1>1 DEF Range
<1> DEFINE Less == {ss \in Nat \X Nat : ss[1] < ss[2]}
<1>3. IsWellFoundedOn(Less, Nat)
  BY Zenon, NatLessThanWellFounded DEF OpToRel
<1>4. PICK k \in At : \A j \in At : ~(<<j, k>> \in Less)
  <2> HIDE DEF At, Less
  <2> QED
    BY <1>2, <1>3, WFMin
<1>5. \A j \in 1 .. (k - 1) : s[j] \notin S
  <2> SUFFICES ASSUME NEW j \in 1 .. (k - 1), s[j] \in S PROVE FALSE
    OBVIOUS
  <2>1. j \in At /\ j \in Nat /\ k \in Nat /\ j < k
    BY <1>1
  <2>2. <<j, k>> \in Less
    BY <2>1
  <2> QED
    BY <1>4, <2>1, <2>2
<1> QED
  BY <1>5

-----------------------------------------------------------------------------
(* The room                                                                *)

\* A connection belongs to a node and has a goroutine of its own.
LEMMA OwnerOK ==
    ASSUME NEW c \in Conns
    PROVE  Owner(c) \in Ids /\ c # None /\ c \in Threads
BY RelayRoomAssumption DEF Owner, Threads

\* A room as it is made: with one member.
LEMMA OneMember ==
    ASSUME NEW i \in Ids, order' = <<i>>, members' = {i}
    PROVE  OrderIsRoom' /\ RoomFits' /\ order' \in Seq(Ids)
<1>1. <<i>> \in Seq(Ids) /\ Len(<<i>>) = 1 /\ DOMAIN <<i>> = {1} /\ <<i>>[1] = i
  OBVIOUS
<1>2. IsInjective(<<i>>) /\ Range(<<i>>) = {i}
  BY <1>1 DEF IsInjective, Range
<1>3. IsFiniteSet({i}) /\ Cardinality({i}) = 1
  BY FS_Singleton
<1> QED
  BY <1>1, <1>2, <1>3, RelayRoomAssumption DEF OrderIsRoom, RoomFits

\* Who comes in joins at the end of the order.
LEMMA OneMore ==
    ASSUME OrderIsRoom, order \in Seq(Ids), NEW i \in Ids, i \notin members,
           order' = Append(order, i), members' = members \cup {i}
    PROVE  /\ OrderIsRoom' /\ order' \in Seq(Ids)
           /\ Cardinality(members') = Cardinality(members) + 1
<1>1. /\ order' \in Seq(Ids) /\ Range(order') = Range(order) \cup {i}
      /\ Len(order') = Len(order) + 1
  BY PutOne
<1>2. /\ IsFiniteSet(members') /\ Cardinality(members') = Cardinality(members) + 1
  BY FS_AddElement DEF OrderIsRoom
<1>3. /\ Len(order) \in Nat /\ DOMAIN order = 1 .. Len(order)
      /\ DOMAIN order' = 1 .. (Len(order) + 1)
      /\ \A k \in 1 .. Len(order) : order'[k] = order[k]
      /\ order'[Len(order) + 1] = i
  BY <1>1, LenProperties, AppendProperties
<1>4. \A k \in DOMAIN order : order[k] # i
  BY DEF OrderIsRoom, Range
<1>5. IsInjective(order')
  BY <1>3, <1>4 DEF OrderIsRoom, IsInjective
<1> QED
  BY <1>1, <1>2, <1>5 DEF OrderIsRoom

\* Who goes leaves the others in the order in which they came.
LEMMA OneLess ==
    ASSUME OrderIsRoom, order \in Seq(Ids), NEW i \in members,
           order' = RemoveAt(order, PlaceOf({i})), members' = members \ {i}
    PROVE  /\ OrderIsRoom' /\ order' \in Seq(Ids)
           /\ Cardinality(members') = Cardinality(members) - 1
<1>1. Range(order) \cap {i} # {}
  BY DEF OrderIsRoom
<1>2. PlaceOf({i}) \in DOMAIN order /\ order[PlaceOf({i})] = i
  BY <1>1, SomeoneIsFirst DEF PlaceOf
<1>3. /\ order' \in Seq(Ids) /\ Len(order') = Len(order) - 1
      /\ IsInjective(order') /\ Range(order') = Range(order) \ {i}
  BY <1>2, TakeOut DEF OrderIsRoom
<1>4. IsFiniteSet(members') /\ Cardinality(members') = Cardinality(members) - 1
  BY FS_RemoveElement DEF OrderIsRoom
<1> QED
  BY <1>3, <1>4 DEF OrderIsRoom

\* The next host is one of those that are left, and connected if anybody is.
LEMMA NextHostOK ==
    ASSUME OrderIsRoom, order \in Seq(Ids), NEW i \in Ids, members \ {i} # {}
    PROVE  /\ NextHost(i) \in members \ {i}
           /\ Online \ {i} # {} => NextHost(i) \in Online \ {i}
<1>1. ASSUME NEW S, S \subseteq members, S # {} PROVE FirstOf(S) \in S
  <2>1. Range(order) \cap S # {}
    BY <1>1 DEF OrderIsRoom
  <2> QED
    BY <2>1, SomeoneIsFirst DEF PlaceOf, FirstOf
<1>2. Online \subseteq members
  BY DEF Online
<1> QED
  BY <1>1, <1>2 DEF NextHost

\* Steps that leave the room alone, and only end connections that have no part
\* in it.
LEMMA RoomFrame ==
    ASSUME RoomInv,
           UNCHANGED <<exists, hostID, members, order, client, pending, grace,
                       roomOf, pendOf>>,
           \A c \in Conns : link'[c] = "done" => link[c] = "done"
    PROVE  RoomInv'
BY DEF RoomInv, OrderIsRoom, SlotsAgree, RoomHasHost, RoomFits, GraceIsLimited,
       Online

\* removeMemberLocked: the room is in order again when its lock is released.
LEMMA RemoveMemberRoom ==
    ASSUME TypeOK, RoomInv, NEW g, NEW i \in members, NEW said,
           RemoveMember(g, i, said), roomOf' = roomOf \ {client[i]},
           \A c \in Conns : link'[c] = "done" => link[c] = "done"
    PROVE  RoomInv'
<1> DEFINE left == members \ {i}
<1>1. /\ OrderIsRoom /\ SlotsAgree /\ RoomHasHost /\ RoomFits /\ GraceIsLimited
      /\ order \in Seq(Ids) /\ members \subseteq Ids /\ i \in Ids
      /\ client \in [Ids -> Conns \cup {None}]
      /\ pending \in [Ids -> Conns \cup {None}]
      /\ roomOf \subseteq Conns /\ pendOf \subseteq Conns
  BY DEF TypeOK, RoomInv
<1>2. /\ members' = left /\ order' = RemoveAt(order, PlaceOf({i}))
      /\ client' = [client EXCEPT ![i] = None] /\ grace' = grace \ {i}
      /\ exists' = exists
  BY DEF RemoveMember
<1>3. OrderIsRoom' /\ Cardinality(members') = Cardinality(members) - 1
  BY <1>1, <1>2, OneLess
<1>4. RoomFits'
  <2>1. Cardinality(members) \in Nat
    BY <1>1, LenProperties DEF OrderIsRoom
  <2> QED
    BY <1>1, <1>3, <2>1, RelayRoomAssumption DEF RoomFits
<1>5. \/ pending' = [j \in Ids |-> None] /\ pendOf' = pendOf \ {pending[j] : j \in Ids}
      \/ left # {} /\ hostID # i /\ UNCHANGED <<pending, pendOf>>
  BY DEF RemoveMember
<1>6. SlotsAgree'
  <2>1. /\ \A j \in Ids : client'[j] = IF j = i THEN None ELSE client[j]
        /\ \A j \in Ids : client[j] # None => j \in members /\ Owner(client[j]) = j
    BY <1>1, <1>2 DEF SlotsAgree
  <2>2. \A j \in Ids : client'[j] # None => j \in members' /\ Owner(client'[j]) = j
    BY <1>2, <2>1
  <2>3. \A c \in Conns : c \in roomOf' <=> client'[Owner(c)] = c
    BY <1>1, <2>1, OwnerOK DEF SlotsAgree
  <2>4. CASE pending' = [j \in Ids |-> None] /\ pendOf' = pendOf \ {pending[j] : j \in Ids}
    <3>1. \A c \in Conns : c \notin pendOf' /\ pending'[Owner(c)] # c
      BY <1>1, <2>4, OwnerOK DEF SlotsAgree
    <3>2. \A j \in Ids : pending'[j] = None
      BY <2>4
    <3> QED
      BY <1>1, <2>2, <2>3, <3>1, <3>2 DEF SlotsAgree
  <2>5. CASE UNCHANGED <<pending, pendOf>>
    BY <1>1, <1>2, <2>2, <2>3, <2>5 DEF SlotsAgree
  <2> QED
    BY <1>5, <2>4, <2>5
<1>7. RoomHasHost'
  <2>1. left # {} => hostID' = IF hostID = i THEN NextHost(i) ELSE hostID
    BY DEF RemoveMember
  <2>2. left # {} => hostID' \in left /\ exists'
    BY <1>1, <1>2, <2>1, NextHostOK DEF RoomHasHost
  <2>3. left = {} => \A j \in Ids : pending'[j] = None
    BY <1>5
  <2> QED
    BY <1>2, <2>2, <2>3 DEF RoomHasHost
<1>8. GraceIsLimited'
  BY <1>1, <1>2 DEF GraceIsLimited, Online
<1> QED
  BY <1>3, <1>4, <1>6, <1>7, <1>8 DEF RoomInv

\* onDisconnect and leave.
LEMMA DetachRoom ==
    ASSUME TypeOK, RoomInv, NEW c \in Conns, NEW explicit \in BOOLEAN,
           Detach(c, explicit),
           \A d \in Conns : link'[d] = "done" => link[d] = "done" \/ (d = c /\ ~explicit)
    PROVE  RoomInv'
<1> DEFINE i == Owner(c)
<1>1. /\ OrderIsRoom /\ SlotsAgree /\ RoomHasHost /\ RoomFits /\ GraceIsLimited
      /\ members \subseteq Ids /\ i \in Ids /\ c # None
      /\ client \in [Ids -> Conns \cup {None}]
      /\ pending \in [Ids -> Conns \cup {None}]
      /\ roomOf \subseteq Conns /\ pendOf \subseteq Conns
  BY OwnerOK DEF TypeOK, RoomInv
<1>2. CASE c \in roomOf /\ i \in members /\ client[i] = c /\ explicit
  <2>1. RemoveMember(c, i, {}) /\ roomOf' = roomOf \ {client[i]}
    BY <1>2 DEF Detach
  <2> QED
    BY <1>2, <2>1, RemoveMemberRoom
<1>3. CASE c \in roomOf /\ i \in members /\ client[i] = c /\ ~explicit
  <2>1. /\ client' = [client EXCEPT ![i] = None] /\ grace' = grace \cup {i}
        /\ UNCHANGED <<exists, hostID, members, order, pending, pendOf>>
        /\ roomOf' = roomOf \ {c}
    BY <1>3 DEF Detach
  <2>2. c \notin pendOf
    BY <1>1, <1>3 DEF SlotsAgree
  <2>3. SlotsAgree'
    BY <1>1, <1>3, <2>1, <2>2, OwnerOK DEF SlotsAgree
  <2>4. OrderIsRoom' /\ RoomHasHost' /\ RoomFits' /\ GraceIsLimited'
    BY <1>1, <2>1 DEF OrderIsRoom, RoomHasHost, RoomFits, GraceIsLimited, Online
  <2> QED
    BY <2>3, <2>4 DEF RoomInv
<1>4. CASE ~(c \in roomOf /\ i \in members /\ client[i] = c)
  <2>1. /\ UNCHANGED <<exists, hostID, members, order, client, grace>>
        /\ roomOf' = roomOf \ {c} /\ pendOf' = pendOf \ {c}
        /\ pending' = IF c \in pendOf /\ pending[i] = c
                      THEN [pending EXCEPT ![i] = None] ELSE pending
    BY <1>4 DEF Detach
  <2>2. c \notin roomOf
    BY <1>1, <1>4 DEF SlotsAgree
  <2>3. SlotsAgree'
    BY <1>1, <2>1, <2>2, OwnerOK DEF SlotsAgree
  <2>4. OrderIsRoom' /\ RoomHasHost' /\ RoomFits' /\ GraceIsLimited'
    BY <1>1, <2>1 DEF OrderIsRoom, RoomHasHost, RoomFits, GraceIsLimited, Online
  <2> QED
    BY <2>3, <2>4 DEF RoomInv
<1> QED
  BY <1>2, <1>3, <1>4

\* Whoever presents the token of the room is its host.
LEMMA PresentedByHost ==
    ASSUME TypeOK, TokenInv, NEW c \in Conns, Takes(c, "host"), exists,
           Head(up[c]).hostToken = hostToken
    PROVE  Owner(c) = hostID
<1>1. up[c] \in Seq(Requests) /\ up[c] # <<>> /\ hostToken \in Nat
  BY DEF TypeOK, Takes
<1>2. Head(up[c]) \in Range(up[c]) /\ Head(up[c]).type = "host"
  BY <1>1, TakeOne DEF Takes
<1>3. HasToken(Owner(c), hostToken)
  BY <1>2 DEF HasToken
<1> QED
  BY <1>1, <1>3, OwnerOK DEF TokenInv

\* A connection takes the place of the one its node had before.
LEMMA AttachRoom ==
    ASSUME TypeOK, SlotsAgree, GraceIsLimited, NEW c \in Conns,
           link[c] # "done", Attach(Owner(c), c),
           members' = members \cup {Owner(c)}, pending[Owner(c)] = None,
           UNCHANGED <<pending, pendOf>>
    PROVE  SlotsAgree' /\ GraceIsLimited'
<1> DEFINE i == Owner(c)
<1>1. /\ members \subseteq Ids /\ i \in Ids /\ c # None
      /\ client \in [Ids -> Conns \cup {None}]
      /\ roomOf \subseteq Conns /\ pendOf \subseteq Conns
      /\ link \in [Conns -> {"unused", "open", "shut", "cut", "done"}]
  BY OwnerOK DEF TypeOK
<1>2. /\ client' = [client EXCEPT ![i] = c]
      /\ roomOf' = (roomOf \ {client[i]}) \cup {c}
      /\ grace' = grace \ {i}
      /\ \A d \in Conns : link'[d] = "done" => link[d] = "done"
  BY <1>1 DEF Attach
<1>3. \A d \in Conns : d \in roomOf' <=> client'[Owner(d)] = d
  BY <1>1, <1>2, OwnerOK DEF SlotsAgree
<1>4. \A j \in Ids : client'[j] # None => j \in members' /\ Owner(client'[j]) = j
  BY <1>1, <1>2 DEF SlotsAgree
<1>5. \A j \in Ids : pending'[j] # None => j \notin members' /\ Owner(pending'[j]) = j
  BY <1>1 DEF SlotsAgree
<1>6. \A d \in Conns : /\ d \in pendOf' <=> pending'[Owner(d)] = d
                       /\ link'[d] = "done" => d \notin roomOf' \cup pendOf'
  BY <1>1, <1>2, OwnerOK DEF SlotsAgree
<1>7. SlotsAgree'
  BY <1>3, <1>4, <1>5, <1>6 DEF SlotsAgree
<1>8. GraceIsLimited'
  BY <1>1, <1>2 DEF GraceIsLimited, Online
<1> QED
  BY <1>7, <1>8

\* Hosting and joining: CreateRoom, ReclaimRoom, Rejoin, RequestJoin.
LEMMA ComeInRoom ==
    ASSUME TypeOK, RoomInv, TokenInv, NEW c \in Conns,
           CreateRoom(c) \/ ReclaimRoom(c) \/ Rejoin(c) \/ RequestJoin(c)
    PROVE  RoomInv'
<1> DEFINE i == Owner(c)
<1>1. /\ OrderIsRoom /\ SlotsAgree /\ RoomHasHost /\ RoomFits /\ GraceIsLimited
      /\ order \in Seq(Ids) /\ members \subseteq Ids /\ i \in Ids /\ c # None
      /\ client \in [Ids -> Conns \cup {None}]
      /\ pending \in [Ids -> Conns \cup {None}]
      /\ roomOf \subseteq Conns /\ pendOf \subseteq Conns
      /\ link \in [Conns -> {"unused", "open", "shut", "cut", "done"}]
  BY OwnerOK DEF TypeOK, RoomInv
<1>2. link[c] \in {"open", "shut"}
  BY DEF CreateRoom, ReclaimRoom, Rejoin, RequestJoin, Takes
<1>3. CASE CreateRoom(c)
  <2>1. /\ members = {} /\ exists' /\ hostID' = i
        /\ members' = {i} /\ order' = <<i>> /\ client' = [client EXCEPT ![i] = c]
        /\ roomOf' = roomOf \cup {c} /\ UNCHANGED <<pending, grace, link, pendOf>>
    BY <1>1, <1>3 DEF CreateRoom, RoomHasHost
  <2>2. OrderIsRoom' /\ RoomFits'
    BY <1>1, <2>1, OneMember
  <2>3. /\ \A j \in Ids : pending[j] = None
        /\ \A j \in Ids : client[j] = None
    BY <1>1, <2>1 DEF RoomHasHost, SlotsAgree
  <2>4. SlotsAgree'
    BY <1>1, <1>2, <2>1, <2>3, OwnerOK DEF SlotsAgree
  <2>5. RoomHasHost' /\ GraceIsLimited'
    BY <1>1, <2>1, <2>3 DEF RoomHasHost, GraceIsLimited, Online
  <2> QED
    BY <2>2, <2>4, <2>5 DEF RoomInv
<1>4. CASE ReclaimRoom(c)
  <2>1. /\ exists /\ exists' /\ hostID' = i /\ Attach(i, c)
        /\ UNCHANGED <<pending, pendOf>>
    BY <1>4 DEF ReclaimRoom
  <2>2. hostID = i
    BY <1>4, PresentedByHost DEF ReclaimRoom
  <2>3. pending[i] = None
    BY <1>1, <2>2 DEF RoomHasHost, SlotsAgree
  <2>4. CASE i \in members
    <3>1. UNCHANGED <<members, order>>
      BY <1>4, <2>4 DEF ReclaimRoom
    <3>2. SlotsAgree' /\ GraceIsLimited'
      BY <1>1, <1>2, <2>1, <2>3, <2>4, <3>1, AttachRoom
    <3>3. OrderIsRoom' /\ RoomFits' /\ RoomHasHost'
      BY <1>1, <2>1, <2>2, <2>4, <3>1 DEF OrderIsRoom, RoomFits, RoomHasHost
    <3> QED
      BY <3>2, <3>3 DEF RoomInv
  <2>5. CASE i \notin members
    <3>1. members = {} /\ order' = Append(order, i) /\ members' = members \cup {i}
      BY <1>1, <1>4, <2>2, <2>5 DEF ReclaimRoom, RoomHasHost
    <3>2. OrderIsRoom' /\ Cardinality(members') = Cardinality(members) + 1
      BY <1>1, <2>5, <3>1, OneMore
    <3>3. Cardinality(members) = 0
      BY <3>1, FS_EmptySet
    <3>4. RoomFits'
      BY <3>2, <3>3, RelayRoomAssumption DEF RoomFits
    <3>5. SlotsAgree' /\ GraceIsLimited'
      BY <1>1, <1>2, <2>1, <2>3, <3>1, AttachRoom
    <3>6. RoomHasHost'
      BY <2>1, <3>1 DEF RoomHasHost
    <3> QED
      BY <3>2, <3>4, <3>5, <3>6 DEF RoomInv
  <2> QED
    BY <2>4, <2>5
<1>5. CASE Rejoin(c)
  <2>1. /\ i \in members /\ Attach(i, c)
        /\ UNCHANGED <<exists, hostID, members, order, pending, pendOf>>
    BY <1>5 DEF Rejoin
  <2>2. SlotsAgree' /\ GraceIsLimited'
    <3>1. pending[i] = None
      BY <1>1, <2>1 DEF SlotsAgree
    <3> QED
      BY <1>1, <1>2, <2>1, <3>1, AttachRoom
  <2>3. OrderIsRoom' /\ RoomFits' /\ RoomHasHost'
    BY <1>1, <2>1 DEF OrderIsRoom, RoomFits, RoomHasHost
  <2> QED
    BY <2>2, <2>3 DEF RoomInv
<1>6. CASE RequestJoin(c)
  <2>1. /\ i \notin members /\ hostID \in members
        /\ pending' = [pending EXCEPT ![i] = c]
        /\ pendOf' = (pendOf \ {pending[i]}) \cup {c}
        /\ UNCHANGED <<exists, hostID, members, order, client, grace, roomOf>>
        /\ \A d \in Conns : link'[d] = "done" => link[d] = "done"
    BY <1>1, <1>6 DEF RequestJoin, HostOnline
  <2>2. SlotsAgree'
    BY <1>1, <1>2, <2>1, OwnerOK DEF SlotsAgree
  <2>3. OrderIsRoom' /\ RoomFits' /\ RoomHasHost' /\ GraceIsLimited'
    BY <1>1, <2>1 DEF OrderIsRoom, RoomFits, RoomHasHost, GraceIsLimited, Online
  <2> QED
    BY <2>2, <2>3 DEF RoomInv
<1> QED
  BY <1>3, <1>4, <1>5, <1>6

\* The kinds of requests and signals, and what they carry.
LEMMA RequestFields ==
    ASSUME NEW s \in Requests
    PROVE  /\ s.type = "host" => s.hostToken \in Nat
           /\ s.type = "join" => s.memberToken \in Nat
           /\ s.type \in {"admit", "reject", "kick"} => s.who \in Ids
BY DEF Requests

LEMMA SignalFields ==
    ASSUME NEW s \in Signals
    PROVE  /\ s.type \in {"created", "newhost"} => s.hostToken \in Nat
           /\ s.type \in {"created", "welcome"} => s.memberToken \in Nat
           /\ s.type \in {"pending", "welcome", "newhost"} => s.host \in Ids
BY DEF Signals

\* The goroutine of a connection takes a request from its queue.
LEMMA TakesOK ==
    ASSUME TypeOK, NEW c \in Conns, NEW type, Takes(c, type)
    PROVE  /\ Head(up[c]) \in Requests /\ Head(up[c]) \in Range(up[c])
           /\ Head(up[c]).type = type
           /\ Tail(up[c]) \in Seq(Requests) /\ Range(Tail(up[c])) \subseteq Range(up[c])
           /\ up' = [up EXCEPT ![c] = Tail(up[c])] /\ up' \in [Conns -> Seq(Requests)]
           /\ link[c] \in {"open", "shut"} /\ UNCHANGED <<down, node>>
<1>1. up \in [Conns -> Seq(Requests)] /\ up[c] \in Seq(Requests) /\ up[c] # <<>>
  BY DEF TypeOK, Takes
<1>2. /\ Head(up[c]) \in Requests /\ Head(up[c]) \in Range(up[c])
      /\ Tail(up[c]) \in Seq(Requests) /\ Range(Tail(up[c])) \subseteq Range(up[c])
  BY <1>1, TakeOne
<1>3. up' = [up EXCEPT ![c] = Tail(up[c])]
  BY DEF Takes
<1> QED
  BY <1>1, <1>2, <1>3 DEF Takes

\* The answers of the host: Admit, Reject, and the time-out of a request.
LEMMA AnswerRoom ==
    ASSUME TypeOK, RoomInv, NEW c \in Conns,
           Admit(c) \/ Reject(c) \/ RequestExpires(c)
    PROVE  RoomInv'
<1>1. /\ OrderIsRoom /\ SlotsAgree /\ RoomHasHost /\ RoomFits /\ GraceIsLimited
      /\ order \in Seq(Ids) /\ members \subseteq Ids
      /\ client \in [Ids -> Conns \cup {None}]
      /\ pending \in [Ids -> Conns \cup {None}]
      /\ roomOf \subseteq Conns /\ pendOf \subseteq Conns
      /\ link \in [Conns -> {"unused", "open", "shut", "cut", "done"}]
  BY DEF TypeOK, RoomInv
<1>2. ASSUME NEW j \in Ids, pending[j] # None,
             pending' = [pending EXCEPT ![j] = None], pendOf' = pendOf \ {pending[j]},
             UNCHANGED <<exists, hostID, members, order, client, grace, link, roomOf>>
      PROVE  RoomInv'
  <2>1. pending[j] \in Conns /\ Owner(pending[j]) = j
    BY <1>1, <1>2 DEF SlotsAgree
  <2>2. SlotsAgree'
    BY <1>1, <1>2, <2>1, OwnerOK DEF SlotsAgree
  <2>3. OrderIsRoom' /\ RoomFits' /\ RoomHasHost' /\ GraceIsLimited'
    BY <1>1, <1>2 DEF OrderIsRoom, RoomFits, RoomHasHost, GraceIsLimited, Online
  <2> QED
    BY <2>2, <2>3 DEF RoomInv
<1>3. CASE Reject(c)
  <2>1. Head(up[c]).who \in Ids
    BY <1>3, TakesOK, RequestFields DEF Reject
  <2> QED
    BY <1>2, <1>3, <2>1 DEF Reject
<1>4. CASE RequestExpires(c)
  <2>1. Owner(c) \in Ids /\ c # None
    BY OwnerOK
  <2> QED
    BY <1>2, <1>4, <2>1 DEF RequestExpires
<1>5. CASE Admit(c)
  <2> DEFINE j == Head(up[c]).who
             d == pending[j]
  <2>1. j \in Ids
    BY <1>5, TakesOK, RequestFields DEF Admit
  <2>2. CASE Cardinality(members) >= MaxMembers
    BY <1>2, <1>5, <2>1, <2>2 DEF Admit
  <2>3. CASE ~(Cardinality(members) >= MaxMembers)
    <3>1. /\ pending' = [pending EXCEPT ![j] = None] /\ pendOf' = pendOf \ {d}
          /\ members' = members \cup {j} /\ order' = Append(order, j)
          /\ client' = [client EXCEPT ![j] = d] /\ roomOf' = roomOf \cup {d}
          /\ UNCHANGED <<exists, hostID, grace, link>> /\ d # None
          /\ hostID = Owner(c) /\ c \in roomOf
      BY <1>5, <2>3 DEF Admit, ByHost
    <3>2. /\ d \in Conns /\ Owner(d) = j /\ j \notin members /\ d \in pendOf
          /\ link[d] # "done" /\ client[j] = None
      BY <1>1, <2>1, <3>1 DEF SlotsAgree
    <3>3. OrderIsRoom' /\ Cardinality(members') = Cardinality(members) + 1
      BY <1>1, <2>1, <3>1, <3>2, OneMore
    <3>4. RoomFits'
      <4>1. Cardinality(members) \in Nat
        BY <1>1, LenProperties DEF OrderIsRoom
      <4> QED
        BY <2>3, <3>3, <4>1, RelayRoomAssumption DEF RoomFits
    <3>5. SlotsAgree'
      BY <1>1, <2>1, <3>1, <3>2, OwnerOK DEF SlotsAgree
    <3>6. RoomHasHost'
      <4>1. hostID \in members
        BY <1>1, <3>1, OwnerOK DEF SlotsAgree
      <4> QED
        BY <1>1, <3>1, <4>1 DEF RoomHasHost
    <3>7. GraceIsLimited'
      BY <1>1, <2>1, <3>1, <3>2 DEF GraceIsLimited, Online
    <3> QED
      BY <3>3, <3>4, <3>5, <3>6, <3>7 DEF RoomInv
  <2> QED
    BY <2>2, <2>3
<1> QED
  BY <1>3, <1>4, <1>5

\* Kick, and the end of a grace period.
LEMMA GoRoom ==
    ASSUME TypeOK, RoomInv,
           (\E c \in Conns : Kick(c)) \/ (\E i \in Ids : GraceEnds(i))
    PROVE  RoomInv'
<1>1. ASSUME NEW c \in Conns, Kick(c) PROVE RoomInv'
  BY <1>1, RemoveMemberRoom DEF Kick
<1>2. ASSUME NEW i \in Ids, GraceEnds(i) PROVE RoomInv'
  <2>1. CASE i \in members /\ client[i] = None
    <3>1. roomOf' = roomOf \ {client[i]}
      BY <1>2, <2>1, RelayRoomAssumption DEF GraceEnds, TypeOK
    <3> QED
      BY <1>2, <2>1, <3>1, RemoveMemberRoom DEF GraceEnds
  <2>2. CASE ~(i \in members /\ client[i] = None)
    BY <1>2, <2>2
       DEF GraceEnds, RoomInv, OrderIsRoom, SlotsAgree, RoomHasHost, RoomFits,
           GraceIsLimited, Online
  <2> QED
    BY <2>1, <2>2
<1> QED
  BY <1>1, <1>2

\* A signal the relay handles, a timer, a notice or a broken connection leaves
\* the room in order.
LEMMA ServerRoom ==
    ASSUME TypeOK, RoomInv, TokenInv, ServerStep
    PROVE  RoomInv'
<1>1. ASSUME NEW c \in Conns, HandleSignal(c) PROVE RoomInv'
  <2>1. CASE CreateRoom(c) \/ ReclaimRoom(c) \/ Rejoin(c) \/ RequestJoin(c)
    BY <2>1, ComeInRoom
  <2>2. CASE RefuseHost(c) \/ RefuseJoin(c) \/ Ignore(c)
    BY <2>2, RoomFrame DEF RefuseHost, RefuseJoin, Ignore, roomVars, connVars
  <2>3. CASE Admit(c) \/ Reject(c)
    BY <2>3, AnswerRoom
  <2>4. CASE Kick(c)
    BY <2>4, GoRoom
  <2>5. CASE Leave(c)
    BY <2>5, DetachRoom DEF Leave
  <2> QED
    BY <1>1, <2>1, <2>2, <2>3, <2>4, <2>5 DEF HandleSignal
<1>2. ASSUME NEW c \in Conns, Disconnect(c) PROVE RoomInv'
  <2>1. \A d \in Conns : link'[d] = "done" => link[d] = "done" \/ d = c
    BY <1>2 DEF Disconnect, TypeOK
  <2> QED
    BY <1>2, <2>1, DetachRoom DEF Disconnect
<1>3. ASSUME NEW c \in Conns, RequestExpires(c) PROVE RoomInv'
  BY <1>3, AnswerRoom
<1>4. ASSUME NEW i \in Ids, GraceEnds(i) PROVE RoomInv'
  BY <1>4, GoRoom
<1>5. ASSUME NEW g \in Threads, Send(g) PROVE RoomInv'
  BY <1>5, RoomFrame DEF Send, roomVars, connVars
<1>6. CASE CloseRoom
  BY <1>6 DEF CloseRoom, connVars, RoomInv, OrderIsRoom, SlotsAgree, RoomHasHost,
              RoomFits, GraceIsLimited, Online
<1> QED
  BY <1>1, <1>2, <1>3, <1>4, <1>5, <1>6 DEF ServerStep

\* What the nodes and the network do only changes connections, and finishes
\* with none.
LEMMA NodeRoom ==
    ASSUME TypeOK, RoomInv, NEW i \in Ids, NodeStep(i)
    PROVE  RoomInv'
<1>1. UNCHANGED serverVars
  BY DEF NodeStep, StartHost, StartJoin, Connect, GoAway, CancelJoin, Receive,
         Handshake, KickMember
<1>2. \A c \in Conns : link'[c] = "done" => link[c] = "done"
  <2>1. link \in [Conns -> {"unused", "open", "shut", "cut", "done"}]
    BY DEF TypeOK
  <2>2. \/ UNCHANGED link
        \/ \E c : link' = [link EXCEPT ![c] = "shut"]
        \/ \E c : link' = [link EXCEPT ![c] = "open"]
    BY DEF NodeStep, StartHost, StartJoin, Connect, GoAway, CancelJoin, Receive,
           Handshake, KickMember, Shut, LeaveRoom, FailJoin
  <2> QED
    BY <2>1, <2>2
<1> QED
  BY <1>1, <1>2, RoomFrame DEF serverVars, roomVars

-----------------------------------------------------------------------------
(* Types                                                                   *)

Notices == [to : Conns, sig : Signals]

\* Whatever the relay says is a signal to a connection.
LEMMA NoticesOK ==
    ASSUME NEW c \in Conns, NEW t \in Nat, NEW m \in Nat, NEW h \in Ids
    PROVE  /\ Notice(c, Refused) \in Notices
           /\ Notice(c, Created(t, m)) \in Notices
           /\ Notice(c, Welcome(h, m)) \in Notices
           /\ Notice(c, NewHost(h, t)) \in Notices
           /\ Notice(c, [type |-> "inuse"]) \in Notices
           /\ Notice(c, [type |-> "kicked"]) \in Notices
           /\ Notice(c, [type |-> "pending", host |-> h]) \in Notices
BY DEF Notice, Refused, Created, Welcome, NewHost, Notices, Signals

\* The part of the types that the handlers of the relay change.
ServerTypes ==
    /\ exists \in BOOLEAN
    /\ hostID \in Ids \cup {None} /\ hostToken \in Nat
    /\ members \in SUBSET Ids /\ order \in Seq(Ids)
    /\ client \in [Ids -> Conns \cup {None}]
    /\ token \in [Ids -> Nat]
    /\ pending \in [Ids -> Conns \cup {None}]
    /\ grace \in SUBSET Ids
    /\ roomOf \in SUBSET Conns /\ pendOf \in SUBSET Conns
    /\ out \in [Threads -> SUBSET Notices]

\* What a node may be and believe.
Node == [state : {"out", "joining", "keyed", "in", "moved"},
         isHost : BOOLEAN, hostToken : Nat, memberToken : Nat,
         action : {"host", "join"}, conn : Conns \cup {None},
         asked : Ids \cup {None}]

\* The part of the types that the nodes and the network change.
NodeTypes ==
    /\ link \in [Conns -> {"unused", "open", "shut", "cut", "done"}]
    /\ up \in [Conns -> Seq(Requests)]
    /\ down \in [Conns -> Seq(Signals)]
    /\ node \in [Ids -> Node]

\* Together they are all of them.
LEMMA TypeParts == /\ TypeOK <=> ServerTypes /\ NodeTypes
                   /\ TypeOK' <=> ServerTypes' /\ NodeTypes'
BY DEF TypeOK, ServerTypes, NodeTypes, Notices, Node

\* removeMemberLocked.
LEMMA RemoveMemberTypes ==
    ASSUME TypeOK, RoomInv, NEW g \in Threads, NEW i \in members,
           NEW said \in SUBSET Notices, RemoveMember(g, i, said),
           roomOf' \in SUBSET Conns
    PROVE  ServerTypes'
<1>1. /\ ServerTypes /\ OrderIsRoom /\ i \in Ids
  BY TypeParts DEF RoomInv, ServerTypes
<1>2. /\ members' \in SUBSET Ids /\ client' \in [Ids -> Conns \cup {None}]
      /\ grace' \in SUBSET Ids /\ exists' \in BOOLEAN /\ token' \in [Ids -> Nat]
  BY <1>1 DEF RemoveMember, ServerTypes
<1>3. order' \in Seq(Ids)
  BY <1>1, OneLess DEF RemoveMember, ServerTypes
<1>4. members \ {i} # {} => NextHost(i) \in Ids
  BY <1>1, NextHostOK DEF ServerTypes
<1>5. hostID' \in Ids \cup {None} /\ hostToken' \in Nat
  BY <1>1, <1>4 DEF RemoveMember, ServerTypes
<1>6. pending' \in [Ids -> Conns \cup {None}] /\ pendOf' \in SUBSET Conns
  BY <1>1 DEF RemoveMember, ServerTypes
<1>7. out' \in [Threads -> SUBSET Notices]
  <2>1. RejectAll \in SUBSET Notices
    <3>1. \A j \in Waiting : pending[j] \in Conns
      BY <1>1 DEF Waiting, ServerTypes
    <3>2. \A c \in Conns : Notice(c, Refused) \in Notices
      BY DEF Notice, Refused, Notices, Signals
    <3> QED
      BY <3>1, <3>2 DEF RejectAll
  <2>2. members \ {i} # {} =>
          {Notice(client[j], NewHost(NextHost(i), IF j = NextHost(i) THEN hostToken' ELSE 0)) :
              j \in Online \ {i}} \in SUBSET Notices
    <3>1. \A j \in Online : client[j] \in Conns
      BY <1>1 DEF Online, ServerTypes
    <3>2. ASSUME members \ {i} # {}, NEW j \in Online
          PROVE  Notice(client[j], NewHost(NextHost(i), IF j = NextHost(i) THEN hostToken' ELSE 0))
                     \in Notices
      <4>1. (IF j = NextHost(i) THEN hostToken' ELSE 0) \in Nat
        BY <1>5
      <4> QED
        BY <1>4, <3>1, <3>2, <4>1, NoticesOK
    <3> QED
      BY <3>2
  <2> QED
    BY <1>1, <2>1, <2>2 DEF RemoveMember, ServerTypes
<1> QED
  BY <1>2, <1>3, <1>5, <1>6, <1>7 DEF ServerTypes

\* onDisconnect and leave.
LEMMA DetachTypes ==
    ASSUME TypeOK, RoomInv, NEW c \in Conns, NEW explicit, Detach(c, explicit)
    PROVE  ServerTypes'
<1> DEFINE i == Owner(c)
<1>1. ServerTypes /\ i \in Ids /\ c \in Threads
  BY TypeParts, OwnerOK
<1>2. roomOf' \in SUBSET Conns
  BY <1>1 DEF Detach, ServerTypes
<1>3. CASE c \in roomOf /\ i \in members /\ client[i] = c /\ explicit
  BY <1>1, <1>2, <1>3, RemoveMemberTypes DEF Detach
<1>4. CASE ~(c \in roomOf /\ i \in members /\ client[i] = c /\ explicit)
  BY <1>1, <1>2, <1>4 DEF Detach, ServerTypes
<1> QED
  BY <1>3, <1>4

\* The handlers of the relay keep its own state well formed.
LEMMA HandleTypes ==
    ASSUME TypeOK, RoomInv, NEW c \in Conns, HandleSignal(c)
    PROVE  ServerTypes'
<1> DEFINE i == Owner(c)
           s == Head(up[c])
<1>1. /\ ServerTypes /\ NodeTypes /\ i \in Ids /\ c \in Threads
      /\ RoomHasHost /\ SlotsAgree /\ OrderIsRoom
  BY TypeParts, OwnerOK DEF RoomInv
<1>2. ASSUME NEW ns, ns \in SUBSET Notices, Says(c, ns)
      PROVE  out' \in [Threads -> SUBSET Notices]
  BY <1>1, <1>2 DEF Says, ServerTypes
<1>3. CASE CreateRoom(c)
  <2>1. hostToken' \in Nat /\ token' \in [Ids -> Nat] /\ token'[i] \in Nat
    BY <1>1, <1>3 DEF CreateRoom, ServerTypes
  <2>2. out' \in [Threads -> SUBSET Notices]
    <3>1. {Notice(c, Created(hostToken', token'[i]))} \in SUBSET Notices
      BY <1>1, <2>1, NoticesOK
    <3> QED
      BY <1>2, <1>3, <3>1 DEF CreateRoom
  <2>3. order' \in Seq(Ids)
    BY <1>1, <1>3 DEF CreateRoom
  <2> QED
    BY <1>1, <1>3, <2>1, <2>2, <2>3 DEF CreateRoom, ServerTypes
<1>4. CASE ReclaimRoom(c)
  <2>1. token' \in [Ids -> Nat] /\ token'[i] \in Nat /\ hostToken \in Nat
    <3>1. token' = token \/ token' = [token EXCEPT ![i] = @ + 1]
      BY <1>4 DEF ReclaimRoom
    <3> QED
      BY <1>1, <3>1 DEF ServerTypes
  <2>2. out' \in [Threads -> SUBSET Notices]
    <3>1. {Notice(c, Created(hostToken, token'[i]))} \in SUBSET Notices
      BY <1>1, <2>1, NoticesOK
    <3> QED
      BY <1>2, <1>4, <3>1 DEF ReclaimRoom
  <2>3. order' \in Seq(Ids)
    <3>1. Append(order, i) \in Seq(Ids)
      BY <1>1 DEF ServerTypes
    <3> QED
      BY <1>1, <1>4, <3>1 DEF ReclaimRoom, ServerTypes
  <2>4. /\ client' \in [Ids -> Conns \cup {None}] /\ roomOf' \in SUBSET Conns
        /\ grace' \in SUBSET Ids
    BY <1>1, <1>4 DEF ReclaimRoom, Attach, ServerTypes
  <2>5. members' \in SUBSET Ids
    BY <1>1, <1>4 DEF ReclaimRoom, ServerTypes
  <2> QED
    BY <1>1, <1>4, <2>1, <2>2, <2>3, <2>4, <2>5 DEF ReclaimRoom, ServerTypes
<1>5. CASE RefuseHost(c)
  <2>1. {Notice(c, [type |-> "inuse"])} \in SUBSET Notices
    BY <1>1, NoticesOK
  <2> QED
    BY <1>1, <1>2, <1>5, <2>1 DEF RefuseHost, roomVars, connVars, ServerTypes
<1>6. CASE Rejoin(c)
  <2>1. hostID \in Ids /\ token[i] \in Nat
    BY <1>1, <1>6 DEF Rejoin, RoomHasHost, ServerTypes
  <2>2. out' \in [Threads -> SUBSET Notices]
    <3>1. {Notice(c, Welcome(hostID, token[i]))} \in SUBSET Notices
      BY <1>1, <2>1, NoticesOK
    <3> QED
      BY <1>2, <1>6, <3>1 DEF Rejoin
  <2> QED
    BY <1>1, <1>6, <2>2 DEF Rejoin, Attach, ServerTypes
<1>7. CASE RequestJoin(c)
  <2>1. hostID \in Ids
    BY <1>1, <1>7 DEF RequestJoin, HostOnline, ServerTypes
  <2>2. out' \in [Threads -> SUBSET Notices]
    <3>1. {Notice(c, [type |-> "pending", host |-> hostID])} \in SUBSET Notices
      BY <1>1, <2>1, NoticesOK
    <3> QED
      BY <1>2, <1>7, <3>1 DEF RequestJoin
  <2> QED
    BY <1>1, <1>7, <2>2 DEF RequestJoin, ServerTypes
<1>8. CASE RefuseJoin(c)
  <2>1. {Notice(c, Refused)} \in SUBSET Notices
    BY <1>1, NoticesOK
  <2> QED
    BY <1>1, <1>2, <1>8, <2>1 DEF RefuseJoin, roomVars, connVars, ServerTypes
<1>9. ASSUME Takes(c, "admit") \/ Takes(c, "reject") \/ Takes(c, "kick")
      PROVE  s.who \in Ids
  BY <1>9, TakesOK, RequestFields
<1>10. CASE Reject(c)
  <2>1. s.who \in Ids /\ pending[s.who] \in Conns
    BY <1>1, <1>9, <1>10 DEF Reject, ServerTypes
  <2>2. {Notice(pending[s.who], Refused)} \in SUBSET Notices
    BY <1>1, <2>1, NoticesOK
  <2> QED
    BY <1>1, <1>2, <1>10, <2>1, <2>2 DEF Reject, ServerTypes
<1>11. CASE Admit(c)
  <2> DEFINE j == s.who
             d == pending[j]
  <2>1. j \in Ids /\ d \in Conns /\ hostID \in Ids
    BY <1>1, <1>9, <1>11 DEF Admit, ByHost, ServerTypes
  <2>2. CASE Cardinality(members) >= MaxMembers
    <3>1. {Notice(d, Refused)} \in SUBSET Notices
      BY <2>1, NoticesOK
    <3> QED
      BY <1>1, <1>2, <1>11, <2>1, <2>2, <3>1 DEF Admit, ServerTypes
  <2>3. CASE ~(Cardinality(members) >= MaxMembers)
    <3>1. token' \in [Ids -> Nat] /\ token'[j] \in Nat
      BY <1>1, <1>11, <2>1, <2>3 DEF Admit, ServerTypes
    <3>2. {Notice(d, Welcome(hostID, token'[j]))} \in SUBSET Notices
      BY <1>1, <2>1, <3>1, NoticesOK
    <3>3. out' \in [Threads -> SUBSET Notices]
      BY <1>2, <1>11, <2>3, <3>2 DEF Admit
    <3>4. Append(order, j) \in Seq(Ids)
      BY <1>1, <2>1 DEF ServerTypes
    <3> QED
      BY <1>1, <1>11, <2>1, <2>3, <3>1, <3>3, <3>4 DEF Admit, ServerTypes
  <2> QED
    BY <2>2, <2>3
<1>12. CASE Kick(c)
  <2> DEFINE j == s.who
             said == IF client[j] # None THEN {Notice(client[j], [type |-> "kicked"])}
                     ELSE {}
  <2>1. /\ j \in members /\ RemoveMember(c, j, said)
        /\ roomOf' = roomOf \ {client[j]}
    BY <1>12 DEF Kick
  <2>2. said \in SUBSET Notices
    BY <1>1, <2>1, NoticesOK DEF ServerTypes
  <2>3. roomOf' \in SUBSET Conns
    BY <1>1, <2>1 DEF ServerTypes
  <2> HIDE DEF said
  <2> QED
    BY <1>1, <2>1, <2>2, <2>3, RemoveMemberTypes
<1>13. CASE Ignore(c)
  BY <1>1, <1>13 DEF Ignore, roomVars, connVars, ServerTypes
<1>14. CASE Leave(c)
  BY <1>14, DetachTypes DEF Leave
<1> QED
  BY <1>3, <1>4, <1>5, <1>6, <1>7, <1>8, <1>10, <1>11, <1>12, <1>13, <1>14
     DEF HandleSignal

\* The relay keeps every type.
LEMMA ServerStepTypes ==
    ASSUME TypeOK, RoomInv, ServerStep
    PROVE  TypeOK'
<1>1. ServerTypes /\ NodeTypes
  BY TypeParts
<1>2. ASSUME NEW c \in Conns, HandleSignal(c) PROVE TypeOK'
  <2>1. ServerTypes'
    BY <1>2, HandleTypes
  <2>2. \E type : Takes(c, type)
    BY <1>2 DEF HandleSignal, CreateRoom, ReclaimRoom, RefuseHost, Rejoin,
                RequestJoin, RefuseJoin, Admit, Reject, Kick, Ignore, Leave
  <2>3. up' \in [Conns -> Seq(Requests)] /\ UNCHANGED <<down, node>>
    BY <2>2, TakesOK
  <2>4. \/ UNCHANGED link
        \/ \E d : link' = [link EXCEPT ![d] = "cut"]
    BY <1>2 DEF HandleSignal, CreateRoom, ReclaimRoom, RefuseHost, Rejoin,
                RequestJoin, RefuseJoin, Admit, Reject, Kick, Ignore, Leave,
                Attach, connVars
  <2>5. link' \in [Conns -> {"unused", "open", "shut", "cut", "done"}]
    BY <1>1, <2>4 DEF NodeTypes
  <2> QED
    BY <1>1, <2>1, <2>3, <2>5, TypeParts DEF NodeTypes
<1>3. ASSUME NEW c \in Conns, Disconnect(c) PROVE TypeOK'
  <2>1. ServerTypes'
    BY <1>3, DetachTypes DEF Disconnect
  <2>2. <<>> \in Seq(Requests) /\ <<>> \in Seq(Signals)
    OBVIOUS
  <2>3. NodeTypes'
    BY <1>1, <1>3, <2>2 DEF Disconnect, NodeTypes
  <2> QED
    BY <2>1, <2>3, TypeParts
<1>4. ASSUME NEW c \in Conns, RequestExpires(c) PROVE TypeOK'
  <2>1. {Notice(c, Refused)} \in SUBSET Notices
    BY <1>1, NoticesOK, OwnerOK DEF ServerTypes
  <2>2. ServerTypes'
    BY <1>1, <1>4, <2>1, OwnerOK DEF RequestExpires, Says, ServerTypes
  <2> QED
    BY <1>1, <1>4, <2>2, TypeParts DEF RequestExpires, NodeTypes
<1>5. ASSUME NEW i \in Ids, GraceEnds(i) PROVE TypeOK'
  <2>1. i \in Threads
    BY DEF Threads
  <2>2. CASE i \in members /\ client[i] = None
    BY <1>1, <1>5, <2>1, <2>2, RemoveMemberTypes, TypeParts
       DEF GraceEnds, ServerTypes, NodeTypes
  <2>3. CASE ~(i \in members /\ client[i] = None)
    BY <1>1, <1>5, <2>3, TypeParts DEF GraceEnds, ServerTypes, NodeTypes
  <2> QED
    BY <2>2, <2>3
<1>6. ASSUME NEW g \in Threads, Send(g) PROVE TypeOK'
  <2>1. PICK n \in out[g] :
          /\ out' = [out EXCEPT ![g] = @ \ {n}]
          /\ down' = IF link[n.to] = "open"
                     THEN [down EXCEPT ![n.to] = Append(@, n.sig)] ELSE down
          /\ UNCHANGED <<roomVars, connVars, up, node>>
    BY <1>6 DEF Send
  <2>2. n.to \in Conns /\ n.sig \in Signals
    BY <1>1, <2>1 DEF ServerTypes, Notices
  <2>3. Append(down[n.to], n.sig) \in Seq(Signals)
    BY <1>1, <2>2, PutOne DEF NodeTypes
  <2>4. down' \in [Conns -> Seq(Signals)]
    BY <1>1, <2>1, <2>2, <2>3 DEF NodeTypes
  <2>5. out' \in [Threads -> SUBSET Notices]
    BY <1>1, <2>1 DEF ServerTypes
  <2> QED
    BY <1>1, <2>1, <2>4, <2>5, TypeParts DEF roomVars, connVars, ServerTypes, NodeTypes
<1>7. CASE CloseRoom
  BY <1>1, <1>7, TypeParts DEF CloseRoom, connVars, ServerTypes, NodeTypes
<1> QED
  BY <1>2, <1>3, <1>4, <1>5, <1>6, <1>7 DEF ServerStep

\* A node that shuts its connection keeps the types.
LEMMA ShutTypes ==
    ASSUME TypeOK, NEW i \in Ids, NEW last \in Seq(Requests), Shut(i, last)
    PROVE  /\ link' \in [Conns -> {"unused", "open", "shut", "cut", "done"}]
           /\ up' \in [Conns -> Seq(Requests)]
           /\ down' \in [Conns -> Seq(Signals)]
<1>1. NodeTypes
  BY TypeParts
<1>2. <<>> \in Seq(Signals)
  OBVIOUS
<1>3. \A c \in Conns : up[c] \o last \in Seq(Requests)
  BY <1>1, ConcatProperties DEF NodeTypes
<1>4. CASE Connected(i)
  <2> DEFINE c == node[i].conn
             u == up[c] \o last
  <2>1. c \in Conns
    BY <1>1, <1>4 DEF Connected, NodeTypes, Node
  <2>2. u \in Seq(Requests)
    BY <1>3, <2>1
  <2>3. /\ link' = [link EXCEPT ![c] = "shut"] /\ up' = [up EXCEPT ![c] = u]
        /\ down' = [down EXCEPT ![c] = <<>>]
    BY <1>4 DEF Shut
  <2> HIDE DEF c, u
  <2> QED
    BY <1>1, <1>2, <2>1, <2>2, <2>3 DEF NodeTypes
<1>5. CASE ~Connected(i)
  BY <1>1, <1>5 DEF Shut, NodeTypes
<1> QED
  BY <1>4, <1>5

\* Nodes that give up, start, or start over are well formed.
LEMMA IdleOK ==
    ASSUME NEW n \in Node
    PROVE  /\ Idle \in Node /\ [Idle EXCEPT !.state = "moved"] \in Node
           /\ [Idle EXCEPT !.hostToken = n.hostToken] \in Node
           /\ [Idle EXCEPT !.state = "in", !.isHost = TRUE, !.action = "host",
                           !.hostToken = n.hostToken] \in Node
           /\ [Idle EXCEPT !.state = "joining", !.hostToken = n.hostToken] \in Node
BY DEF Idle, Node

\* leaveRoom and failJoin of a node.
LEMMA GiveUpTypes ==
    ASSUME TypeOK, NEW i \in Ids, Connected(i), down[node[i].conn] # <<>>,
           LeaveRoom(i) \/ FailJoin(i)
    PROVE  NodeTypes'
<1>1. NodeTypes /\ node[i] \in Node /\ node \in [Ids -> Node] /\ node[i].conn \in Conns
  BY TypeParts DEF NodeTypes, Node, Connected
<1>2. <<[type |-> "leave"]>> \in Seq(Requests)
  BY DEF Requests
<1>3. Shut(i, <<[type |-> "leave"]>>) /\ node' \in [Ids -> Node] => NodeTypes'
  BY <1>2, ShutTypes DEF NodeTypes
<1>4. CASE LeaveRoom(i) \/ (FailJoin(i) /\ node[i].state \in {"joining", "keyed"})
  <2>1. /\ Shut(i, <<[type |-> "leave"]>>)
        /\ \/ node' = [node EXCEPT ![i] = Idle]
           \/ node' = [node EXCEPT ![i] = [Idle EXCEPT !.hostToken = node[i].hostToken]]
    BY <1>4 DEF LeaveRoom, FailJoin
  <2>2. Idle \in Node /\ [Idle EXCEPT !.hostToken = node[i].hostToken] \in Node
    BY <1>1, IdleOK
  <2>3. node' \in [Ids -> Node]
    BY <1>1, <2>1, <2>2
  <2> QED
    BY <1>3, <2>1, <2>3
<1>5. CASE FailJoin(i) /\ node[i].state \notin {"joining", "keyed"}
  <2>1. Tail(down[node[i].conn]) \in Seq(Signals)
    BY <1>1, TakeOne DEF NodeTypes
  <2>2. /\ down' = [down EXCEPT ![node[i].conn] = Tail(down[node[i].conn])]
        /\ UNCHANGED <<node, link, up>>
    BY <1>5 DEF FailJoin
  <2> QED
    BY <1>1, <2>1, <2>2 DEF NodeTypes
<1> QED
  BY <1>4, <1>5

\* handleRelaySignal.
LEMMA ReceiveTypes ==
    ASSUME TypeOK, NEW i \in Ids, Receive(i)
    PROVE  NodeTypes'
<1> DEFINE c == node[i].conn
           n == node[i]
           s == Head(down[c])
<1>1. /\ NodeTypes /\ n \in Node /\ node \in [Ids -> Node] /\ c \in Conns
      /\ Connected(i) /\ down[c] # <<>>
  BY TypeParts DEF NodeTypes, Node, Connected, Receive
<1>2. s \in Signals /\ Tail(down[c]) \in Seq(Signals)
  BY <1>1, TakeOne DEF NodeTypes
<1>3. ASSUME NEW m \in Node, node' = [node EXCEPT ![i] = m],
             down' = [down EXCEPT ![c] = Tail(@)], UNCHANGED <<link, up>>
      PROVE  NodeTypes'
  BY <1>1, <1>2, <1>3 DEF NodeTypes, Node
<1>4. CASE LeaveRoom(i) \/ FailJoin(i)
  BY <1>1, <1>4, GiveUpTypes
<1>5. CASE Shut(i, <<>>) /\ node' = [node EXCEPT ![i] = [Idle EXCEPT !.state = "moved"]]
  <2>1. <<>> \in Seq(Requests)
    OBVIOUS
  <2>2. node' \in [Ids -> Node]
    BY <1>1, <1>5, IdleOK
  <2> QED
    BY <1>1, <1>5, <2>1, <2>2, ShutTypes DEF NodeTypes
<1>6. CASE \E m \in Node : /\ node' = [node EXCEPT ![i] = m]
                           /\ down' = [down EXCEPT ![c] = Tail(@)]
                           /\ UNCHANGED <<link, up>>
  BY <1>3, <1>6
<1>7. /\ s.type = "pending" => [n EXCEPT !.asked = s.host] \in Node
      /\ s.type = "created" => [n EXCEPT !.hostToken = s.hostToken,
                                         !.memberToken = s.memberToken] \in Node
      /\ s.type = "welcome" =>
            /\ [n EXCEPT !.memberToken = s.memberToken,
                         !.state = "in", !.isHost = FALSE] \in Node
            /\ [n EXCEPT !.memberToken = s.memberToken] \in Node
      /\ s.type = "newhost" =>
            [n EXCEPT !.isHost = (s.host = i),
                      !.hostToken = IF s.host = i /\ s.hostToken # 0
                                    THEN s.hostToken ELSE @] \in Node
  BY <1>1, <1>2, SignalFields DEF Node
<1>8. CASE s.type = "pending"
  BY <1>1, <1>6, <1>7, <1>8 DEF Receive
<1>9. CASE s.type = "created"
  BY <1>1, <1>6, <1>7, <1>9 DEF Receive
<1>10. CASE s.type = "welcome"
  BY <1>1, <1>4, <1>6, <1>7, <1>10 DEF Receive
<1>11. CASE s.type = "newhost"
  BY <1>1, <1>6, <1>7, <1>11 DEF Receive
<1>12. CASE s.type = "inuse"
  BY <1>4, <1>5, <1>12 DEF Receive
<1>13. CASE s.type = "kicked"
  BY <1>1, <1>4, <1>6, <1>13 DEF Receive
<1>14. CASE s.type = "refused"
  BY <1>4, <1>14 DEF Receive
<1> QED
  BY <1>8, <1>9, <1>10, <1>11, <1>12, <1>13, <1>14 DEF Receive

\* The nodes keep every type.
LEMMA NodeStepTypes ==
    ASSUME TypeOK, NEW i \in Ids, NodeStep(i)
    PROVE  TypeOK'
<1>1. /\ ServerTypes /\ NodeTypes /\ node[i] \in Node /\ node \in [Ids -> Node]
  BY TypeParts DEF NodeTypes, Node
<1>2. UNCHANGED serverVars => ServerTypes'
  BY <1>1 DEF serverVars, roomVars, ServerTypes
<1>3. <<>> \in Seq(Requests) /\ <<[type |-> "leave"]>> \in Seq(Requests)
  BY DEF Requests
<1>4. CASE StartHost(i) \/ StartJoin(i)
  <2>1. Shut(i, <<>>) /\ UNCHANGED serverVars
    BY <1>4 DEF StartHost, StartJoin
  <2>2. node' \in [Ids -> Node]
    BY <1>1, <1>4, IdleOK DEF StartHost, StartJoin
  <2> QED
    BY <1>2, <1>3, <2>1, <2>2, ShutTypes, TypeParts DEF NodeTypes
<1>5. CASE Connect(i)
  <2>1. PICK c \in Conns :
          /\ link' = [link EXCEPT ![c] = "open"]
          /\ node' = [node EXCEPT ![i].conn = c]
          /\ up' = [up EXCEPT ![c] =
                <<IF node[i].action = "host" \/ node[i].isHost
                  THEN [type |-> "host", hostToken |-> node[i].hostToken]
                  ELSE [type |-> "join", memberToken |-> node[i].memberToken]>>]
    BY <1>5 DEF Connect
  <2>2. (IF node[i].action = "host" \/ node[i].isHost
         THEN [type |-> "host", hostToken |-> node[i].hostToken]
         ELSE [type |-> "join", memberToken |-> node[i].memberToken]) \in Requests
    BY <1>1 DEF Node, Requests
  <2>3. [node[i] EXCEPT !.conn = c] \in Node
    BY <1>1 DEF Node
  <2>4. /\ link' \in [Conns -> {"unused", "open", "shut", "cut", "done"}]
        /\ node' \in [Ids -> Node] /\ up' \in [Conns -> Seq(Requests)]
    BY <1>1, <2>1, <2>2, <2>3 DEF NodeTypes
  <2>5. NodeTypes'
    BY <1>1, <1>5, <2>4 DEF Connect, NodeTypes
  <2> QED
    BY <1>2, <1>5, <2>5, TypeParts DEF Connect
<1>6. CASE GoAway(i)
  <2>1. Shut(i, <<[type |-> "leave"]>>) /\ UNCHANGED serverVars
    BY <1>6 DEF GoAway, LeaveRoom
  <2>2. node' \in [Ids -> Node]
    BY <1>1, <1>6, IdleOK DEF GoAway, LeaveRoom
  <2> QED
    BY <1>2, <1>3, <2>1, <2>2, ShutTypes, TypeParts DEF NodeTypes
<1>7. CASE CancelJoin(i)
  <2>1. [node[i] EXCEPT !.state = "out", !.asked = None] \in Node
    BY <1>1 DEF Node
  <2> QED
    BY <1>1, <1>2, <1>7, <2>1, TypeParts DEF CancelJoin, NodeTypes
<1>8. CASE Receive(i)
  BY <1>2, <1>8, ReceiveTypes, TypeParts DEF Receive
<1>9. ASSUME NEW j \in Ids, Handshake(i, j) PROVE TypeOK'
  <2> DEFINE c == node[i].conn
             d == node[j].conn
  <2>1. /\ c \in Conns /\ d \in Conns /\ node[j] \in Node
        /\ up[c] \in Seq(Requests) /\ up[d] \in Seq(Requests)
    BY <1>1, <1>9 DEF Handshake, Connected, NodeTypes, Node
  <2>2. /\ [type |-> "admit", who |-> j] \in Requests
        /\ [type |-> "reject", who |-> j] \in Requests
        /\ [type |-> "leave"] \in Requests
    BY DEF Requests
  <2>3. /\ Append(up[c], [type |-> "admit", who |-> j]) \in Seq(Requests)
        /\ Append(up[c], [type |-> "reject", who |-> j]) \in Seq(Requests)
        /\ Append(up[d], [type |-> "leave"]) \in Seq(Requests)
    BY <2>1, <2>2, PutOne
  <2>4. up' \in [Conns -> Seq(Requests)]
    <3> DEFINE u == Append(up[c], [type |-> "admit", who |-> j])
               v == Append(up[c], [type |-> "reject", who |-> j])
               w == Append(up[d], [type |-> "leave"])
    <3>1. \/ up' = [up EXCEPT ![c] = u]
          \/ up' = [up EXCEPT ![c] = v]
          \/ up' = [up EXCEPT ![c] = v, ![d] = w]
      BY <1>9 DEF Handshake
    <3>2. u \in Seq(Requests) /\ v \in Seq(Requests) /\ w \in Seq(Requests)
      BY <2>3
    <3>3. up \in [Conns -> Seq(Requests)]
      BY <1>1 DEF NodeTypes
    <3> HIDE DEF c, d, u, v, w
    <3> QED
      BY <2>1, <3>1, <3>2, <3>3
  <2>5. node' \in [Ids -> Node]
    <3>1. /\ [node[j] EXCEPT !.state = "keyed"] \in Node
          /\ [node[j] EXCEPT !.asked = None] \in Node
      BY <2>1 DEF Node
    <3>2. [Idle EXCEPT !.hostToken = node[j].hostToken] \in Node
      BY <2>1, IdleOK
    <3> QED
      BY <1>1, <1>9, <3>1, <3>2 DEF Handshake
  <2>6. /\ link' \in [Conns -> {"unused", "open", "shut", "cut", "done"}]
        /\ down' \in [Conns -> Seq(Signals)]
    <3>1. <<>> \in Seq(Signals)
      OBVIOUS
    <3>2. /\ link' = link \/ link' = [link EXCEPT ![d] = "shut"]
          /\ down' = down \/ down' = [down EXCEPT ![d] = <<>>]
      BY <1>9 DEF Handshake
    <3> QED
      BY <1>1, <2>1, <3>1, <3>2 DEF NodeTypes
  <2> QED
    BY <1>2, <1>9, <2>4, <2>5, <2>6, TypeParts DEF Handshake, NodeTypes
<1>10. ASSUME NEW j \in Ids, KickMember(i, j) PROVE TypeOK'
  <2>1. <<[type |-> "kick", who |-> j]>> \in Seq(Requests)
    BY DEF Requests
  <2> QED
    BY <1>1, <1>2, <1>10, <2>1, TypeParts DEF KickMember, NodeTypes, Node
<1> QED
  BY <1>4, <1>5, <1>6, <1>7, <1>8, <1>9, <1>10 DEF NodeStep

\* So does a connection that breaks.
LEMMA CutTypes ==
    ASSUME TypeOK, NEW c \in Conns, Cut(c)
    PROVE  TypeOK'
<1>1. <<>> \in Seq(Requests) /\ <<>> \in Seq(Signals)
  OBVIOUS
<1>2. ServerTypes /\ NodeTypes
  BY TypeParts
<1> QED
  BY <1>1, <1>2, TypeParts DEF Cut, serverVars, roomVars, ServerTypes, NodeTypes

-----------------------------------------------------------------------------
(* Tokens                                                                  *)

\* Nodes, notices and queues get a host token only from where it was before,
\* or from the relay that hands out the current one to the host.
NodesLearn == \A i \in Ids : \/ node'[i].hostToken = 0
                             \/ HasToken(i, node'[i].hostToken)

RelaySays ==
    \A g \in Threads : \A n \in out'[g] :
        \/ n \in out[g]
        \/ n.sig.type \notin {"created", "newhost"}
        \/ n.sig.hostToken = 0
        \/ n.sig.hostToken = hostToken' /\ Owner(n.to) = hostID'

SignalsArrive ==
    \A c \in Conns : \A s \in Range(down'[c]) :
        \/ s \in Range(down[c])
        \/ \E g \in Threads : \E n \in out[g] : n.to = c /\ n.sig = s

NodesPresent ==
    \A c \in Conns : \A s \in Range(up'[c]) :
        \/ s \in Range(up[c])
        \/ s.type # "host"
        \/ HasToken(Owner(c), s.hostToken)

\* The room changes hands only with a new token.
NewHostNewToken ==
    \/ hostToken' = hostToken /\ (exists' => exists /\ hostID' = hostID)
    \/ hostToken' = hostToken + 1

LEMMA TokenFrame ==
    ASSUME TypeOK, TokenInv, NewHostNewToken,
           NodesLearn, RelaySays, SignalsArrive, NodesPresent
    PROVE  TokenInv'
<1>1. hostToken \in Nat /\ hostToken' \in Nat
  BY DEF TypeOK, NewHostNewToken
<1>2. ASSUME NEW i \in Ids, NEW t \in Nat, HasToken(i, t)'
      PROVE  t = 0 \/ HasToken(i, t) \/ (t = hostToken' /\ i = hostID')
  <2>1. CASE node'[i].hostToken = t
    BY <2>1 DEF NodesLearn
  <2>2. ASSUME NEW g \in Threads, NEW n \in out'[g], Owner(n.to) = i,
               Tells(n.sig, t)
        PROVE  t = 0 \/ HasToken(i, t) \/ (t = hostToken' /\ i = hostID')
    BY <2>2 DEF RelaySays, Tells, HasToken
  <2>3. ASSUME NEW c \in Conns, Owner(c) = i, NEW s \in Range(down'[c]), Tells(s, t)
        PROVE  HasToken(i, t)
    <3>1. CASE s \in Range(down[c])
      BY <2>3, <3>1 DEF HasToken
    <3>2. CASE \E g \in Threads : \E n \in out[g] : n.to = c /\ n.sig = s
      BY <2>3, <3>2 DEF HasToken
    <3> QED
      BY <3>1, <3>2 DEF SignalsArrive
  <2>4. ASSUME NEW c \in Conns, Owner(c) = i, NEW s \in Range(up'[c]),
               s.type = "host", s.hostToken = t
        PROVE  HasToken(i, t)
    <3>1. CASE s \in Range(up[c])
      BY <2>4, <3>1 DEF HasToken
    <3> QED
      BY <2>4, <3>1 DEF NodesPresent
  <2> QED
    BY <1>2, <2>1, <2>2, <2>3, <2>4 DEF HasToken
<1>3. exists' => hostToken' # 0
  BY <1>1 DEF TokenInv, NewHostNewToken
<1>4. ASSUME NEW i \in Ids, NEW t \in Nat, HasToken(i, t)'
      PROVE  t <= hostToken' /\ (exists' /\ t = hostToken' => i = hostID')
  <2>1. t = 0 \/ HasToken(i, t) \/ (t = hostToken' /\ i = hostID')
    BY <1>2, <1>4
  <2>2. CASE HasToken(i, t)
    <3>1. t <= hostToken /\ (exists /\ t = hostToken => i = hostID)
      BY <2>2 DEF TokenInv
    <3> QED
      BY <1>1, <3>1 DEF NewHostNewToken
  <2> QED
    BY <1>1, <1>3, <2>1, <2>2
<1> QED
  BY <1>3, <1>4 DEF TokenInv

\* removeMemberLocked: the next host gets a token of its own, and nobody else
\* is told one.
LEMMA RemoveMemberTokens ==
    ASSUME TypeOK, RoomInv, NEW g \in Threads, NEW i \in members, NEW said,
           \A n \in said : n.sig.type \notin {"created", "newhost"},
           RemoveMember(g, i, said)
    PROVE  NewHostNewToken /\ RelaySays
<1> DEFINE left == members \ {i}
           h    == NextHost(i)
<1>1. /\ SlotsAgree /\ members \subseteq Ids /\ out \in [Threads -> SUBSET [to : Conns, sig : Signals]]
  BY DEF TypeOK, RoomInv
<1>2. NewHostNewToken
  BY DEF RemoveMember, NewHostNewToken
<1>3. RelaySays
  <2>1. \A k \in Threads \ {g} : out'[k] = out[k]
    BY <1>1 DEF RemoveMember
  <2>2. ASSUME NEW n \in out'[g]
        PROVE  \/ n.sig.type \notin {"created", "newhost"}
               \/ n.sig.hostToken = 0
               \/ n.sig.hostToken = hostToken' /\ Owner(n.to) = hostID'
    <3>1. \/ n \in said \/ n \in RejectAll
          \/ /\ left # {} /\ hostID = i
             /\ \E j \in Online \ {i} :
                   n = Notice(client[j], NewHost(h, IF j = h THEN hostToken' ELSE 0))
      BY <1>1 DEF RemoveMember
    <3>2. CASE n \in RejectAll
      BY <3>2 DEF RejectAll, Notice, Refused
    <3>3. CASE /\ left # {} /\ hostID = i
               /\ \E j \in Online \ {i} :
                     n = Notice(client[j], NewHost(h, IF j = h THEN hostToken' ELSE 0))
      <4>1. PICK j \in Online \ {i} :
              n = Notice(client[j], NewHost(h, IF j = h THEN hostToken' ELSE 0))
        BY <3>3
      <4>2. n.to = client[j] /\ n.sig.hostToken = IF j = h THEN hostToken' ELSE 0
        BY <4>1 DEF Notice, NewHost
      <4>3. Owner(client[j]) = j
        BY <1>1 DEF Online, SlotsAgree
      <4>4. hostID' = h
        BY <3>3 DEF RemoveMember
      <4> QED
        BY <4>2, <4>3, <4>4
    <3> QED
      BY <3>1, <3>2, <3>3
  <2> QED
    BY <2>1, <2>2 DEF RelaySays
<1> QED
  BY <1>2, <1>3

\* onDisconnect and leave.
LEMMA DetachTokens ==
    ASSUME TypeOK, RoomInv, NEW c \in Conns, NEW explicit, Detach(c, explicit)
    PROVE  NewHostNewToken /\ RelaySays
<1> DEFINE i == Owner(c)
<1>1. CASE c \in roomOf /\ i \in members /\ client[i] = c /\ explicit
  BY <1>1, OwnerOK, RemoveMemberTokens DEF Detach
<1>2. CASE ~(c \in roomOf /\ i \in members /\ client[i] = c /\ explicit)
  BY <1>2 DEF Detach, NewHostNewToken, RelaySays
<1> QED
  BY <1>1, <1>2

\* One handler at the relay hands out no token but the current one, to the host.
LEMMA HandleTokens ==
    ASSUME TypeOK, RoomInv, TokenInv, NEW c \in Conns, HandleSignal(c)
    PROVE  NewHostNewToken /\ RelaySays
<1> DEFINE i == Owner(c)
<1>1. /\ out \in [Threads -> SUBSET [to : Conns, sig : Signals]] /\ c \in Threads
      /\ hostToken \in Nat
  BY OwnerOK DEF TypeOK
<1>2. ASSUME NEW n, Says(c, {n}),
             \/ n.sig.type \notin {"created", "newhost"}
             \/ n.sig.hostToken = hostToken' /\ Owner(n.to) = hostID'
      PROVE  RelaySays
  BY <1>1, <1>2 DEF Says, RelaySays
<1>3. UNCHANGED <<exists, hostID, hostToken>> => NewHostNewToken
  BY DEF NewHostNewToken
<1>4. CASE CreateRoom(c)
  <2> DEFINE n == Notice(c, Created(hostToken', token'[i]))
  <2>1. Says(c, {n}) /\ hostID' = i /\ hostToken' = hostToken + 1
    BY <1>4 DEF CreateRoom
  <2>2. n.sig.hostToken = hostToken' /\ n.to = c
    BY DEF Notice, Created
  <2> HIDE DEF n
  <2> QED
    BY <1>2, <2>1, <2>2 DEF NewHostNewToken
<1>5. CASE ReclaimRoom(c)
  <2> DEFINE n == Notice(c, Created(hostToken, token'[i]))
  <2>1. /\ Says(c, {n}) /\ hostID' = i /\ hostToken' = hostToken
        /\ exists' = exists /\ exists
    BY <1>5 DEF ReclaimRoom
  <2>2. n.sig.hostToken = hostToken /\ n.to = c
    BY DEF Notice, Created
  <2>3. hostID = i
    BY <1>5, PresentedByHost DEF ReclaimRoom
  <2> HIDE DEF n
  <2> QED
    BY <1>2, <2>1, <2>2, <2>3 DEF NewHostNewToken
<1>6. CASE RefuseHost(c)
  <2>1. Notice(c, [type |-> "inuse"]).sig.type = "inuse"
    BY DEF Notice
  <2> QED
    BY <1>2, <1>3, <1>6, <2>1 DEF RefuseHost, roomVars
<1>7. CASE Rejoin(c)
  <2>1. Notice(c, Welcome(hostID, token[i])).sig.type = "welcome"
    BY DEF Notice, Welcome
  <2> QED
    BY <1>2, <1>3, <1>7, <2>1 DEF Rejoin
<1>8. CASE RequestJoin(c)
  <2>1. Notice(c, [type |-> "pending", host |-> hostID]).sig.type = "pending"
    BY DEF Notice
  <2> QED
    BY <1>2, <1>3, <1>8, <2>1 DEF RequestJoin
<1>9. \A d : Notice(d, Refused).sig.type = "refused"
  BY DEF Notice, Refused
<1>10. CASE RefuseJoin(c)
  BY <1>2, <1>3, <1>9, <1>10 DEF RefuseJoin, roomVars
<1>11. CASE Reject(c)
  BY <1>2, <1>3, <1>9, <1>11 DEF Reject
<1>12. CASE Admit(c)
  <2> DEFINE j == Head(up[c]).who
  <2>1. Notice(pending[j], Welcome(hostID, token'[j])).sig.type = "welcome"
    BY DEF Notice, Welcome
  <2>2. \/ Says(c, {Notice(pending[j], Refused)})
        \/ Says(c, {Notice(pending[j], Welcome(hostID, token'[j]))})
    BY <1>12 DEF Admit
  <2> QED
    BY <1>2, <1>3, <1>9, <1>12, <2>1, <2>2 DEF Admit
<1>13. CASE Kick(c)
  <2>1. \A d : Notice(d, [type |-> "kicked"]).sig.type = "kicked"
    BY DEF Notice
  <2> QED
    BY <1>1, <1>13, <2>1, RemoveMemberTokens DEF Kick
<1>14. CASE Ignore(c)
  BY <1>3, <1>14 DEF Ignore, roomVars, RelaySays
<1>15. CASE Leave(c)
  BY <1>15, DetachTokens DEF Leave
<1> QED
  BY <1>4, <1>5, <1>6, <1>7, <1>8, <1>10, <1>11, <1>12, <1>13, <1>14, <1>15
     DEF HandleSignal

\* The relay keeps the tokens in order.
LEMMA ServerTokens ==
    ASSUME TypeOK, RoomInv, TokenInv, ServerStep
    PROVE  TokenInv'
<1>1. /\ up \in [Conns -> Seq(Requests)] /\ down \in [Conns -> Seq(Signals)]
      /\ out \in [Threads -> SUBSET [to : Conns, sig : Signals]]
      /\ node \in [Ids -> Node]
  BY DEF TypeOK, Node
<1>2. UNCHANGED node => NodesLearn
  BY DEF NodesLearn, HasToken
<1>3. UNCHANGED down => SignalsArrive
  BY DEF SignalsArrive
<1>4. UNCHANGED up => NodesPresent
  BY DEF NodesPresent
<1>5. Range(<<>>) = {}
  BY DEF Range
<1>6. ASSUME NEW c \in Conns, HandleSignal(c) PROVE TokenInv'
  <2>1. PICK type : Takes(c, type)
    BY <1>6 DEF HandleSignal, CreateRoom, ReclaimRoom, RefuseHost, Rejoin,
                RequestJoin, RefuseJoin, Admit, Reject, Kick, Ignore, Leave
  <2>2. UNCHANGED <<down, node>> /\ NodesPresent
    BY <1>1, <2>1, TakesOK DEF NodesPresent
  <2> QED
    BY <1>2, <1>3, <1>6, <2>2, HandleTokens, TokenFrame
<1>7. ASSUME NEW c \in Conns, Disconnect(c) PROVE TokenInv'
  <2>1. NewHostNewToken /\ RelaySays
    BY <1>7, DetachTokens DEF Disconnect
  <2>2. SignalsArrive /\ NodesPresent
    BY <1>1, <1>5, <1>7 DEF Disconnect, SignalsArrive, NodesPresent
  <2> QED
    BY <1>2, <1>7, <2>1, <2>2, TokenFrame DEF Disconnect
<1>8. ASSUME NEW c \in Conns, RequestExpires(c) PROVE TokenInv'
  <2>1. NewHostNewToken
    BY <1>8 DEF RequestExpires, NewHostNewToken
  <2>2. RelaySays
    <3>1. Notice(c, Refused).sig.type = "refused"
      BY DEF Notice, Refused
    <3> QED
      BY <1>1, <1>8, <3>1, OwnerOK DEF RequestExpires, Says, RelaySays
  <2> QED
    BY <1>2, <1>3, <1>4, <1>8, <2>1, <2>2, TokenFrame DEF RequestExpires
<1>9. ASSUME NEW i \in Ids, GraceEnds(i) PROVE TokenInv'
  <2>1. NewHostNewToken /\ RelaySays
    <3>1. CASE i \in members /\ client[i] = None
      BY <1>9, <3>1, RemoveMemberTokens DEF GraceEnds, Threads
    <3>2. CASE ~(i \in members /\ client[i] = None)
      BY <1>9, <3>2 DEF GraceEnds, NewHostNewToken, RelaySays
    <3> QED
      BY <3>1, <3>2
  <2> QED
    BY <1>2, <1>3, <1>4, <1>9, <2>1, TokenFrame DEF GraceEnds
<1>10. ASSUME NEW g \in Threads, Send(g) PROVE TokenInv'
  <2>1. PICK n \in out[g] :
          /\ out' = [out EXCEPT ![g] = @ \ {n}]
          /\ down' = IF link[n.to] = "open"
                     THEN [down EXCEPT ![n.to] = Append(@, n.sig)] ELSE down
          /\ UNCHANGED <<roomVars, connVars, up, node>>
    BY <1>10 DEF Send
  <2>2. n.to \in Conns /\ n.sig \in Signals
    BY <1>1, <2>1
  <2>3. Range(Append(down[n.to], n.sig)) = Range(down[n.to]) \cup {n.sig}
    BY <1>1, <2>2, PutOne
  <2>4. SignalsArrive
    BY <1>1, <2>1, <2>2, <2>3 DEF SignalsArrive
  <2>5. RelaySays
    BY <1>1, <2>1 DEF RelaySays
  <2>6. NewHostNewToken
    BY <2>1 DEF NewHostNewToken, roomVars
  <2> QED
    BY <1>2, <1>4, <2>1, <2>4, <2>5, <2>6, TokenFrame
<1>11. CASE CloseRoom
  <2>1. NewHostNewToken /\ RelaySays
    BY <1>11 DEF CloseRoom, NewHostNewToken, RelaySays
  <2> QED
    BY <1>2, <1>3, <1>4, <1>11, <2>1, TokenFrame DEF CloseRoom
<1> QED
  BY <1>6, <1>7, <1>8, <1>9, <1>10, <1>11 DEF ServerStep

\* A node learns a host token from a signal to a connection of its own, and
\* presents the one it has.
LEMMA NodeTokens ==
    ASSUME TypeOK, TokenInv, ConnsAreOwn, NEW i \in Ids, NodeStep(i)
    PROVE  TokenInv' /\ ConnsAreOwn'
<1>1. /\ up \in [Conns -> Seq(Requests)] /\ down \in [Conns -> Seq(Signals)]
      /\ node \in [Ids -> Node] /\ node[i] \in Node
      /\ link \in [Conns -> {"unused", "open", "shut", "cut", "done"}]
  BY DEF TypeOK, Node
<1>2. Range(<<>>) = {}
  BY DEF Range
<1>3. UNCHANGED serverVars => NewHostNewToken /\ RelaySays
  BY DEF serverVars, roomVars, NewHostNewToken, RelaySays
<1>4. ASSUME NEW last \in Seq(Requests), Shut(i, last),
             \A s \in Range(last) : s.type # "host"
      PROVE  SignalsArrive /\ NodesPresent
  <2>1. CASE Connected(i)
    <3> DEFINE c == node[i].conn
    <3>1. c \in Conns
      BY <1>1, <2>1 DEF Connected, Node
    <3>2. /\ up' = [up EXCEPT ![c] = up[c] \o last] /\ down' = [down EXCEPT ![c] = <<>>]
      BY <1>4, <2>1 DEF Shut
    <3>3. Range(up[c] \o last) = Range(up[c]) \cup Range(last)
      BY <1>1, <3>1, RangeConcatenation
    <3> DEFINE u == up[c] \o last
    <3> HIDE DEF u
    <3>4. SignalsArrive
      BY <1>1, <1>2, <3>1, <3>2 DEF SignalsArrive
    <3>5. NodesPresent
      BY <1>1, <1>4, <3>1, <3>2, <3>3 DEF NodesPresent
    <3> QED
      BY <3>4, <3>5
  <2>2. CASE ~Connected(i)
    BY <1>4, <2>2 DEF Shut, SignalsArrive, NodesPresent
  <2> QED
    BY <2>1, <2>2
<1>5. Shut(i, <<>>) => SignalsArrive /\ NodesPresent
  <2>1. <<>> \in Seq(Requests)
    OBVIOUS
  <2> QED
    BY <1>2, <1>4, <2>1
<1>6. Shut(i, <<[type |-> "leave"]>>) => SignalsArrive /\ NodesPresent
  <2>1. <<[type |-> "leave"]>> \in Seq(Requests)
    BY DEF Requests
  <2>2. Range(<<[type |-> "leave"]>>) = {[type |-> "leave"]}
    BY DEF Range
  <2> QED
    BY <1>4, <2>1, <2>2
<1>7. ASSUME NEW m \in Node, node' = [node EXCEPT ![i] = m],
             m.hostToken = 0 \/ HasToken(i, m.hostToken),
             m.conn # None => Owner(m.conn) = i
      PROVE  NodesLearn /\ ConnsAreOwn'
  BY <1>1, <1>7 DEF NodesLearn, ConnsAreOwn, HasToken
<1>8. UNCHANGED serverVars
  BY DEF NodeStep, StartHost, StartJoin, Connect, GoAway, CancelJoin, Receive,
         Handshake, KickMember
<1>9. HasToken(i, node[i].hostToken) /\ (node[i].conn # None => Owner(node[i].conn) = i)
  BY DEF HasToken, ConnsAreOwn
<1>10. SignalsArrive /\ NodesPresent /\ NodesLearn => TokenInv'
  BY <1>3, <1>8, TokenFrame
<1>11. ASSUME NEW m \in Node, node' = [node EXCEPT ![i] = m],
              m.hostToken \in {0, node[i].hostToken}, m.conn = None,
              SignalsArrive, NodesPresent
       PROVE  TokenInv' /\ ConnsAreOwn'
  BY <1>7, <1>9, <1>10, <1>11
<1>12. CASE StartHost(i) \/ StartJoin(i)
  <2>1. PICK m \in Node : /\ node' = [node EXCEPT ![i] = m] /\ m.conn = None
                          /\ m.hostToken = node[i].hostToken
    <3>1. CASE StartHost(i)
      <4> DEFINE m == [Idle EXCEPT !.state = "in", !.isHost = TRUE, !.action = "host",
                                   !.hostToken = node[i].hostToken]
      <4>1. m \in Node /\ m.hostToken = node[i].hostToken /\ m.conn = None
        BY <1>1, IdleOK DEF Idle
      <4> QED
        BY <3>1, <4>1 DEF StartHost
    <3>2. CASE StartJoin(i)
      <4> DEFINE m == [Idle EXCEPT !.state = "joining", !.hostToken = node[i].hostToken]
      <4>1. m \in Node /\ m.hostToken = node[i].hostToken /\ m.conn = None
        BY <1>1, IdleOK DEF Idle
      <4> QED
        BY <3>2, <4>1 DEF StartJoin
    <3> QED
      BY <1>12, <3>1, <3>2
  <2>2. SignalsArrive /\ NodesPresent
    BY <1>5, <1>12 DEF StartHost, StartJoin
  <2> QED
    BY <1>11, <2>1, <2>2
<1>13. ASSUME LeaveRoom(i) \/ (FailJoin(i) /\ node[i].state \in {"joining", "keyed"})
       PROVE  TokenInv' /\ ConnsAreOwn'
  <2>1. PICK m \in Node : /\ node' = [node EXCEPT ![i] = m] /\ m.conn = None
                          /\ m.hostToken \in {0, node[i].hostToken}
    <3> DEFINE m == [Idle EXCEPT !.hostToken = node[i].hostToken]
    <3>1. m \in Node /\ m.hostToken = node[i].hostToken /\ m.conn = None
      BY <1>1, IdleOK DEF Idle
    <3>2. Idle \in Node /\ Idle.hostToken = 0 /\ Idle.conn = None
      BY <1>1, IdleOK DEF Idle
    <3>3. node' = [node EXCEPT ![i] = Idle] \/ node' = [node EXCEPT ![i] = m]
      BY <1>13 DEF LeaveRoom, FailJoin
    <3> HIDE DEF m
    <3> QED
      BY <3>1, <3>2, <3>3
  <2>2. SignalsArrive /\ NodesPresent
    BY <1>6, <1>13 DEF LeaveRoom, FailJoin
  <2> QED
    BY <1>11, <2>1, <2>2
<1>14. CASE GoAway(i)
  BY <1>13, <1>14 DEF GoAway
<1>15. CASE Connect(i)
  <2>1. PICK c \in Conns :
          /\ Owner(c) = i
          /\ node' = [node EXCEPT ![i].conn = c]
          /\ up' = [up EXCEPT ![c] =
                <<IF node[i].action = "host" \/ node[i].isHost
                  THEN [type |-> "host", hostToken |-> node[i].hostToken]
                  ELSE [type |-> "join", memberToken |-> node[i].memberToken]>>]
          /\ UNCHANGED down
    BY <1>15 DEF Connect
  <2>2. NodesLearn /\ ConnsAreOwn'
    BY <1>1, <1>9, <2>1 DEF NodesLearn, ConnsAreOwn, HasToken, Node
  <2> DEFINE r == IF node[i].action = "host" \/ node[i].isHost
                  THEN [type |-> "host", hostToken |-> node[i].hostToken]
                  ELSE [type |-> "join", memberToken |-> node[i].memberToken]
  <2>3. /\ up' = [up EXCEPT ![c] = <<r>>]
        /\ r.type # "host" \/ r.hostToken = node[i].hostToken
    BY <2>1
  <2> HIDE DEF r
  <2>4. Range(<<r>>) = {r}
    BY DEF Range
  <2>5. NodesPresent
    BY <1>1, <1>9, <2>1, <2>3, <2>4 DEF NodesPresent
  <2>6. SignalsArrive
    BY <2>1 DEF SignalsArrive
  <2> QED
    BY <1>10, <2>2, <2>5, <2>6
<1>16. UNCHANGED down => SignalsArrive
  BY DEF SignalsArrive
<1>17. UNCHANGED up => NodesPresent
  BY DEF NodesPresent
<1>18. CASE CancelJoin(i)
  <2>1. NodesLearn /\ ConnsAreOwn'
    BY <1>1, <1>18 DEF CancelJoin, NodesLearn, ConnsAreOwn, HasToken, Node
  <2> QED
    BY <1>10, <1>16, <1>17, <1>18, <2>1 DEF CancelJoin
<1>19. CASE Receive(i)
  <2> DEFINE c == node[i].conn
             n == node[i]
             s == Head(down[c])
  <2>1. c \in Conns /\ down[c] # <<>> /\ Owner(c) = i
    BY <1>1, <1>9, <1>19 DEF Receive, Connected, Node
  <2>2. /\ s \in Signals /\ s \in Range(down[c])
        /\ Range(Tail(down[c])) \subseteq Range(down[c])
    BY <1>1, <2>1, TakeOne
  <2>3. s.type \in {"created", "newhost"} => HasToken(i, s.hostToken)
    BY <2>1, <2>2 DEF HasToken, Tells
  <2>4. ASSUME NEW m \in Node, node' = [node EXCEPT ![i] = m],
               m.hostToken = 0 \/ HasToken(i, m.hostToken), m.conn = c,
               down' = [down EXCEPT ![c] = Tail(@)], UNCHANGED up
        PROVE  TokenInv' /\ ConnsAreOwn'
    <3>1. SignalsArrive
      BY <1>1, <2>1, <2>2, <2>4 DEF SignalsArrive
    <3> QED
      BY <1>7, <1>10, <1>17, <2>1, <2>4, <3>1
  <2>5. CASE UNCHANGED <<node, up>> /\ down' = [down EXCEPT ![c] = Tail(@)]
    <3>1. node' = [node EXCEPT ![i] = node[i]]
      BY <1>1, <2>5
    <3> QED
      BY <1>1, <1>9, <2>4, <2>5, <3>1
  <2>6. CASE LeaveRoom(i) \/ FailJoin(i)
    <3>1. CASE FailJoin(i) /\ node[i].state \notin {"joining", "keyed"}
      BY <2>5, <3>1 DEF FailJoin
    <3> QED
      BY <1>13, <2>6, <3>1
  <2>7. CASE Shut(i, <<>>) /\ node' = [node EXCEPT ![i] = [Idle EXCEPT !.state = "moved"]]
    <3> DEFINE m == [Idle EXCEPT !.state = "moved"]
    <3>1. m \in Node /\ m.hostToken = 0 /\ m.conn = None
      BY <1>1, IdleOK DEF Idle
    <3>2. SignalsArrive /\ NodesPresent /\ node' = [node EXCEPT ![i] = m]
      BY <1>5, <2>7
    <3> HIDE DEF m
    <3> QED
      BY <1>11, <3>1, <3>2
  <2>8. CASE \E m \in Node : /\ node' = [node EXCEPT ![i] = m] /\ m.conn = c
                             /\ m.hostToken = n.hostToken
                             /\ down' = [down EXCEPT ![c] = Tail(@)]
                             /\ UNCHANGED up
    BY <1>9, <2>4, <2>8
  <2>9. CASE s.type = "pending"
    <3>1. LET m == IF n.state = "joining" THEN [n EXCEPT !.asked = s.host] ELSE n
          IN  m \in Node /\ m.conn = c /\ m.hostToken = n.hostToken
      BY <1>1, <2>2, <2>9, SignalFields DEF Node
    <3> QED
      BY <1>19, <2>8, <2>9, <3>1 DEF Receive
  <2>10. CASE s.type = "created"
    <3> DEFINE m == [n EXCEPT !.hostToken = s.hostToken, !.memberToken = s.memberToken]
    <3>1. m \in Node /\ m.conn = c /\ m.hostToken = s.hostToken
      BY <1>1, <2>2, <2>10, SignalFields DEF Node
    <3>2. /\ node' = [node EXCEPT ![i] = m] /\ down' = [down EXCEPT ![c] = Tail(@)]
          /\ UNCHANGED up
      BY <1>19, <2>10 DEF Receive
    <3> HIDE DEF m
    <3> QED
      BY <2>3, <2>4, <2>10, <3>1, <3>2
  <2>11. CASE s.type = "welcome"
    <3>1. /\ LET m == [n EXCEPT !.memberToken = s.memberToken, !.state = "in",
                                !.isHost = FALSE]
             IN  m \in Node /\ m.conn = c /\ m.hostToken = n.hostToken
          /\ LET m == [n EXCEPT !.memberToken = s.memberToken]
             IN  m \in Node /\ m.conn = c /\ m.hostToken = n.hostToken
      BY <1>1, <2>2, <2>11, SignalFields DEF Node
    <3> QED
      BY <1>19, <2>6, <2>8, <2>11, <3>1 DEF Receive
  <2>12. CASE s.type = "newhost"
    <3> DEFINE m == [n EXCEPT !.isHost = (s.host = i),
                              !.hostToken = IF s.host = i /\ s.hostToken # 0
                                            THEN s.hostToken ELSE @]
    <3>1. m \in Node /\ m.conn = c /\ m.hostToken \in {n.hostToken, s.hostToken}
      BY <1>1, <2>2, <2>12, SignalFields DEF Node
    <3>2. /\ node' = [node EXCEPT ![i] = m] /\ down' = [down EXCEPT ![c] = Tail(@)]
          /\ UNCHANGED up
      BY <1>19, <2>12 DEF Receive
    <3> HIDE DEF m
    <3> QED
      BY <1>9, <2>3, <2>4, <2>12, <3>1, <3>2
  <2>13. CASE s.type = "inuse"
    BY <1>19, <2>6, <2>7, <2>13 DEF Receive
  <2>14. CASE s.type = "kicked"
    BY <1>1, <1>19, <2>6, <2>8, <2>14 DEF Receive
  <2>15. CASE s.type = "refused"
    BY <1>19, <2>6, <2>15 DEF Receive
  <2> QED
    BY <1>19, <2>9, <2>10, <2>11, <2>12, <2>13, <2>14, <2>15 DEF Receive
<1>20. ASSUME NEW j \in Ids, Handshake(i, j) PROVE TokenInv' /\ ConnsAreOwn'
  <2> DEFINE c == node[i].conn
             d == node[j].conn
  <2>1. /\ c \in Conns /\ d \in Conns /\ node[j] \in Node
        /\ up[c] \in Seq(Requests) /\ up[d] \in Seq(Requests)
    BY <1>1, <1>20 DEF Handshake, Connected, Node
  <2>2. NodesLearn /\ ConnsAreOwn'
    <3>1. PICK m \in Node : /\ node' = [node EXCEPT ![j] = m]
                            /\ m.hostToken = node[j].hostToken
                            /\ m.conn \in {None, d}
      <4> DEFINE k == [node[j] EXCEPT !.state = "keyed"]
                 n == [node[j] EXCEPT !.asked = None]
                 o == [Idle EXCEPT !.hostToken = node[j].hostToken]
      <4>1. /\ k \in Node /\ k.hostToken = node[j].hostToken /\ k.conn = d
            /\ n \in Node /\ n.hostToken = node[j].hostToken /\ n.conn = d
        BY <2>1 DEF Node
      <4>2. o \in Node /\ o.hostToken = node[j].hostToken /\ o.conn = None
        BY <2>1, IdleOK DEF Idle
      <4>3. \/ node' = [node EXCEPT ![j] = k] \/ node' = [node EXCEPT ![j] = n]
            \/ node' = [node EXCEPT ![j] = o]
        BY <1>1, <1>20 DEF Handshake
      <4> HIDE DEF k, n, o
      <4> QED
        BY <4>1, <4>2, <4>3
    <3> QED
      BY <1>1, <2>1, <3>1 DEF NodesLearn, ConnsAreOwn, HasToken
  <2>3. SignalsArrive
    BY <1>1, <1>2, <1>20, <2>1 DEF Handshake, SignalsArrive
  <2>4. ASSUME NEW x \in Conns, NEW r \in {[type |-> "admit", who |-> j],
                                           [type |-> "reject", who |-> j],
                                           [type |-> "leave"]}
        PROVE  Range(Append(up[x], r)) = Range(up[x]) \cup {r} /\ r.type # "host"
    <3>1. r \in Requests
      BY <2>4 DEF Requests
    <3> QED
      BY <1>1, <3>1, PutOne
  <2>5. NodesPresent
    <3> DEFINE u == Append(up[c], [type |-> "admit", who |-> j])
               v == Append(up[c], [type |-> "reject", who |-> j])
               w == Append(up[d], [type |-> "leave"])
    <3>1. \/ up' = [up EXCEPT ![c] = u]
          \/ up' = [up EXCEPT ![c] = v]
          \/ up' = [up EXCEPT ![c] = v, ![d] = w]
      BY <1>20 DEF Handshake
    <3>2. /\ \A s \in Range(u) \cup Range(v) : s \in Range(up[c]) \/ s.type # "host"
          /\ \A s \in Range(w) : s \in Range(up[d]) \/ s.type # "host"
      BY <2>1, <2>4
    <3> HIDE DEF c, d, u, v, w
    <3> QED
      BY <1>1, <2>1, <3>1, <3>2 DEF NodesPresent
  <2> QED
    BY <1>10, <2>2, <2>3, <2>5
<1>21. ASSUME NEW j \in Ids, KickMember(i, j) PROVE TokenInv' /\ ConnsAreOwn'
  <2> DEFINE k == [type |-> "kick", who |-> j]
  <2>1. Range(<<k>>) = {k} /\ k.type = "kick"
    BY DEF Range
  <2>2. NodesPresent
    BY <1>1, <1>21, <2>1 DEF KickMember, NodesPresent
  <2>3. NodesLearn /\ ConnsAreOwn'
    BY <1>21 DEF KickMember, NodesLearn, ConnsAreOwn, HasToken
  <2> QED
    BY <1>10, <1>16, <1>21, <2>2, <2>3 DEF KickMember
<1> QED
  BY <1>12, <1>14, <1>15, <1>18, <1>19, <1>20, <1>21 DEF NodeStep

-----------------------------------------------------------------------------
(* The invariant                                                           *)

\* It holds when nobody has asked for the room yet, whatever connections were
\* used up before.
LEMMA InitOK ==
    ASSUME Fresh, link \in [Conns -> {"unused", "done"}]
    PROVE  IInv
<1>1. <<>> \in Seq(Ids) /\ <<>> \in Seq(Requests) /\ <<>> \in Seq(Signals)
  OBVIOUS
<1>2. Idle \in Node
  BY DEF Idle, Node
<1>3. ServerTypes
  BY <1>1 DEF Fresh, ServerTypes
<1>4. NodeTypes
  BY <1>1, <1>2 DEF Fresh, NodeTypes
<1>5. /\ Range(<<>>) = {} /\ IsInjective(<<>>) /\ Len(<<>>) = 0
      /\ IsFiniteSet({}) /\ Cardinality({}) = 0
  BY FS_EmptySet DEF Range, IsInjective
<1>6. OrderIsRoom
  BY <1>5 DEF Fresh, OrderIsRoom
<1>7. RoomFits
  BY <1>5, RelayRoomAssumption DEF Fresh, RoomFits
<1>8. SlotsAgree
  BY OwnerOK DEF Fresh, SlotsAgree
<1>9. RoomHasHost /\ GraceIsLimited
  BY DEF Fresh, RoomHasHost, GraceIsLimited
<1>10. TokenInv
  <2>1. ASSUME NEW i \in Ids, NEW t \in Nat, HasToken(i, t) PROVE t = 0
    BY <1>5, <2>1 DEF Fresh, HasToken, Idle
  <2> QED
    BY <2>1 DEF Fresh, TokenInv
<1>11. ConnsAreOwn
  BY DEF Fresh, ConnsAreOwn, Idle
<1> QED
  BY <1>3, <1>4, <1>6, <1>7, <1>8, <1>9, <1>10, <1>11, TypeParts DEF IInv, RoomInv

\* Every step keeps it.
LEMMA StepOK ==
    ASSUME IInv, [Next]_vars
    PROVE  IInv'
<1>1. TypeOK /\ RoomInv /\ TokenInv /\ ConnsAreOwn
  BY DEF IInv
<1>2. CASE ServerStep
  <2>1. TypeOK' /\ RoomInv' /\ TokenInv'
    BY <1>1, <1>2, ServerStepTypes, ServerRoom, ServerTokens
  <2>2. UNCHANGED node
    BY <1>2 DEF ServerStep, HandleSignal, CreateRoom, ReclaimRoom, RefuseHost,
                Rejoin, RequestJoin, RefuseJoin, Admit, Reject, Kick, Ignore,
                Leave, Takes, Disconnect, RequestExpires, GraceEnds, Send,
                CloseRoom
  <2>3. ConnsAreOwn'
    BY <1>1, <2>2 DEF ConnsAreOwn
  <2> QED
    BY <2>1, <2>3 DEF IInv
<1>3. ASSUME NEW i \in Ids, NodeStep(i) PROVE IInv'
  BY <1>1, <1>3, NodeStepTypes, NodeRoom, NodeTokens DEF IInv
<1>4. ASSUME NEW c \in Conns, Cut(c) PROVE IInv'
  <2>1. TypeOK'
    BY <1>1, <1>4, CutTypes
  <2>2. RoomInv'
    BY <1>1, <1>4, RoomFrame DEF Cut, serverVars, roomVars, TypeOK
  <2>3. NewHostNewToken /\ RelaySays /\ NodesLearn
    BY <1>4 DEF Cut, serverVars, roomVars, NewHostNewToken, RelaySays, NodesLearn,
                HasToken
  <2>4. SignalsArrive /\ NodesPresent
    <3>1. Range(<<>>) = {}
      BY DEF Range
    <3>2. up \in [Conns -> Seq(Requests)] /\ down \in [Conns -> Seq(Signals)]
      BY <1>1 DEF TypeOK
    <3> QED
      BY <1>4, <3>1, <3>2 DEF Cut, SignalsArrive, NodesPresent
  <2>5. TokenInv'
    BY <1>1, <2>3, <2>4, TokenFrame
  <2>6. ConnsAreOwn'
    BY <1>1, <1>4 DEF Cut, ConnsAreOwn
  <2> QED
    BY <2>1, <2>2, <2>5, <2>6 DEF IInv
<1>5. CASE UNCHANGED vars
  <2>1. TypeOK' /\ ConnsAreOwn'
    BY <1>1, <1>5 DEF vars, roomVars, connVars, TypeOK, ConnsAreOwn
  <2>2. RoomInv'
    BY <1>1, <1>5, RoomFrame DEF vars, roomVars, connVars
  <2>3. TokenInv'
    BY <1>1, <1>5 DEF vars, roomVars, connVars, TokenInv, HasToken
  <2> QED
    BY <2>1, <2>2, <2>3 DEF IInv
<1> QED
  BY <1>2, <1>3, <1>4, <1>5 DEF Next

\* The inductive invariant holds in every reachable state.
LEMMA Inductive == Spec => []IInv
<1>1. Init => IInv
  BY InitOK DEF Init
<1> QED
  BY <1>1, StepOK, PTL DEF Spec

\* Every slot, signal and belief stays of its kind.
THEOREM TypeCorrect == Spec => []TypeOK
<1>1. IInv => TypeOK
  BY DEF IInv
<1> QED
  BY <1>1, Inductive, PTL

\* The room and the connections always agree on who is in it.
THEOREM RoomStaysConsistent == Spec => []RoomIsConsistent
<1>1. IInv => RoomIsConsistent
  <2> SUFFICES ASSUME IInv PROVE RoomIsConsistent
    OBVIOUS
  <2>1. /\ OrderIsRoom /\ SlotsAgree /\ RoomHasHost
        /\ client \in [Ids -> Conns \cup {None}]
        /\ pending \in [Ids -> Conns \cup {None}]
        /\ roomOf \subseteq Conns /\ pendOf \subseteq Conns
    BY DEF IInv, RoomInv, TypeOK
  <2>2. /\ Len(order) = Cardinality(members)
        /\ members = {order[k] : k \in DOMAIN order}
    BY <2>1 DEF OrderIsRoom, Range
  <2>3. /\ {client[i] : i \in Ids} \ {None} = roomOf
        /\ {pending[i] : i \in Ids} \ {None} = pendOf
    BY <2>1, OwnerOK DEF SlotsAgree
  <2> QED
    BY <2>1, <2>2, <2>3 DEF RoomIsConsistent, SlotsAgree, RoomHasHost
<1> QED
  BY <1>1, Inductive, PTL

\* A member without a connection always has a timer that will remove it.
THEOREM GraceStaysLimited == Spec => []GraceIsLimited
<1>1. IInv => GraceIsLimited
  BY DEF IInv, RoomInv
<1> QED
  BY <1>1, Inductive, PTL

\* However requests, approvals and returning hosts come together, the room
\* never has more members than allowed.
THEOREM RoomAlwaysFits == Spec => []RoomFits
<1>1. IInv => RoomFits
  BY DEF IInv, RoomInv
<1> QED
  BY <1>1, Inductive, PTL

\* Whoever knows the current host token, or is about to be told, is the host:
\* a former host cannot take the room back, whatever is still on its way.
THEOREM OnlyTheHostHasTheToken == Spec => []TokenIsTheHosts
<1>1. IInv => TokenIsTheHosts
  <2> SUFFICES ASSUME IInv, exists PROVE TokenIsTheHosts
    BY DEF TokenIsTheHosts
  <2>1. hostToken \in Nat /\ down \in [Conns -> Seq(Signals)]
        /\ out \in [Threads -> SUBSET Notices]
    BY DEF IInv, TypeOK, Notices
  <2>2. \A i \in Ids : HasToken(i, hostToken) => i = hostID
    BY <2>1 DEF IInv, TokenInv
  <2>3. \A i \in Ids : node[i].hostToken = hostToken => i = hostID
    BY <2>2 DEF HasToken
  <2>4. ASSUME NEW n \in Signal("created") \cup Signal("newhost"),
               n.sig.hostToken = hostToken
        PROVE  Owner(n.to) = hostID
    <3>1. PICK g \in Threads : n \in out[g]
      BY DEF Signal
    <3>2. n.sig.type \in {"created", "newhost"} /\ n.to \in Conns
      BY <2>1, <3>1 DEF Signal, Notices
    <3> QED
      BY <2>2, <2>4, <3>1, <3>2, OwnerOK DEF HasToken, Tells
  <2>5. ASSUME NEW c \in Conns, NEW k \in DOMAIN down[c],
               down[c][k].type \in {"created", "newhost"},
               down[c][k].hostToken = hostToken
        PROVE  Owner(c) = hostID
    <3>1. down[c][k] \in Range(down[c])
      BY DEF Range
    <3> QED
      BY <2>2, <2>5, <3>1, OwnerOK DEF HasToken, Tells
  <2> QED
    BY <2>3, <2>4, <2>5 DEF TokenIsTheHosts
<1> QED
  BY <1>1, Inductive, PTL

-----------------------------------------------------------------------------
(* The room as its members may expect it                                   *)

\* What RoomHosting says of the room is what this module keeps of it.
LEMMA SameRoom ==
    ASSUME RoomInv
    PROVE  /\ Hosting!Present = members
           /\ \A S : Hosting!Senior(S) = FirstOf(S)
           /\ \A S : Hosting!Place(S) = PlaceOf(S)
           /\ \A k : Hosting!RemoveAt(order, k) = RemoveAt(order, k)
BY DEF RoomInv, OrderIsRoom, Range, Hosting!Present, Hosting!Senior, Hosting!Place,
       FirstOf, PlaceOf, RemoveAt, Hosting!RemoveAt

\* Steps that change neither members, order, connections, host nor the room.
LEMMA HostingStutters ==
    ASSUME UNCHANGED <<exists, hostID, members, order, client>>
    PROVE  UNCHANGED Hosting!vars
BY DEF Hosting!vars, Online

\* removeMemberLocked is RoomHosting's Go.
LEMMA HostingGo ==
    ASSUME TypeOK, RoomInv, NEW i \in members, NEW g, NEW said,
           RemoveMember(g, i, said)
    PROVE  Hosting!Next
<1>1. members \subseteq Ids /\ client \in [Ids -> Conns \cup {None}]
  BY DEF TypeOK
<1>2. /\ members' = members \ {i} /\ order' = RemoveAt(order, PlaceOf({i}))
      /\ client' = [client EXCEPT ![i] = None] /\ exists' = exists
      /\ hostID' = IF hostID # i \/ members \ {i} = {} THEN hostID ELSE NextHost(i)
  BY DEF RemoveMember
<1>3. Online' = Online \ {i}
  BY <1>1, <1>2 DEF Online
<1>4. /\ Hosting!Present = members
      /\ Hosting!RemoveAt(order, Hosting!Place({i})) = RemoveAt(order, PlaceOf({i}))
      /\ \A S : Hosting!Senior(S) = FirstOf(S)
  BY SameRoom
<1>5. hostID' = IF hostID # i \/ members \ {i} = {} THEN hostID
                ELSE IF Online' # {} THEN Hosting!Senior(Online')
                     ELSE Hosting!Senior(members \ {i})
  BY <1>2, <1>3, <1>4 DEF NextHost
<1>6. Hosting!Go(i)
  BY <1>2, <1>3, <1>4, <1>5 DEF Hosting!Go
<1> QED
  BY <1>1, <1>6 DEF Hosting!Next

\* Losing a connection is RoomHosting's Drop, leaving its Go.
LEMMA HostingDetach ==
    ASSUME TypeOK, RoomInv, NEW c \in Conns, NEW explicit, Detach(c, explicit)
    PROVE  [Hosting!Next]_(Hosting!vars)
<1> DEFINE i == Owner(c)
<1>1. i \in Ids /\ c # None /\ client \in [Ids -> Conns \cup {None}] /\ members \subseteq Ids
  BY OwnerOK DEF TypeOK
<1>2. CASE c \in roomOf /\ i \in members /\ client[i] = c /\ explicit
  BY <1>2, HostingGo DEF Detach
<1>3. CASE c \in roomOf /\ i \in members /\ client[i] = c /\ ~explicit
  <2>1. /\ client' = [client EXCEPT ![i] = None]
        /\ UNCHANGED <<exists, hostID, members, order>>
    BY <1>3 DEF Detach
  <2>2. i \in Online /\ Online' = Online \ {i}
    BY <1>1, <1>3, <2>1 DEF Online
  <2>3. Hosting!Drop(i)
    BY <2>1, <2>2 DEF Hosting!Drop
  <2> QED
    BY <1>1, <2>3 DEF Hosting!Next
<1>4. CASE ~(c \in roomOf /\ i \in members /\ client[i] = c)
  BY <1>4, HostingStutters DEF Detach
<1> QED
  BY <1>2, <1>3, <1>4

\* Hosting, coming back and being admitted are RoomHosting's Open, Reopen,
\* ComeBack and Enter.
LEMMA HostingComeIn ==
    ASSUME TypeOK, RoomInv, TokenInv, NEW c \in Conns,
           CreateRoom(c) \/ ReclaimRoom(c) \/ Rejoin(c) \/ Admit(c)
    PROVE  [Hosting!Next]_(Hosting!vars)
<1> DEFINE i == Owner(c)
<1>1. /\ i \in Ids /\ c # None /\ members \subseteq Ids /\ order \in Seq(Ids)
      /\ client \in [Ids -> Conns \cup {None}]
      /\ pending \in [Ids -> Conns \cup {None}]
      /\ OrderIsRoom /\ SlotsAgree /\ RoomHasHost /\ Hosting!Present = members
  BY OwnerOK, SameRoom DEF TypeOK, RoomInv
<1>2. CASE CreateRoom(c)
  <2>1. /\ ~exists /\ exists' = TRUE /\ hostID' = i /\ members' = {i} /\ order' = <<i>>
        /\ client' = [client EXCEPT ![i] = c]
    BY <1>2 DEF CreateRoom
  <2>2. Online' = {i}
    BY <1>1, <2>1 DEF Online
  <2>3. Hosting!Open(i)
    BY <2>1, <2>2 DEF Hosting!Open
  <2> QED
    BY <1>1, <2>3 DEF Hosting!Next
<1>3. CASE ReclaimRoom(c)
  <2>1. /\ exists /\ exists' = exists /\ hostID' = i /\ client' = [client EXCEPT ![i] = c]
        /\ hostID = i
    BY <1>3, PresentedByHost DEF ReclaimRoom, Attach
  <2>2. CASE i \in members
    <3>1. UNCHANGED <<members, order>>
      BY <1>3, <2>2 DEF ReclaimRoom
    <3>2. Online' = Online \cup {i}
      BY <1>1, <2>1, <2>2, <3>1 DEF Online
    <3>3. Hosting!ComeBack(i)
      BY <1>1, <2>1, <2>2, <3>1, <3>2 DEF Hosting!ComeBack
    <3> QED
      BY <1>1, <3>3 DEF Hosting!Next
  <2>3. CASE i \notin members
    <3>1. members = {} /\ order' = Append(order, i) /\ members' = members \cup {i}
      BY <1>1, <1>3, <2>1, <2>3 DEF ReclaimRoom, RoomHasHost
    <3>2. order = <<>>
      BY <1>1, <3>1, FS_EmptySet, EmptySeq DEF OrderIsRoom
    <3>3. order' = <<hostID>>
      BY <2>1, <3>1, <3>2
    <3>4. Online' = {hostID}
      BY <1>1, <2>1, <3>1 DEF Online
    <3>5. Hosting!Reopen
      BY <2>1, <3>2, <3>3, <3>4 DEF Hosting!Reopen
    <3> QED
      BY <3>5 DEF Hosting!Next
  <2> QED
    BY <2>2, <2>3
<1>4. CASE Rejoin(c)
  <2>1. /\ i \in members /\ client' = [client EXCEPT ![i] = c]
        /\ UNCHANGED <<exists, hostID, members, order>>
    BY <1>4 DEF Rejoin, Attach
  <2>2. Online' = Online \cup {i}
    BY <1>1, <2>1 DEF Online
  <2>3. Hosting!ComeBack(i)
    BY <1>1, <2>1, <2>2 DEF Hosting!ComeBack
  <2> QED
    BY <1>1, <2>3 DEF Hosting!Next
<1>5. CASE Admit(c)
  <2> DEFINE j == Head(up[c]).who
             d == pending[j]
  <2>1. j \in Ids
    BY <1>5, TakesOK, RequestFields DEF Admit
  <2>2. CASE Cardinality(members) >= MaxMembers
    BY <1>5, <2>2, HostingStutters DEF Admit
  <2>3. CASE ~(Cardinality(members) >= MaxMembers)
    <3>1. /\ members' = members \cup {j} /\ order' = Append(order, j)
          /\ client' = [client EXCEPT ![j] = d] /\ d # None
          /\ UNCHANGED <<exists, hostID>> /\ hostID = i /\ c \in roomOf
      BY <1>5, <2>3 DEF Admit, ByHost
    <3>2. j \notin members /\ i \in Online
      BY <1>1, <2>1, <3>1 DEF SlotsAgree, Online
    <3>3. Online' = Online \cup {j}
      BY <1>1, <2>1, <3>1, <3>2 DEF Online
    <3>4. Len(order) < MaxMembers
      BY <1>1, <2>3, LenProperties, RelayRoomAssumption DEF OrderIsRoom
    <3>5. Hosting!Enter(j)
      BY <1>1, <3>1, <3>2, <3>3, <3>4 DEF Hosting!Enter
    <3> QED
      BY <2>1, <3>5 DEF Hosting!Next
  <2> QED
    BY <2>2, <2>3
<1> QED
  BY <1>2, <1>3, <1>4, <1>5

\* Every step of the relay is a step of RoomHosting, or none.
LEMMA HostingStep ==
    ASSUME IInv, [Next]_vars
    PROVE  [Hosting!Next]_(Hosting!vars)
<1>1. TypeOK /\ RoomInv /\ TokenInv
  BY DEF IInv
<1>2. ASSUME NEW c \in Conns, HandleSignal(c) PROVE [Hosting!Next]_(Hosting!vars)
  <2>1. CASE CreateRoom(c) \/ ReclaimRoom(c) \/ Rejoin(c) \/ Admit(c)
    BY <1>1, <2>1, HostingComeIn
  <2>2. CASE RefuseHost(c) \/ RefuseJoin(c) \/ Ignore(c) \/ RequestJoin(c) \/ Reject(c)
    BY <2>2, HostingStutters
       DEF RefuseHost, RefuseJoin, Ignore, RequestJoin, Reject, roomVars
  <2>3. CASE Kick(c)
    BY <1>1, <2>3, HostingGo DEF Kick
  <2>4. CASE Leave(c)
    BY <1>1, <2>4, HostingDetach DEF Leave
  <2> QED
    BY <1>2, <2>1, <2>2, <2>3, <2>4 DEF HandleSignal
<1>3. ASSUME NEW c \in Conns, Disconnect(c) PROVE [Hosting!Next]_(Hosting!vars)
  BY <1>1, <1>3, HostingDetach DEF Disconnect
<1>4. ASSUME NEW i \in Ids, GraceEnds(i) PROVE [Hosting!Next]_(Hosting!vars)
  <2>1. CASE i \in members /\ client[i] = None
    BY <1>1, <1>4, <2>1, HostingGo DEF GraceEnds
  <2>2. CASE ~(i \in members /\ client[i] = None)
    BY <1>4, <2>2, HostingStutters DEF GraceEnds
  <2> QED
    BY <2>1, <2>2
<1>5. CASE CloseRoom
  <2>1. exists /\ exists' = FALSE /\ UNCHANGED <<hostID, order, Online>>
    BY <1>5 DEF CloseRoom, Online
  <2>2. order = <<>>
    BY <1>1, <1>5, FS_EmptySet, EmptySeq DEF CloseRoom, RoomInv, OrderIsRoom, TypeOK
  <2>3. Hosting!Close
    BY <2>1, <2>2 DEF Hosting!Close
  <2> QED
    BY <2>3 DEF Hosting!Next
<1>6. CASE \/ \E c \in Conns : RequestExpires(c) \/ Cut(c)
           \/ \E g \in Threads : Send(g)
           \/ UNCHANGED vars
  BY <1>6, HostingStutters DEF RequestExpires, Cut, Send, vars, serverVars, roomVars
<1>7. ASSUME NEW i \in Ids, NodeStep(i) PROVE [Hosting!Next]_(Hosting!vars)
  <2>1. UNCHANGED serverVars
    BY <1>7 DEF NodeStep, StartHost, StartJoin, Connect, GoAway, CancelJoin, Receive,
                Handshake, KickMember
  <2> QED
    BY <2>1, HostingStutters DEF serverVars, roomVars
<1> QED
  BY <1>2, <1>3, <1>4, <1>5, <1>6, <1>7 DEF Next, ServerStep

\* Who is in the room, who is connected and who is host change only as
\* RoomHosting says, whatever signals, timers and broken connections overtake
\* one another.
THEOREM ImplementsRoomHosting == Spec => FollowsRoomHosting
<1>1. Init => Hosting!Init
  BY RelayRoomAssumption DEF Init, Fresh, Online, Hosting!Init
<1> QED
  BY <1>1, HostingStep, Inductive, PTL DEF Spec, FollowsRoomHosting, Hosting!Spec
=============================================================================
