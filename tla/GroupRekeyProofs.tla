-------------------------- MODULE GroupRekeyProofs --------------------------
(***************************************************************************)
(* Theorems about GroupRekey for every set of members, every number of     *)
(* rotations and attempts, and every loss, delay and repetition of         *)
(* datagrams.                                                              *)
(***************************************************************************)
EXTENDS GroupRekey, TLAPS

\* The staged key of the host is the one of the rotation that is running.
StagedIsRotation ==
    /\ rot.live <=> ring[Host].next # NoKey
    /\ rot.live => ring[Host].next.epoch = rot.epoch

\* Nothing was sealed for anyone that is newer than the host's newest key.
GivenExists ==
    \A m \in Members : \A k \in given[m] : k.epoch <= Newest(ring[Host]).epoch

\* A dropped member may hold the newest key only while a rotation is owed.
RotationOwed ==
    (~due /\ spawned = 0) =>
        \A m \in Members : ident[m] = 0 => Newest(ring[Host]) \notin given[m]

IInv ==
    /\ TypeOK
    /\ RingsOrdered
    /\ StagedIsRotation
    /\ GivenExists
    /\ RotationOwed

-----------------------------------------------------------------------------
(* The keyring operations on well-formed rings                             *)

\* A fresh ring is well formed and ordered.
LEMMA NewRingOK ==
    ASSUME NEW k \in Key
    PROVE  NewRing(k) \in Rings(Key) /\ Ordered(NewRing(k))
BY NoKeyAssumption DEF NewRing, Rings, Ordered

\* Staging keeps a ring well formed and ordered and leaves the active key.
LEMMA StageOK ==
    ASSUME NEW r \in Rings(Key), NEW k \in Key, Ordered(r)
    PROVE  /\ Stage(r, k) \in Rings(Key)
           /\ Ordered(Stage(r, k))
           /\ Stage(r, k).cur = r.cur
           /\ Stageable(r, k) => Stage(r, k).next = k
BY NoKeyAssumption DEF Stage, Stageable, Rings, Ordered, Key

\* Promoting keeps a ring well formed and ordered, and never goes back.
LEMMA PromoteOK ==
    ASSUME NEW r \in Rings(Key), Ordered(r)
    PROVE  /\ Promote(r) \in Rings(Key)
           /\ Ordered(Promote(r))
           /\ Promote(r).next = NoKey
           /\ Promote(r).cur.epoch >= r.cur.epoch
           /\ r.next # NoKey => Promote(r).cur = r.next
BY NoKeyAssumption DEF Promote, Rings, Ordered, Key, Epochs

\* Letting the previous key lapse changes nothing else.
LEMMA LapseOK ==
    ASSUME NEW r \in Rings(Key), Ordered(r)
    PROVE  /\ Lapse(r) \in Rings(Key)
           /\ Ordered(Lapse(r))
           /\ Lapse(r).cur = r.cur /\ Lapse(r).next = r.next
BY NoKeyAssumption DEF Lapse, Rings, Ordered

\* The newest key of an ordered ring is its staged key, if there is one.
LEMMA NewestOK ==
    ASSUME NEW r \in Rings(Key), Ordered(r)
    PROVE  /\ Newest(r) \in Key
           /\ r.next # NoKey => Newest(r) = r.next
           /\ r.next = NoKey => Newest(r) = r.cur
           /\ Newest(r).epoch >= r.cur.epoch
BY NoKeyAssumption DEF Newest, StagedAhead, Rings, Ordered, Key, Epochs

-----------------------------------------------------------------------------
(* The invariant holds initially                                           *)

\* The inductive invariant holds in a room where everyone is on the first key
\* (HostRoom).
LEMMA InitOK == Init => IInv
<1> SUFFICES ASSUME Init PROVE IInv
  OBVIOUS
<1> USE GroupRekeyAssumption, NoKeyAssumption
<1>1. KeyOf(1) \in Key
  BY DEF KeyOf, Key, Epochs
<1>2. Outside \in Rings(Key) /\ Ordered(Outside)
  BY <1>1, NewRingOK DEF Outside
<1>3. TypeOK
  <2>1. 0 \in Stays /\ 1 \in Stays
    BY DEF Stays
  <2>2. NoRotation \in Rotation
    BY <2>1 DEF NoRotation, Rotation
  <2>3. /\ phase \in [Members -> {"out", "joining", "in"}]
        /\ stay \in [Members -> Stays] /\ ident \in [Members -> Stays]
    BY <2>1 DEF Init
  <2>4. ring \in [Nodes -> Rings(Key)]
    BY <1>2 DEF Init
  <2>5. timers \in [Members -> SUBSET Epochs] /\ given \in [Members -> SUBSET Key]
    BY <1>1 DEF Init
  <2>6. session \in [Members -> Key \cup {NoKey}]
    BY DEF Init
  <2> QED
    BY <2>2, <2>3, <2>4, <2>5, <2>6 DEF TypeOK, Init
<1>4. RingsOrdered
  BY <1>2 DEF RingsOrdered, Init
<1>5. ring[Host] = NewRing(KeyOf(1))
  BY DEF Init, Outside, Nodes
<1>6. Newest(ring[Host]) = KeyOf(1)
  BY <1>5 DEF NewRing, Newest, StagedAhead
<1>7. StagedIsRotation
  BY <1>5 DEF StagedIsRotation, Init, NoRotation, NewRing
<1>8. GivenExists
  BY <1>6 DEF GivenExists, Init, KeyOf
<1>9. RotationOwed
  BY <1>6 DEF RotationOwed, Init
<1> QED
  BY <1>3, <1>4, <1>7, <1>8, <1>9 DEF IInv

-----------------------------------------------------------------------------
(* Steps of the members                                                    *)

\* A step that leaves the host's ring, rotation and debts alone, and forgets
\* nobody without starting a rotation, keeps what ties them together.
LEMMA HostFrame ==
    ASSUME IInv, ring'[Host] = ring[Host], rot' = rot, given' = given,
           ~due' /\ spawned' = 0 =>
              /\ ~due /\ spawned = 0
              /\ \A m \in Members : ident'[m] = 0 => ident[m] = 0
    PROVE  StagedIsRotation' /\ GivenExists' /\ RotationOwed'
BY DEF IInv, StagedIsRotation, GivenExists, RotationOwed

\* Only one ring changes, and its new value is in order.
LEMMA OneRing ==
    ASSUME IInv, NEW n \in Nodes, NEW r \in Rings(Key), Ordered(r),
           ring' = [ring EXCEPT ![n] = r]
    PROVE  /\ ring' \in [Nodes -> Rings(Key)] /\ RingsOrdered'
           /\ n # Host => ring'[Host] = ring[Host]
BY DEF IInv, TypeOK, RingsOrdered, Nodes

\* Every step of a member - joining, leaving, being removed, staging,
\* promoting, asking, installing - keeps the inductive invariant.
LEMMA MemberStepOK ==
    ASSUME IInv, NEW m \in Members, MemberStep(m)
    PROVE  IInv'
<1> USE GroupRekeyAssumption, NoKeyAssumption
<1> DEFINE Same == ring' \in [Nodes -> Rings(Key)] /\ RingsOrdered' /\ ring'[Host] = ring[Host]
<1>1. /\ TypeOK /\ RingsOrdered
      /\ m \in Nodes /\ m # Host /\ Host \in Nodes
      /\ ring[m] \in Rings(Key) /\ Ordered(ring[m])
      /\ ring[m].cur \in Key /\ ring[m].cur.epoch \in Epochs
  BY DEF IInv, TypeOK, RingsOrdered, Nodes, Rings, Key
<1>2. UNCHANGED ring => Same
  BY <1>1 DEF TypeOK, RingsOrdered
<1>3. ASSUME NEW r \in Rings(Key), Ordered(r), ring' = [ring EXCEPT ![m] = r]
      PROVE  Same
  BY <1>1, <1>3, OneRing
<1>4. Outside \in Rings(Key) /\ Ordered(Outside)
  <2>1. KeyOf(1) \in Key
    BY DEF KeyOf, Key, Epochs
  <2> QED
    BY <2>1, NewRingOK DEF Outside
<1>5. ASSUME Same, UNCHANGED <<hostVars, given>>,
             /\ phase' \in [Members -> {"out", "joining", "in"}]
             /\ stay' \in [Members -> Stays]
             /\ timers' \in [Members -> SUBSET Epochs]
             /\ hostKnown' \in SUBSET Members
             /\ net' \in SUBSET Message
      PROVE  IInv'
  <2>1. TypeOK'
    BY <1>1, <1>5 DEF TypeOK, hostVars
  <2>2. StagedIsRotation' /\ GivenExists' /\ RotationOwed'
    BY <1>5, HostFrame DEF hostVars
  <2> QED
    BY <1>5, <2>1, <2>2 DEF IInv
<1>6. CASE CompleteJoin(m)
  <2>1. session[m] \in Key
    BY <1>1, <1>6 DEF CompleteJoin, TypeOK
  <2>2. Same
    BY <2>1, <1>3, <1>6, NewRingOK DEF CompleteJoin
  <2> QED
    BY <1>1, <1>5, <1>6, <2>2 DEF CompleteJoin, TypeOK
<1>7. CASE GiveUpJoin(m)
  BY <1>1, <1>2, <1>5, <1>7 DEF GiveUpJoin, TypeOK
<1>8. ASSUME LeaveRoom(m), UNCHANGED <<hostVars, given>> PROVE IInv'
  <2>1. Same
    BY <1>3, <1>4, <1>8 DEF LeaveRoom
  <2>2. LeaveMsg(m, stay[m], SealKey(ring[m])) \in Message
    BY <1>1 DEF LeaveMsg, Message, TypeOK, SealKey
  <2> QED
    BY <1>1, <1>5, <1>8, <2>1, <2>2 DEF LeaveRoom, TypeOK
<1>9. CASE Leave(m)
  BY <1>8, <1>9 DEF Leave
<1>10. CASE HandleKick(m)
  BY <1>8, <1>10 DEF HandleKick
<1>11. CASE TimeOutHost(m)
  BY <1>1, <1>2, <1>5, <1>11 DEF TimeOutHost, TypeOK
<1>12. CASE HandleRekey(m)
  <2>1. PICK p \in net :
          /\ p.type = "rekey" /\ p.to = m
          /\ \/ /\ ring' = [ring EXCEPT ![m] = Stage(@, p.key)]
                /\ timers' = [timers EXCEPT ![m] = @ \cup {p.key.epoch}]
             \/ UNCHANGED <<ring, timers>>
          /\ net' = net \cup {AckMsg(m, p.key.epoch, SealKey(ring[m]))}
          /\ UNCHANGED <<phase, stay, hostKnown, hostVars, given>>
    BY <1>12 DEF HandleRekey
  <2>2. p.key \in Key /\ p.key.epoch \in Epochs
    BY <1>1, <2>1 DEF TypeOK, Message, Key
  <2>3. Same
    BY <1>1, <1>2, <1>3, <2>1, <2>2, StageOK DEF TypeOK
  <2>4. AckMsg(m, p.key.epoch, SealKey(ring[m])) \in Message
    BY <1>1, <2>2 DEF AckMsg, Message, SealKey
  <2> QED
    BY <1>1, <1>5, <2>1, <2>2, <2>3, <2>4 DEF TypeOK
<1>13. CASE PromoteStaged(m)
  <2>1. PICK e \in timers[m] :
          /\ timers' = [timers EXCEPT ![m] = @ \ {e}]
          /\ ring' = [ring EXCEPT ![m] = Promote(@)] \/ UNCHANGED ring
          /\ UNCHANGED <<phase, stay, hostKnown, hostVars, net, given>>
    BY <1>13 DEF PromoteStaged
  <2>2. Same
    BY <1>1, <1>2, <1>3, <2>1, PromoteOK DEF TypeOK
  <2> QED
    BY <1>1, <1>5, <2>1, <2>2 DEF TypeOK
<1>14. CASE AskForKey(m)
  <2>1. RequestMsg(m) \in Message
    BY DEF RequestMsg, Message
  <2> QED
    BY <1>1, <1>2, <1>5, <1>14, <2>1 DEF AskForKey, memberVars, TypeOK
<1>15. CASE InstallKeyGrant(m)
  <2>1. PICK p \in net :
          /\ p.type = "grant" /\ p.to = m
          /\ \/ ring' = [ring EXCEPT ![m] = Promote(Stage(@, p.key))]
             \/ UNCHANGED ring
          /\ net' = net \ {p}
          /\ UNCHANGED <<memberVars, hostVars, given>>
    BY <1>15 DEF InstallKeyGrant
  <2>2. p.key \in Key
    BY <1>1, <2>1 DEF TypeOK, Message
  <2>3. /\ Promote(Stage(ring[m], p.key)) \in Rings(Key)
        /\ Ordered(Promote(Stage(ring[m], p.key)))
    BY <1>1, <2>2, StageOK, PromoteOK
  <2>4. Same
    BY <1>1, <1>2, <1>3, <2>1, <2>3 DEF TypeOK
  <2> QED
    BY <1>1, <1>5, <2>1, <2>4 DEF memberVars, TypeOK
<1> QED
  BY <1>6, <1>7, <1>9, <1>10, <1>11, <1>12, <1>13, <1>14, <1>15 DEF MemberStep

-----------------------------------------------------------------------------
(* Steps of the host                                                       *)

\* Every step of the host that concerns one member keeps the inductive
\* invariant: a step that forgets a member leaves a rotation owed.
LEMMA HostStepOK ==
    ASSUME IInv, NEW m \in Members, HostStep(m)
    PROVE  IInv'
<1> USE GroupRekeyAssumption, NoKeyAssumption
<1> DEFINE hr == ring[Host]
<1>1. /\ TypeOK /\ RingsOrdered /\ GivenExists
      /\ hr \in Rings(Key) /\ Ordered(hr)
      /\ hr.cur \in Key /\ hr.cur.epoch \in Epochs
      /\ hr.next # NoKey => hr.next \in Key /\ hr.next.epoch \in Epochs
  BY DEF IInv, TypeOK, RingsOrdered, Nodes, Rings, Key
<1>2. Newest(hr) \in Key
  BY <1>1, NewestOK
<1>3. UNCHANGED ring => RingsOrdered' /\ ring'[Host] = ring[Host]
  BY <1>1 DEF RingsOrdered
<1>4. ASSUME UNCHANGED <<ring, rot, given>>, TypeOK',
             ~due' /\ spawned' = 0 =>
                /\ ~due /\ spawned = 0
                /\ \A q \in Members : ident'[q] = 0 => ident[q] = 0
      PROVE  IInv'
  <2>1. StagedIsRotation' /\ GivenExists' /\ RotationOwed'
    BY <1>3, <1>4, HostFrame
  <2> QED
    BY <1>3, <1>4, <2>1 DEF IInv
<1>5. 0 \in Stays
  BY DEF Stays
<1>6. ASSUME Forget(m)
      PROVE  /\ peers' \in SUBSET Members /\ ident' \in [Members -> Stays]
             /\ session' \in [Members -> Key \cup {NoKey}]
  BY <1>1, <1>5, <1>6 DEF Forget, TypeOK
<1>7. CASE Admit(m)
  <2> DEFINE k == IF hr.next # NoKey /\ hr.next.epoch = rot.epoch
                  THEN hr.next ELSE hr.cur
  <2>1. k \in Key /\ k.epoch <= Newest(hr).epoch
    BY <1>1, NewestOK DEF Epochs
  <2>2. stay[m] + 1 \in Stays /\ stay[m] + 1 # 0
    BY <1>1, <1>7 DEF Admit, TypeOK, Stays
  <2>3. TypeOK'
    <3>1. /\ phase' \in [Members -> {"out", "joining", "in"}]
          /\ stay' \in [Members -> Stays] /\ ident' \in [Members -> Stays]
      BY <1>1, <1>7, <2>2 DEF Admit, TypeOK
    <3>2. /\ session' \in [Members -> Key \cup {NoKey}]
          /\ given' \in [Members -> SUBSET Key]
      BY <1>1, <1>7, <2>1 DEF Admit, TypeOK
    <3> QED
      BY <1>1, <1>7, <3>1, <3>2 DEF Admit, TypeOK
  <2>4. StagedIsRotation' /\ RotationOwed'
    BY <1>7 DEF Admit, IInv, StagedIsRotation, RotationOwed
  <2>5. GivenExists'
    BY <1>1, <1>7, <2>1 DEF Admit, GivenExists, TypeOK
  <2> QED
    BY <1>3, <1>7, <2>3, <2>4, <2>5 DEF Admit, IInv
<1>8. CASE ExpireSession(m)
  <2>1. TypeOK'
    BY <1>1, <1>8 DEF ExpireSession, memberVars, TypeOK
  <2> QED
    BY <1>4, <1>8, <2>1 DEF ExpireSession
<1>9. CASE Register(m)
  <2>1. TypeOK'
    BY <1>1, <1>9 DEF Register, memberVars, TypeOK
  <2> QED
    BY <1>4, <1>9, <2>1 DEF Register
<1>10. CASE HandleLeave(m)
  <2>1. TypeOK'
    BY <1>1, <1>6, <1>10 DEF HandleLeave, memberVars, TypeOK
  <2> QED
    BY <1>4, <1>10, <2>1 DEF HandleLeave
<1>11. CASE TimeOutMember(m)
  <2>1. TypeOK'
    BY <1>1, <1>6, <1>11 DEF TimeOutMember, memberVars, TypeOK
  <2> QED
    BY <1>4, <1>11, <2>1 DEF TimeOutMember
<1>12. CASE Kick(m)
  <2>1. KickMsg(m, ident[m], SealKey(hr)) \in Message
    BY <1>1 DEF KickMsg, Message, TypeOK, SealKey
  <2>2. TypeOK'
    <3>1. /\ net' \in SUBSET Message /\ removed' \in SUBSET Members
          /\ due' \in BOOLEAN
      BY <1>1, <1>12, <2>1 DEF Kick, TypeOK
    <3>2. spawned' \in Nat
      BY <1>1, <1>12 DEF Kick, TypeOK
    <3>3. UNCHANGED <<memberVars, ring, rot, given>> /\ Forget(m)
      BY <1>12 DEF Kick
    <3> QED
      BY <1>1, <1>6, <3>1, <3>2, <3>3 DEF memberVars, TypeOK
  <2>3. spawned' # 0
    BY <1>1, <1>12 DEF Kick, TypeOK
  <2> QED
    BY <1>4, <1>12, <2>2, <2>3 DEF Kick
<1>13. CASE HandleAck(m)
  <2>1. rot' \in Rotation /\ rot'.live = rot.live /\ rot'.epoch = rot.epoch
    BY <1>1, <1>13 DEF HandleAck, TypeOK, Rotation
  <2>2. TypeOK'
    BY <1>1, <1>13, <2>1 DEF HandleAck, memberVars, TypeOK
  <2>3. StagedIsRotation' /\ GivenExists' /\ RotationOwed'
    BY <1>13, <2>1
       DEF HandleAck, IInv, StagedIsRotation, GivenExists, RotationOwed
  <2> QED
    BY <1>3, <1>13, <2>2, <2>3 DEF HandleAck, IInv
<1>14. CASE AnswerKeyRequest(m)
  <2>1. GrantMsg(m, ident[m], Newest(hr)) \in Message
    BY <1>1, <1>2 DEF GrantMsg, Message, TypeOK
  <2>2. given' = [given EXCEPT ![m] = @ \cup {Newest(hr)}]
    BY <1>14 DEF AnswerKeyRequest
  <2>3. TypeOK'
    BY <1>1, <1>2, <1>14, <2>1, <2>2
       DEF AnswerKeyRequest, memberVars, hostVars, TypeOK
  <2>4. StagedIsRotation' /\ RotationOwed'
    BY <1>1, <1>14, <2>2
       DEF AnswerKeyRequest, hostVars, IInv, StagedIsRotation, RotationOwed, TypeOK
  <2>5. GivenExists'
    <3>1. UNCHANGED ring
      BY <1>14 DEF AnswerKeyRequest
    <3>2. Newest(hr).epoch <= Newest(hr).epoch
      BY <1>2 DEF Key, Epochs
    <3> QED
      BY <1>1, <2>2, <3>1, <3>2 DEF GivenExists, TypeOK
  <2> QED
    BY <1>3, <1>14, <2>3, <2>4, <2>5 DEF AnswerKeyRequest, IInv
<1> QED
  BY <1>7, <1>8, <1>9, <1>10, <1>11, <1>12, <1>13, <1>14 DEF HostStep

-----------------------------------------------------------------------------
(* Steps of a rotation                                                     *)

\* rotateGroupKey keeps the parts of the invariant it touches: the staged key
\* is the rotation's, it is new, and nobody the host forgot is given it.
LEMMA RotateGroupKeyOK ==
    ASSUME IInv, RotateGroupKey, spawned' \in Nat
    PROVE  IInv'
<1> USE GroupRekeyAssumption, NoKeyAssumption
<1> DEFINE hr == ring[Host]
           k  == KeyOf(Newest(hr).epoch + 1)
<1>1. /\ TypeOK /\ RingsOrdered /\ GivenExists
      /\ Host \in Nodes /\ hr \in Rings(Key) /\ Ordered(hr)
  BY DEF IInv, TypeOK, RingsOrdered, Nodes
<1>2. /\ Newest(hr) \in Key /\ Newest(hr).epoch \in Epochs
      /\ hr.next # NoKey => Newest(hr) = hr.next
      /\ hr.cur.epoch \in Epochs /\ Newest(hr).epoch >= hr.cur.epoch
  BY <1>1, NewestOK DEF Rings, Key
<1>3. k \in Key /\ k.epoch = Newest(hr).epoch + 1
  BY <1>2 DEF RotateGroupKey, KeyOf, Key, Epochs
<1>4. Stageable(hr, k)
  BY <1>2, <1>3 DEF Stageable, Epochs
<1>5. /\ Stage(hr, k) \in Rings(Key) /\ Ordered(Stage(hr, k))
      /\ Stage(hr, k).next = k
  BY <1>1, <1>3, <1>4, StageOK
<1>6. ring' = [ring EXCEPT ![Host] = Stage(hr, k)]
  BY DEF RotateGroupKey
<1>7. /\ ring' \in [Nodes -> Rings(Key)] /\ RingsOrdered'
      /\ ring'[Host] = Stage(hr, k)
  BY <1>1, <1>5, <1>6, OneRing DEF TypeOK
<1>8. k # NoKey /\ Newest(ring'[Host]) = k
  BY <1>3, <1>5, <1>7, NewestOK
<1>9. /\ rot'.epoch = k.epoch /\ rot'.live = TRUE
      /\ rot' \in Rotation
  <2>1. \A m \in Members : ident[m] \in Stays /\ 0 \in Stays
    BY <1>1 DEF TypeOK, Stays
  <2>2. [m \in Members |-> IF m \in Recipients THEN ident[m] ELSE 0]
          \in [Members -> Stays]
    BY <2>1
  <2>3. k.epoch \in 0 .. MaxEpoch /\ 0 \in 0 .. MaxTries
    BY <1>3 DEF Key, Epochs
  <2> QED
    BY <2>2, <2>3 DEF RotateGroupKey, Rotation
<1>10. TypeOK'
  <2>1. given' \in [Members -> SUBSET Key] /\ due' \in BOOLEAN
    BY <1>1, <1>3 DEF RotateGroupKey, TypeOK
  <2> QED
    BY <1>1, <1>7, <1>9, <2>1 DEF RotateGroupKey, memberVars, TypeOK
<1>11. StagedIsRotation'
  BY <1>5, <1>7, <1>8, <1>9 DEF StagedIsRotation
<1>12. ASSUME NEW m \in Members, NEW q \in given'[m]
       PROVE  q.epoch <= k.epoch
  <2>1. q \in given[m] \/ q = k
    BY <1>12 DEF RotateGroupKey
  <2>2. q \in given[m] => q \in Key /\ q.epoch <= Newest(hr).epoch
    BY <1>1 DEF GivenExists, TypeOK
  <2> QED
    BY <1>2, <1>3, <2>1, <2>2 DEF Key, Epochs
<1>13. ASSUME NEW m \in Members, ident[m] = 0
       PROVE  k \notin given'[m]
  <2>1. given'[m] = given[m]
    BY <1>13 DEF RotateGroupKey, Recipients
  <2>2. \A q \in given[m] : q.epoch <= Newest(hr).epoch
    BY <1>1 DEF GivenExists
  <2> QED
    BY <1>2, <1>3, <2>1, <2>2 DEF Epochs
<1>14. GivenExists'
  BY <1>8, <1>12 DEF GivenExists
<1>15. RotationOwed'
  BY <1>8, <1>13 DEF RotationOwed, RotateGroupKey
<1> QED
  BY <1>7, <1>10, <1>11, <1>14, <1>15 DEF IInv

\* A pass of the retry loop only sends and counts.
LEMMA RekeyAttemptOK ==
    ASSUME IInv, RekeyAttempt
    PROVE  IInv'
<1> USE GroupRekeyAssumption, NoKeyAssumption
<1>1. /\ TypeOK /\ Host \in Nodes
      /\ ring[Host] \in Rings(Key) /\ ring[Host].cur \in Key
  BY DEF IInv, TypeOK, Nodes, Rings
<1>2. KeyOf(rot.epoch) \in Key
  <2>1. ring[Host].next \in Key /\ ring[Host].next.epoch = rot.epoch
    BY <1>1 DEF RekeyAttempt, IInv, StagedIsRotation, Rings
  <2> QED
    BY <2>1 DEF KeyOf, Key
<1>3. \A m \in Pending :
         RekeyMsg(m, rot.to[m], KeyOf(rot.epoch), SealKey(ring[Host])) \in Message
  BY <1>1, <1>2 DEF Pending, RekeyMsg, Message, SealKey, TypeOK, Rotation
<1>4. rot' \in Rotation /\ rot'.live = rot.live /\ rot'.epoch = rot.epoch
  <2>1. rot.tries + 1 \in 0 .. MaxTries
    BY <1>1 DEF RekeyAttempt, TypeOK, Rotation
  <2>2. rot \in Rotation /\ rot' = [rot EXCEPT !.tries = rot.tries + 1]
    BY <1>1 DEF RekeyAttempt, TypeOK
  <2> QED
    BY <2>1, <2>2 DEF Rotation
<1>5. TypeOK'
  <2>1. net' \in SUBSET Message
    BY <1>1, <1>3 DEF RekeyAttempt, TypeOK
  <2> QED
    BY <1>1, <1>4, <2>1 DEF RekeyAttempt, memberVars, TypeOK
<1> QED
  BY <1>4, <1>5
     DEF RekeyAttempt, IInv, RingsOrdered, StagedIsRotation, GivenExists,
         RotationOwed

\* Promoting at the end of a rotation keeps the inductive invariant.
LEMMA FinishRotationOK ==
    ASSUME IInv, FinishRotation
    PROVE  IInv'
<1> USE GroupRekeyAssumption, NoKeyAssumption
<1> DEFINE hr == ring[Host]
<1>1. /\ TypeOK /\ RingsOrdered
      /\ Host \in Nodes /\ hr \in Rings(Key) /\ Ordered(hr)
      /\ hr.next # NoKey
  BY DEF IInv, TypeOK, RingsOrdered, Nodes, StagedIsRotation, FinishRotation
<1>2. /\ Promote(hr) \in Rings(Key) /\ Ordered(Promote(hr))
      /\ Promote(hr).next = NoKey /\ Promote(hr).cur = hr.next
  BY <1>1, PromoteOK
<1>3. ring' = [ring EXCEPT ![Host] = Promote(hr)]
  BY DEF FinishRotation
<1>4. /\ ring' \in [Nodes -> Rings(Key)] /\ RingsOrdered'
      /\ ring'[Host] = Promote(hr)
  BY <1>1, <1>2, <1>3, OneRing DEF TypeOK
<1>5. Newest(ring'[Host]) = Newest(hr)
  BY <1>1, <1>2, <1>4, NewestOK
<1>6. rot' \in Rotation /\ ~rot'.live
  BY <1>1 DEF FinishRotation, TypeOK, Rotation
<1>7. TypeOK'
  BY <1>1, <1>4, <1>6 DEF FinishRotation, memberVars, TypeOK
<1>8. StagedIsRotation'
  BY <1>2, <1>4, <1>6 DEF StagedIsRotation
<1>9. GivenExists' /\ RotationOwed'
  BY <1>5 DEF FinishRotation, IInv, GivenExists, RotationOwed
<1> QED
  BY <1>4, <1>7, <1>8, <1>9 DEF IInv

\* The end of a previous key's grace keeps the inductive invariant.
LEMMA GraceLapsesOK ==
    ASSUME IInv, NEW n \in Nodes, GraceLapses(n)
    PROVE  IInv'
<1>1. TypeOK /\ ring[n] \in Rings(Key) /\ Ordered(ring[n])
      /\ Host \in Nodes /\ ring[Host] \in Rings(Key)
  BY DEF IInv, TypeOK, RingsOrdered, Nodes
<1>2. ring' = [ring EXCEPT ![n] = Lapse(ring[n])]
  BY DEF GraceLapses
<1>3. ring' \in [Nodes -> Rings(Key)] /\ RingsOrdered'
  BY <1>1, <1>2, LapseOK, OneRing
<1>4. ring'[Host].cur = ring[Host].cur /\ ring'[Host].next = ring[Host].next
  BY <1>1, <1>2, LapseOK DEF TypeOK
<1>5. Newest(ring'[Host]) = Newest(ring[Host])
  BY <1>4 DEF Newest, StagedAhead
<1>6. TypeOK'
  BY <1>1, <1>3 DEF GraceLapses, memberVars, hostVars, TypeOK
<1>7. StagedIsRotation' /\ GivenExists' /\ RotationOwed'
  BY <1>4, <1>5
     DEF GraceLapses, hostVars, IInv, StagedIsRotation, GivenExists, RotationOwed
<1> QED
  BY <1>3, <1>6, <1>7 DEF IInv

-----------------------------------------------------------------------------
(* The theorems                                                            *)

\* Every step of the room keeps the inductive invariant.
LEMMA StepOK == IInv /\ [Next]_vars => IInv'
<1> SUFFICES ASSUME IInv, [Next]_vars PROVE IInv'
  OBVIOUS
<1>1. CASE UNCHANGED vars
  BY <1>1 DEF vars, memberVars, hostVars, IInv, TypeOK, RingsOrdered,
              StagedIsRotation, GivenExists, RotationOwed
<1>2. CASE RotatePort
  <2>1. UNCHANGED ring /\ TypeOK'
    BY <1>2 DEF RotatePort, IInv, memberVars, TypeOK
  <2>2. StagedIsRotation' /\ GivenExists' /\ RotationOwed'
    BY <1>2, <2>1, HostFrame DEF RotatePort
  <2> QED
    BY <2>1, <2>2 DEF IInv, RingsOrdered
<1>3. CASE RotateOnTimer
  BY <1>3, RotateGroupKeyOK DEF RotateOnTimer, IInv, TypeOK
<1>4. CASE RotateOnRemoval
  BY <1>4, RotateGroupKeyOK DEF RotateOnRemoval, IInv, TypeOK
<1> QED
  BY <1>1, <1>2, <1>3, <1>4, MemberStepOK, HostStepOK, RekeyAttemptOK,
     FinishRotationOK, GraceLapsesOK DEF Next

\* The inductive invariant holds in every reachable state.
LEMMA Inductive == Spec => []IInv
BY InitOK, StepOK, PTL DEF Spec

\* Every slot of the state holds what its code can put there.
THEOREM TypeCorrect == Spec => []TypeOK
BY Inductive, PTL DEF IInv

\* Staged keys are newer and previous keys older than the active one in every
\* ring of the room, in whatever order rekeys, grants and timers arrive.
THEOREM RingsStayOrdered == Spec => []RingsOrdered
BY Inductive, PTL DEF IInv

\* When the host has nothing left to do, the room is sealed with a key that
\* was never sealed for a member the host dropped (leave, time-out, kick).
THEOREM DepartedMembersCannotFollow == Spec => []DepartedCannotFollow
<1>1. IInv => DepartedCannotFollow
  <2> SUFFICES ASSUME IInv, Idle,
                      NEW m \in Members, ident[m] = 0
               PROVE  ring[Host].cur \notin given[m]
    BY DEF DepartedCannotFollow, SealKey
  <2>1. ring[Host] \in Rings(Key) /\ Ordered(ring[Host])
    BY DEF IInv, TypeOK, RingsOrdered, Nodes
  <2>2. Newest(ring[Host]) = ring[Host].cur
    BY <2>1, NewestOK DEF Idle, IInv, StagedIsRotation
  <2> QED
    BY <2>2 DEF Idle, IInv, RotationOwed
<1> QED
  BY <1>1, Inductive, PTL

-----------------------------------------------------------------------------
(* Epochs only grow                                                        *)

\* Staging and promoting, in whatever order rekeys, grants and timers ask for
\* it, never takes a node of the room back to an older key.
THEOREM EpochsNeverGoBack == Spec => EpochsOnlyGrow
<1> DEFINE Grow(n) == ring'[n].cur.epoch >= ring[n].cur.epoch
           Stay    == {Host} \cup (InRoom \cap InRoom')
<1>1. ASSUME IInv, Next
      PROVE  \A n \in Stay : Grow(n)
  <2> SUFFICES ASSUME NEW n \in Stay PROVE Grow(n)
    OBVIOUS
  <2> USE GroupRekeyAssumption, NoKeyAssumption
  <2>1. /\ \A q \in Nodes : ring[q] \in Rings(Key) /\ Ordered(ring[q])
        /\ ring \in [Nodes -> Rings(Key)] /\ n \in Nodes
    BY <1>1 DEF IInv, TypeOK, RingsOrdered, Nodes, InRoom
  <2>2. ring[n].cur.epoch \in Nat
    BY <2>1 DEF Rings, Key, Epochs
  <2>3. UNCHANGED ring => Grow(n)
    BY <2>2
  <2>4. ASSUME NEW q \in Nodes, NEW r,
               ring' = [ring EXCEPT ![q] = r], r.cur.epoch >= ring[q].cur.epoch
        PROVE  Grow(n)
    BY <2>1, <2>2, <2>4
  <2>5. ASSUME NEW m \in Members, MemberStep(m)
        PROVE  Grow(n)
    <3>1. m \in Nodes /\ ring[m] \in Rings(Key) /\ Ordered(ring[m])
      BY <2>1 DEF Nodes
    <3>2. CASE CompleteJoin(m)
      BY <2>1, <2>2, <3>2 DEF CompleteJoin, InRoom, IInv, TypeOK
    <3>3. CASE Leave(m) \/ HandleKick(m)
      BY <1>1, <2>1, <2>2, <3>3
         DEF Leave, HandleKick, LeaveRoom, InRoom, IInv, TypeOK
    <3>4. CASE HandleRekey(m)
      <4>1. PICK p \in net :
              /\ p.type = "rekey"
              /\ \/ ring' = [ring EXCEPT ![m] = Stage(@, p.key)]
                 \/ UNCHANGED ring
        BY <3>4 DEF HandleRekey
      <4>2. p.key \in Key
        BY <1>1, <4>1 DEF IInv, TypeOK, Message
      <4>3. Stage(ring[m], p.key).cur.epoch >= ring[m].cur.epoch
        BY <3>1, <4>2, StageOK DEF Rings, Key, Epochs
      <4> QED
        BY <2>1, <2>3, <2>4, <3>1, <4>1, <4>3
    <3>5. CASE PromoteStaged(m)
      BY <2>1, <2>3, <2>4, <3>1, <3>5, PromoteOK DEF PromoteStaged
    <3>6. CASE InstallKeyGrant(m)
      <4>1. PICK p \in net :
              /\ p.type = "grant"
              /\ \/ ring' = [ring EXCEPT ![m] = Promote(Stage(@, p.key))]
                 \/ UNCHANGED ring
        BY <3>6 DEF InstallKeyGrant
      <4>2. p.key \in Key
        BY <1>1, <4>1 DEF IInv, TypeOK, Message
      <4>3. Promote(Stage(ring[m], p.key)).cur.epoch >= ring[m].cur.epoch
        BY <3>1, <4>2, StageOK, PromoteOK DEF Rings, Key, Epochs
      <4> QED
        BY <2>1, <2>3, <2>4, <3>1, <4>1, <4>3
    <3>7. CASE GiveUpJoin(m) \/ TimeOutHost(m) \/ AskForKey(m)
      BY <2>3, <3>7 DEF GiveUpJoin, TimeOutHost, AskForKey
    <3> QED
      BY <2>5, <3>2, <3>3, <3>4, <3>5, <3>6, <3>7 DEF MemberStep
  <2>6. ASSUME NEW m \in Members, HostStep(m)
        PROVE  Grow(n)
    BY <2>3, <2>6
       DEF HostStep, Admit, ExpireSession, Register, HandleLeave,
           TimeOutMember, Kick, HandleAck, AnswerKeyRequest
  <2>7. Host \in Nodes /\ ring[Host] \in Rings(Key) /\ Ordered(ring[Host])
    BY <2>1 DEF Nodes
  <2>8. CASE RotateGroupKey
    <3> DEFINE k == KeyOf(Newest(ring[Host]).epoch + 1)
    <3>1. ring' = [ring EXCEPT ![Host] = Stage(ring[Host], k)]
      BY <2>8 DEF RotateGroupKey
    <3>2. Stage(ring[Host], k).cur = ring[Host].cur
      BY <2>7 DEF Stage, Rings
    <3> QED
      BY <2>1, <2>4, <2>7, <3>1, <3>2 DEF Rings, Key, Epochs
  <2>9. CASE RotatePort \/ RekeyAttempt
    BY <2>3, <2>9 DEF RotatePort, RekeyAttempt
  <2>10. CASE FinishRotation
    BY <2>4, <2>7, <2>10, PromoteOK DEF FinishRotation
  <2>11. ASSUME NEW q \in Nodes, GraceLapses(q)
         PROVE  Grow(n)
    <3>1. Lapse(ring[q]).cur = ring[q].cur
      BY <2>1, LapseOK
    <3> QED
      BY <2>1, <2>4, <2>11, <3>1 DEF GraceLapses, Rings, Key, Epochs
  <2> QED
    BY <1>1, <2>5, <2>6, <2>8, <2>9, <2>10, <2>11
       DEF Next, RotateOnTimer, RotateOnRemoval
<1> QED
  BY <1>1, Inductive, PTL DEF Spec, EpochsOnlyGrow

-----------------------------------------------------------------------------
(* The rotation protocol implements KeyPolicy                              *)

\* The values the refinement mapping gives the variables of KeyPolicy.
Entitled == {m \in Members : ident[m] # 0}
Holds == [m \in Members |-> {k.epoch : k \in given[m]}]
Active == ring[Host].cur.epoch
Latest == Newest(ring[Host]).epoch

\* A step that leaves them alone is a stuttering step of KeyPolicy.
LEMMA PolicyStutters ==
    ASSUME UNCHANGED <<ident, given>>, ring'[Host] = ring[Host]
    PROVE  UNCHANGED Policy!vars
BY DEF Policy!vars, SealKey

\* Sealing one more key for one member adds its epoch to what the member holds.
LEMMA GiveOne ==
    ASSUME TypeOK, NEW m \in Members, NEW k,
           given' = [given EXCEPT ![m] = @ \cup {k}]
    PROVE  Holds' = [Holds EXCEPT ![m] = @ \cup {k.epoch}]
<1>1. given' \in [Members -> SUBSET (Key \cup {k})]
  BY DEF TypeOK
<1>2. ASSUME NEW q \in Members
      PROVE  {x.epoch : x \in given'[q]}
               = [Holds EXCEPT ![m] = @ \cup {k.epoch}][q]
  BY DEF TypeOK, Holds
<1> QED
  BY <1>2 DEF Holds

\* A step of the host that concerns one member is a step of KeyPolicy: it
\* admits, forgets or answers that member, or changes nothing KeyPolicy sees.
LEMMA PolicyHostStep ==
    ASSUME IInv, NEW m \in Members, HostStep(m)
    PROVE  [Policy!Next]_(Policy!vars)
<1> USE GroupRekeyAssumption
<1> DEFINE hr == ring[Host]
<1>1. TypeOK /\ hr \in Rings(Key) /\ Ordered(hr)
  BY DEF IInv, TypeOK, RingsOrdered, Nodes
<1>2. ASSUME Forget(m), UNCHANGED <<given, ring>>
      PROVE  Policy!Forget(m)
  BY <1>1, <1>2 DEF Forget, Policy!Forget, TypeOK
<1>3. CASE Admit(m)
  <2> DEFINE k == IF hr.next # NoKey /\ hr.next.epoch = rot.epoch
                  THEN hr.next ELSE hr.cur
  <2>1. Entitled' = Entitled \cup {m}
    <3>1. ident' = [ident EXCEPT ![m] = stay[m] + 1] /\ stay[m] + 1 # 0
      BY <1>1, <1>3 DEF Admit, TypeOK, Stays
    <3> QED
      BY <1>1, <3>1 DEF Entitled, TypeOK
  <2>2. Holds' = [Holds EXCEPT ![m] = @ \cup {k.epoch}]
    BY <1>1, <1>3, GiveOne DEF Admit
  <2>3. k.epoch \in {Active, Latest}
    BY <1>1, NewestOK DEF Active, Latest
  <2>4. UNCHANGED <<Active, Latest>>
    BY <1>3 DEF Admit, Active, Latest
  <2>5. Policy!Admit(m)
    BY <2>1, <2>2, <2>3, <2>4
       DEF Policy!Admit, Entitled, Holds, Active, Latest, SealKey
  <2> QED
    BY <2>5 DEF Policy!Next
<1>4. CASE ExpireSession(m) \/ Register(m) \/ HandleAck(m)
  BY <1>4, PolicyStutters DEF ExpireSession, Register, HandleAck
<1>5. CASE HandleLeave(m) \/ TimeOutMember(m) \/ Kick(m)
  BY <1>2, <1>5 DEF HandleLeave, TimeOutMember, Kick, Policy!Next
<1>6. CASE AnswerKeyRequest(m)
  <2>1. Holds' = [Holds EXCEPT ![m] = @ \cup {Latest}]
    BY <1>1, <1>6, GiveOne DEF AnswerKeyRequest, Latest
  <2>2. UNCHANGED <<ident, ring>>
    BY <1>6 DEF AnswerKeyRequest, hostVars
  <2>3. ident[m] # 0
    BY <1>6 DEF AnswerKeyRequest
  <2>4. Policy!Resend(m)
    BY <2>1, <2>2, <2>3 DEF Policy!Resend, Holds, Latest
  <2> QED
    BY <2>4 DEF Policy!Next
<1> QED
  BY <1>3, <1>4, <1>5, <1>6 DEF HostStep

\* Starting a rotation is KeyPolicy's Generate for members that are entitled.
LEMMA PolicyRotate ==
    ASSUME IInv, RotateGroupKey
    PROVE  Policy!Next
<1> USE GroupRekeyAssumption, NoKeyAssumption
<1> DEFINE hr == ring[Host]
           k  == KeyOf(Newest(hr).epoch + 1)
<1>1. /\ TypeOK /\ Host \in Nodes /\ ring \in [Nodes -> Rings(Key)]
      /\ hr \in Rings(Key) /\ Ordered(hr)
  BY DEF IInv, TypeOK, RingsOrdered, Nodes
<1>2. /\ Newest(hr).epoch \in Epochs /\ hr.cur.epoch \in Epochs
      /\ hr.next # NoKey => Newest(hr) = hr.next
      /\ Newest(hr).epoch >= hr.cur.epoch
  BY <1>1, NewestOK DEF Rings, Key
<1>3. k \in Key /\ k.epoch = Newest(hr).epoch + 1 /\ Stageable(hr, k)
  BY <1>2 DEF RotateGroupKey, KeyOf, Key, Epochs, Stageable
<1>4. /\ ring'[Host] = Stage(hr, k)
      /\ Stage(hr, k) \in Rings(Key) /\ Ordered(Stage(hr, k))
      /\ Stage(hr, k).next = k /\ Stage(hr, k).cur = hr.cur
  BY <1>1, <1>3, StageOK DEF RotateGroupKey
<1>5. Newest(ring'[Host]) = k
  BY <1>3, <1>4, NewestOK
<1>6. Latest' = Latest + 1 /\ Active' = Active
  BY <1>3, <1>4, <1>5 DEF Latest, Active
<1>7. Recipients \subseteq Entitled /\ Entitled' = Entitled
  BY DEF RotateGroupKey, Recipients, Entitled
<1>8. Holds' = [m \in Members |-> IF m \in Recipients
                                  THEN Holds[m] \cup {Latest'} ELSE Holds[m]]
  BY <1>3, <1>5 DEF RotateGroupKey, Holds, Latest
<1>9. PICK S \in SUBSET Members : S = Recipients
  BY DEF Recipients
<1>10. Policy!Generate(S)
  BY <1>6, <1>7, <1>8, <1>9
     DEF Policy!Generate, Entitled, Holds, Active, Latest, SealKey
<1> QED
  BY <1>10 DEF Policy!Next

\* Whatever is lost, delayed or repeated, and however rotations supersede one
\* another, the host seals a key only for members it knows the identity of,
\* and only the active key or the one about to replace it.
THEOREM ImplementsKeyPolicy == Spec => FollowsKeyPolicy
<1> USE GroupRekeyAssumption, NoKeyAssumption
<1>1. Init => Policy!Init
  <2> SUFFICES ASSUME Init PROVE Policy!Init
    OBVIOUS
  <2>1. ring[Host] = NewRing(KeyOf(1))
    BY DEF Init, Outside, Nodes
  <2>2. Active = 1 /\ Latest = 1
    BY <2>1 DEF Active, Latest, NewRing, Newest, StagedAhead, KeyOf
  <2>3. Entitled = Initial
    BY DEF Init, Entitled
  <2>4. Holds = [m \in Members |-> IF m \in Initial THEN {1} ELSE {}]
    <3>1. {k.epoch : k \in {KeyOf(1)}} = {1}
      BY DEF KeyOf
    <3>2. \A m \in Members : {k.epoch : k \in given[m]}
                             = IF m \in Initial THEN {1} ELSE {}
      BY <3>1 DEF Init
    <3> QED
      BY <3>2 DEF Holds
  <2> QED
    BY <2>2, <2>3, <2>4 DEF Policy!Init, Entitled, Holds, Active, Latest, SealKey
<1>2. ASSUME IInv, [Next]_vars
      PROVE  [Policy!Next]_(Policy!vars)
  <2>1. CASE UNCHANGED vars
    BY <2>1, PolicyStutters DEF vars, hostVars
  <2>2. ASSUME NEW m \in Members, MemberStep(m)
        PROVE  UNCHANGED Policy!vars
    <3>1. UNCHANGED <<ident, given>> /\ ring'[Host] = ring[Host]
      BY <1>2, <2>2
         DEF MemberStep, CompleteJoin, GiveUpJoin, Leave, HandleKick, LeaveRoom,
             TimeOutHost, HandleRekey, PromoteStaged, AskForKey, InstallKeyGrant,
             hostVars, IInv, TypeOK, Nodes
    <3> QED
      BY <3>1, PolicyStutters
  <2>3. CASE RotateOnTimer \/ RotateOnRemoval
    BY <1>2, <2>3, PolicyRotate DEF RotateOnTimer, RotateOnRemoval
  <2>4. CASE RotatePort \/ RekeyAttempt
    BY <2>4, PolicyStutters DEF RotatePort, RekeyAttempt
  <2>5. CASE FinishRotation
    <3>1. /\ ring[Host] \in Rings(Key) /\ Ordered(ring[Host])
          /\ ring[Host].next # NoKey /\ ring'[Host] = Promote(ring[Host])
      BY <1>2, <2>5
         DEF FinishRotation, IInv, TypeOK, RingsOrdered, StagedIsRotation, Nodes
    <3>2. Newest(ring'[Host]) = ring[Host].next
          /\ ring'[Host].cur = ring[Host].next
          /\ Newest(ring[Host]) = ring[Host].next
      BY <3>1, PromoteOK, NewestOK
    <3>3. Policy!Activate
      BY <2>5, <3>2 DEF Policy!Activate, FinishRotation, SealKey
    <3> QED
      BY <3>3 DEF Policy!Next
  <2>6. ASSUME NEW n \in Nodes, GraceLapses(n)
        PROVE  UNCHANGED Policy!vars
    <3>1. /\ ring'[Host].cur = ring[Host].cur
          /\ ring'[Host].next = ring[Host].next
      BY <1>2, <2>6, LapseOK
         DEF GraceLapses, IInv, TypeOK, RingsOrdered, Nodes
    <3>2. Newest(ring'[Host]) = Newest(ring[Host])
      BY <3>1 DEF Newest, StagedAhead
    <3> QED
      BY <2>6, <3>1, <3>2 DEF GraceLapses, hostVars, Policy!vars, SealKey
  <2> QED
    BY <1>2, <2>1, <2>2, <2>3, <2>4, <2>5, <2>6, PolicyHostStep DEF Next
<1> QED
  BY <1>1, <1>2, Inductive, PTL DEF Spec, FollowsKeyPolicy, Policy!Spec

-----------------------------------------------------------------------------
(* What an acknowledgement is worth: the proof that a member counted as      *)
(* having acknowledged a rotation ends up sealing with the host's key        *)
(* (AckedMembersAgree), however late, repeated or superseded the messages    *)
(* and timers of the rotation are.                                           *)

LatestEpoch == Newest(ring[Host]).epoch

\* No key travels, waits in a join session or sits in a member's ring that is
\* newer than the host's newest, and no acknowledgement names one.
NothingNewer ==
    /\ \A p \in net :
          /\ p.type \in {"rekey", "grant"} => p.key.epoch <= LatestEpoch
          /\ p.type = "ack" => p.epoch <= LatestEpoch
    /\ \A m \in Members :
          /\ session[m] # NoKey => session[m].epoch <= LatestEpoch
          /\ ring[m].cur.epoch <= LatestEpoch
          /\ ring[m].next # NoKey => ring[m].next.epoch <= LatestEpoch

\* The last rotation made the newest key; before the first there is none.
LastRotation == rot.epoch # 0 => rot.epoch = LatestEpoch

\* A member that staged a key will promote it.
StagedHasTimer ==
    \A m \in Members :
        ring[m].next # NoKey => ring[m].next.epoch \in timers[m]

\* Leaving the room stops the promotion timers.
TimersInRoom == \A m \in Members : timers[m] # {} => phase[m] = "in"

\* The host knows no identity that was not admitted yet.
StaysKnown == \A m \in Members : ident[m] <= stay[m] /\ rot.to[m] <= stay[m]

\* Whoever counts as having acknowledged did send an acknowledgement.
AcksSent ==
    \A m \in rot.acked :
        \E p \in net : p.type = "ack" /\ p.from = m /\ p.epoch = rot.epoch

\* An acknowledgement of the last rotation was sent by a member that has its
\* key active or staged; a member that joins has sent none.
HasRotationKey(r) ==
    \/ r.cur.epoch >= rot.epoch
    \/ r.next # NoKey /\ r.next.epoch = rot.epoch

AckMeans ==
    \A p \in net :
        (p.type = "ack" /\ p.epoch = rot.epoch /\ stay[p.from] = rot.to[p.from])
        => \/ phase[p.from] = "out"
           \/ phase[p.from] = "in" /\ HasRotationKey(ring[p.from])

Agreement ==
    /\ NothingNewer
    /\ LastRotation
    /\ StagedHasTimer
    /\ TimersInRoom
    /\ StaysKnown
    /\ AcksSent
    /\ AckMeans

AInv == IInv /\ Agreement

-----------------------------------------------------------------------------
(* Steps of the members                                                    *)

\* What a member may do to its ring, its timers and the network.
LEMMA MemberFrame ==
    ASSUME AInv, NEW m \in Members, NEW r,
           UNCHANGED <<stay, hostVars>>,
           ring' = [ring EXCEPT ![m] = r],
           r.cur.epoch <= LatestEpoch,
           r.next # NoKey => /\ r.next.epoch <= LatestEpoch
                             /\ r.next.epoch \in timers'[m],
           timers'[m] # {} => phase'[m] = "in",
           \A q \in Members \ {m} : timers'[q] = timers[q] /\ phase'[q] = phase[q],
           \/ phase'[m] = "out"
           \/ phase'[m] = "in" /\ phase[m] = "joining"
           \/ /\ phase'[m] = "in" /\ phase[m] = "in"
              /\ HasRotationKey(ring[m]) => HasRotationKey(r),
           \A p \in net : p.type = "ack" => p \in net',
           \A p \in net' \ net :
              \/ p.type \in {"leave", "request"}
              \/ /\ p.type = "ack" /\ p.from = m /\ p.epoch <= LatestEpoch
                 /\ p.epoch = rot.epoch => phase'[m] = "in" /\ HasRotationKey(r)
    PROVE  Agreement'
<1> USE GroupRekeyAssumption
<1>1. /\ Agreement /\ TypeOK
      /\ ring'[Host] = ring[Host] /\ ring'[m] = r
      /\ \A q \in Members \ {m} : ring'[q] = ring[q]
      /\ UNCHANGED <<ident, session, rot>>
  BY DEF AInv, IInv, TypeOK, Nodes, hostVars
<1>2. LatestEpoch' = LatestEpoch
  BY <1>1 DEF LatestEpoch
<1>3. \A p \in net : p.type = "ack" => p.from \in Members
  BY <1>1 DEF TypeOK, Message
<1>4. NothingNewer'
  BY <1>1, <1>2 DEF Agreement, NothingNewer
<1>5. LastRotation'
  BY <1>1, <1>2 DEF Agreement, LastRotation
<1>6. StagedHasTimer' /\ TimersInRoom' /\ StaysKnown'
  BY <1>1 DEF Agreement, StagedHasTimer, TimersInRoom, StaysKnown
<1>7. AcksSent'
  BY <1>1 DEF Agreement, AcksSent
<1>8. AckMeans'
  <2> SUFFICES ASSUME NEW p \in net', p.type = "ack", p.epoch = rot.epoch,
                      stay[p.from] = rot.to[p.from]
               PROVE  \/ phase'[p.from] = "out"
                      \/ phase'[p.from] = "in" /\ HasRotationKey(ring'[p.from])
    BY <1>1 DEF AckMeans, HasRotationKey
  <2>1. CASE p \notin net
    BY <1>1, <2>1
  <2>2. CASE p \in net
    <3>1. \/ phase[p.from] = "out"
          \/ phase[p.from] = "in" /\ HasRotationKey(ring[p.from])
      BY <1>1, <2>2 DEF Agreement, AckMeans
    <3>2. CASE p.from = m
      BY <1>1, <3>1, <3>2
    <3>3. CASE p.from # m
      BY <1>1, <1>3, <2>2, <3>1, <3>3
    <3> QED
      BY <3>2, <3>3
  <2> QED
    BY <2>1, <2>2
<1> QED
  BY <1>4, <1>5, <1>6, <1>7, <1>8 DEF Agreement

\* Every step of a member keeps what relates the members' rings to the
\* rotation of the host.
LEMMA MemberStepAgrees ==
    ASSUME AInv, NEW m \in Members, MemberStep(m)
    PROVE  Agreement'
<1> USE GroupRekeyAssumption, NoKeyAssumption
<1> DEFINE mr == ring[m]
<1>1. /\ TypeOK /\ Agreement /\ NothingNewer /\ StagedHasTimer
      /\ TimersInRoom /\ m \in Nodes /\ ring \in [Nodes -> Rings(Key)]
      /\ mr \in Rings(Key) /\ Ordered(mr)
  BY DEF AInv, IInv, Agreement, TypeOK, RingsOrdered, Nodes
<1>2. LatestEpoch \in Epochs
  <2>1. ring[Host] \in Rings(Key) /\ Ordered(ring[Host])
    BY DEF AInv, IInv, TypeOK, RingsOrdered, Nodes
  <2> QED
    BY <2>1, NewestOK DEF LatestEpoch, Key
<1>3. /\ mr.cur.epoch \in Epochs /\ mr.cur.epoch <= LatestEpoch
      /\ mr.next # NoKey => /\ mr.next.epoch \in Epochs
                            /\ mr.next.epoch <= LatestEpoch
                            /\ mr.next.epoch \in timers[m]
  BY <1>1 DEF NothingNewer, StagedHasTimer, Rings, Key
<1>4. Outside.cur.epoch = 1 /\ Outside.next = NoKey
  BY DEF Outside, NewRing, KeyOf
<1>5. mr = [ring EXCEPT ![m] = mr][m] /\ ring = [ring EXCEPT ![m] = mr]
  BY <1>1
<1>6. CASE CompleteJoin(m)
  <2>1. session[m] # NoKey => session[m].epoch <= LatestEpoch
    BY <1>1 DEF NothingNewer
  <2>2. NewRing(session[m]).cur = session[m] /\ NewRing(session[m]).next = NoKey
    BY DEF NewRing
  <2> QED
    BY <1>1, <1>6, <2>1, <2>2, MemberFrame DEF CompleteJoin, TypeOK
<1>7. CASE GiveUpJoin(m)
  BY <1>1, <1>3, <1>5, <1>7, MemberFrame
     DEF GiveUpJoin, TypeOK, TimersInRoom
<1>8. ASSUME LeaveRoom(m), UNCHANGED hostVars PROVE Agreement'
  <2>1. LeaveMsg(m, stay[m], SealKey(mr)).type = "leave"
    BY DEF LeaveMsg
  <2>2. 1 <= LatestEpoch
    BY <1>2 DEF Epochs
  <2> QED
    BY <1>1, <1>4, <1>8, <2>1, <2>2, MemberFrame DEF LeaveRoom, TypeOK
<1>9. CASE Leave(m) \/ HandleKick(m)
  BY <1>8, <1>9 DEF Leave, HandleKick
<1>10. CASE TimeOutHost(m)
  BY <1>1, <1>3, <1>5, <1>10, MemberFrame DEF TimeOutHost, TypeOK
<1>11. CASE HandleRekey(m)
  <2>1. PICK p \in net :
          /\ p.type = "rekey" /\ phase[m] = "in"
          /\ IF /\ p.key.epoch > mr.cur.epoch
                /\ mr.next # NoKey => mr.next.epoch < p.key.epoch
             THEN /\ ring' = [ring EXCEPT ![m] = Stage(mr, p.key)]
                  /\ timers' = [timers EXCEPT ![m] = @ \cup {p.key.epoch}]
             ELSE UNCHANGED <<ring, timers>>
          /\ net' = net \cup {AckMsg(m, p.key.epoch, SealKey(mr))}
          /\ UNCHANGED <<phase, stay, hostVars>>
    BY <1>11 DEF HandleRekey, Reads
  <2> DEFINE ack == AckMsg(m, p.key.epoch, SealKey(mr))
  <2>2. /\ p.key \in Key /\ p.key.epoch \in Epochs /\ p.key.epoch <= LatestEpoch
    BY <1>1, <2>1 DEF TypeOK, Message, NothingNewer, Key
  <2>3. ack.type = "ack" /\ ack.from = m /\ ack.epoch = p.key.epoch
    BY DEF AckMsg
  <2>4. p.key.epoch = rot.epoch => rot.epoch = LatestEpoch
    BY <1>1, <2>2 DEF Agreement, LastRotation, Epochs
  <2>5. rot.epoch \in Nat /\ (rot.epoch = LatestEpoch \/ rot.epoch = 0)
    BY <1>1 DEF Agreement, LastRotation, TypeOK, Rotation
  <2>8. /\ \A q \in net : q \in net'
        /\ \A q \in net' \ net : /\ q.type = "ack" /\ q.from = m
                                 /\ q.epoch = p.key.epoch
    BY <2>1, <2>3
  <2>6. CASE /\ p.key.epoch > mr.cur.epoch
             /\ mr.next # NoKey => mr.next.epoch < p.key.epoch
    <3> DEFINE r == Stage(mr, p.key)
    <3>1. Stageable(mr, p.key)
      BY <1>3, <2>2, <2>6 DEF Stageable, Epochs
    <3>2. r.cur = mr.cur /\ r.next = p.key /\ p.key # NoKey
      BY <1>1, <2>2, <3>1, StageOK
    <3>3. HasRotationKey(mr) => HasRotationKey(r)
      BY <1>3, <2>2, <2>5, <2>6, <3>2 DEF HasRotationKey, Epochs
    <3>4. p.key.epoch = rot.epoch => HasRotationKey(r)
      BY <3>2 DEF HasRotationKey
    <3>5. /\ timers'[m] = timers[m] \cup {p.key.epoch}
          /\ \A q \in Members \ {m} : timers'[q] = timers[q]
      BY <1>1, <2>1, <2>6 DEF TypeOK
    <3>6. ring' = [ring EXCEPT ![m] = r]
      BY <2>1, <2>6
    <3>7. UNCHANGED <<phase, stay, hostVars>> /\ phase[m] = "in"
      BY <2>1
    <3>8. /\ r.cur.epoch <= LatestEpoch
          /\ r.next.epoch <= LatestEpoch /\ r.next.epoch \in timers'[m]
      BY <1>3, <2>2, <3>2, <3>5
    <3> HIDE DEF r, ack
    <3> QED
      BY <2>2, <2>8, <3>3, <3>4, <3>5, <3>6, <3>7, <3>8, MemberFrame
  <2>7. CASE ~ (/\ p.key.epoch > mr.cur.epoch
                /\ mr.next # NoKey => mr.next.epoch < p.key.epoch)
    <3>1. p.key.epoch = rot.epoch => HasRotationKey(mr)
      BY <1>3, <2>2, <2>4, <2>7 DEF HasRotationKey, Epochs
    <3>2. UNCHANGED <<ring, timers>>
      BY <2>1, <2>7
    <3> HIDE DEF ack
    <3> QED
      BY <1>1, <1>3, <1>5, <2>1, <2>2, <2>8, <3>1, <3>2, MemberFrame
         DEF TimersInRoom
  <2> QED
    BY <2>6, <2>7
<1>12. CASE PromoteStaged(m)
  <2>1. PICK e \in timers[m] :
          /\ timers' = [timers EXCEPT ![m] = @ \ {e}]
          /\ ring' = IF mr.next # NoKey /\ mr.next.epoch = e
                     THEN [ring EXCEPT ![m] = Promote(mr)] ELSE ring
          /\ UNCHANGED <<phase, stay, hostVars, net>>
    BY <1>12 DEF PromoteStaged
  <2>2. /\ timers'[m] = timers[m] \ {e}
        /\ \A q \in Members \ {m} : timers'[q] = timers[q]
    BY <1>1, <2>1 DEF TypeOK
  <2>3. phase[m] = "in"
    BY <1>1, <2>1 DEF TimersInRoom
  <2>4. CASE mr.next # NoKey /\ mr.next.epoch = e
    <3> DEFINE r == Promote(mr)
    <3>1. r.cur = mr.next /\ r.next = NoKey
      BY <2>4 DEF Promote
    <3>2. HasRotationKey(mr) => HasRotationKey(r)
      BY <1>1, <1>3, <2>4, <3>1 DEF HasRotationKey, Ordered, TypeOK, Rotation, Epochs
    <3>3. ring' = [ring EXCEPT ![m] = r]
      BY <2>1, <2>4
    <3> HIDE DEF r
    <3> QED
      BY <1>3, <2>1, <2>2, <2>3, <2>4, <3>1, <3>2, <3>3, MemberFrame
  <2>5. CASE ~ (mr.next # NoKey /\ mr.next.epoch = e)
    <3>1. ring' = [ring EXCEPT ![m] = mr]
      BY <1>5, <2>1, <2>5
    <3>2. mr.next # NoKey => mr.next.epoch \in timers'[m]
      BY <1>3, <2>2, <2>5
    <3> QED
      BY <1>3, <2>1, <2>2, <2>3, <3>1, <3>2, MemberFrame
  <2> QED
    BY <2>4, <2>5
<1>13. CASE AskForKey(m)
  <2>1. RequestMsg(m).type = "request"
    BY DEF RequestMsg
  <2> QED
    BY <1>1, <1>3, <1>5, <1>13, <2>1, MemberFrame
       DEF AskForKey, memberVars, TimersInRoom
<1>14. CASE InstallKeyGrant(m)
  <2>1. PICK p \in net :
          /\ p.type = "grant" /\ phase[m] = "in"
          /\ ring' = IF p.key.epoch > mr.cur.epoch
                     THEN [ring EXCEPT ![m] = Promote(Stage(mr, p.key))] ELSE ring
          /\ net' = net \ {p}
          /\ UNCHANGED <<phase, stay, timers, hostVars>>
    BY <1>14 DEF InstallKeyGrant, memberVars
  <2>2. p.key \in Key /\ p.key.epoch \in Epochs /\ p.key.epoch <= LatestEpoch
    BY <1>1, <2>1 DEF TypeOK, Message, NothingNewer, Key
  <2>3. \A q \in net : q.type = "ack" => q \in net'
    BY <2>1
  <2>4. CASE p.key.epoch > mr.cur.epoch
    <3> DEFINE s == Stage(mr, p.key)
               r == Promote(s)
    <3>1. /\ s.cur = mr.cur /\ s.next # NoKey /\ s.next.epoch <= LatestEpoch
          /\ s.next.epoch > mr.cur.epoch /\ s.next.epoch \in Epochs
          /\ mr.next # NoKey => s.next.epoch >= mr.next.epoch
      <4>1. CASE Stageable(mr, p.key)
        <5>1. s.next = p.key /\ p.key # NoKey /\ s.cur = mr.cur
          BY <1>1, <2>2, <4>1, StageOK
        <5> QED
          BY <1>3, <2>2, <2>4, <4>1, <5>1 DEF Stageable, Epochs
      <4>2. CASE ~Stageable(mr, p.key)
        <5>1. s = mr /\ mr.next # NoKey
          BY <2>4, <4>2 DEF Stage, Stageable
        <5> QED
          BY <1>1, <1>3, <5>1 DEF Ordered, Epochs
      <4> QED
        BY <4>1, <4>2
    <3>2. r.cur = s.next /\ r.next = NoKey
      BY <3>1 DEF Promote
    <3>3. HasRotationKey(mr) => HasRotationKey(r)
      BY <1>1, <1>3, <3>1, <3>2 DEF HasRotationKey, TypeOK, Rotation, Epochs
    <3>4. ring' = [ring EXCEPT ![m] = r]
      BY <2>1, <2>4
    <3> HIDE DEF s, r
    <3> QED
      BY <1>1, <2>1, <2>3, <3>1, <3>2, <3>3, <3>4, MemberFrame DEF TimersInRoom
  <2>5. CASE ~ (p.key.epoch > mr.cur.epoch)
    <3>1. ring' = [ring EXCEPT ![m] = mr]
      BY <1>5, <2>1, <2>5
    <3> QED
      BY <1>1, <1>3, <2>1, <2>3, <3>1, MemberFrame DEF TimersInRoom
  <2> QED
    BY <2>4, <2>5
<1> QED
  BY <1>6, <1>7, <1>9, <1>10, <1>11, <1>12, <1>13, <1>14 DEF MemberStep

-----------------------------------------------------------------------------
(* Steps of the host                                                       *)

\* What the host may do while it makes no new key.
LEMMA HostKeepsAgreement ==
    ASSUME AInv,
           LatestEpoch' = LatestEpoch,
           \A m \in Members :
              ring'[m].cur = ring[m].cur /\ ring'[m].next = ring[m].next,
           UNCHANGED timers, rot'.epoch = rot.epoch, rot'.to = rot.to,
           \A m \in Members :
              /\ ident'[m] <= stay'[m] /\ rot.to[m] <= stay'[m]
              /\ session'[m] # NoKey => session'[m].epoch <= LatestEpoch
              /\ \/ phase'[m] = phase[m] /\ stay'[m] = stay[m]
                 \/ timers[m] = {} /\ stay'[m] # rot.to[m],
           \A p \in net : p.type = "ack" => p \in net',
           \A p \in net' \ net : \/ p.type = "kick"
                                 \/ /\ p.type \in {"rekey", "grant"}
                                    /\ p.key.epoch <= LatestEpoch,
           \A m \in rot'.acked :
              \E p \in net : p.type = "ack" /\ p.from = m /\ p.epoch = rot.epoch
    PROVE  Agreement'
<1>1. Agreement /\ TypeOK
  BY DEF AInv, IInv
<1>2. \A p \in net : p.type = "ack" => p.from \in Members
  BY <1>1 DEF TypeOK, Message
<1>3. NothingNewer'
  BY <1>1 DEF Agreement, NothingNewer
<1>4. LastRotation' /\ StagedHasTimer' /\ StaysKnown' /\ AcksSent'
  BY <1>1 DEF Agreement, LastRotation, StagedHasTimer, StaysKnown, AcksSent
<1>5. TimersInRoom'
  BY <1>1 DEF Agreement, TimersInRoom
<1>6. AckMeans'
  <2> SUFFICES ASSUME NEW p \in net', p.type = "ack", p.epoch = rot.epoch,
                      stay'[p.from] = rot.to[p.from]
               PROVE  \/ phase'[p.from] = "out"
                      \/ phase'[p.from] = "in" /\ HasRotationKey(ring[p.from])
    BY <1>1, <1>2 DEF AckMeans, HasRotationKey
  <2> QED
    BY <1>1, <1>2 DEF Agreement, AckMeans
<1> QED
  BY <1>3, <1>4, <1>5, <1>6 DEF Agreement

\* Every step of the host that concerns one member keeps it, counting an
\* acknowledgement (handleRekeyAckLocked) included.
LEMMA HostStepAgrees ==
    ASSUME AInv, NEW m \in Members, HostStep(m)
    PROVE  Agreement'
<1> USE GroupRekeyAssumption, NoKeyAssumption
<1> DEFINE hr == ring[Host]
<1>1. /\ TypeOK /\ Agreement /\ hr \in Rings(Key) /\ Ordered(hr)
      /\ Newest(hr) \in Key /\ LatestEpoch \in Nat
      /\ hr.cur.epoch <= LatestEpoch
      /\ hr.next # NoKey => hr.next = Newest(hr)
  <2>1. hr \in Rings(Key) /\ Ordered(hr)
    BY DEF AInv, IInv, TypeOK, RingsOrdered, Nodes
  <2> QED
    BY <2>1, NewestOK DEF AInv, IInv, LatestEpoch, Rings, Key, Epochs
<1>2. \A q \in Members :
         /\ ident[q] \in Nat /\ stay[q] \in Nat /\ rot.to[q] \in Nat
         /\ ident[q] <= stay[q] /\ rot.to[q] <= stay[q]
         /\ session[q] # NoKey => session[q].epoch <= LatestEpoch
  BY <1>1 DEF Agreement, StaysKnown, NothingNewer, TypeOK, Rotation, Stays
<1>3. \A q \in rot.acked :
         \E p \in net : p.type = "ack" /\ p.from = q /\ p.epoch = rot.epoch
  BY <1>1 DEF Agreement, AcksSent
<1>4. UNCHANGED ring => LatestEpoch' = LatestEpoch
  BY DEF LatestEpoch
<1>5. ASSUME Forget(m)
      PROVE  \A q \in Members :
               /\ ident'[q] <= stay[q]
               /\ session'[q] # NoKey => session'[q].epoch <= LatestEpoch
  BY <1>1, <1>2, <1>5 DEF Forget, TypeOK
<1>6. CASE Admit(m)
  <2> DEFINE k == IF hr.next # NoKey /\ hr.next.epoch = rot.epoch
                  THEN hr.next ELSE hr.cur
  <2>1. k.epoch <= LatestEpoch
    BY <1>1 DEF LatestEpoch
  <2>2. timers[m] = {}
    BY <1>1, <1>6 DEF Admit, Agreement, TimersInRoom
  <2>3. \A q \in Members :
           /\ ident'[q] <= stay'[q] /\ rot.to[q] <= stay'[q]
           /\ session'[q] # NoKey => session'[q].epoch <= LatestEpoch
           /\ \/ phase'[q] = phase[q] /\ stay'[q] = stay[q]
              \/ timers[q] = {} /\ stay'[q] # rot.to[q]
    BY <1>1, <1>2, <1>6, <2>1, <2>2 DEF Admit, TypeOK
  <2> QED
    BY <1>3, <1>4, <1>6, <2>3, HostKeepsAgreement DEF Admit
<1>7. CASE ExpireSession(m)
  <2>1. \A q \in Members :
           session'[q] # NoKey => session'[q].epoch <= LatestEpoch
    BY <1>1, <1>2, <1>7 DEF ExpireSession, TypeOK
  <2> QED
    BY <1>2, <1>3, <1>4, <1>7, <2>1, HostKeepsAgreement
       DEF ExpireSession, memberVars
<1>8. CASE Register(m)
  BY <1>2, <1>3, <1>4, <1>8, HostKeepsAgreement DEF Register, memberVars
<1>9. CASE HandleLeave(m) \/ TimeOutMember(m)
  BY <1>2, <1>3, <1>4, <1>5, <1>9, HostKeepsAgreement
     DEF HandleLeave, TimeOutMember, memberVars
<1>10. CASE Kick(m)
  <2>1. KickMsg(m, ident[m], SealKey(hr)).type = "kick"
    BY DEF KickMsg
  <2> QED
    BY <1>2, <1>3, <1>4, <1>5, <1>10, <2>1, HostKeepsAgreement
       DEF Kick, memberVars
<1>11. CASE HandleAck(m)
  <2>1. PICK p \in net : p.type = "ack" /\ p.from = m /\ p.epoch = rot.epoch
    BY <1>11 DEF HandleAck
  <2>2. /\ rot'.acked = rot.acked \cup {m}
        /\ rot'.epoch = rot.epoch /\ rot'.to = rot.to
    BY <1>1, <1>11 DEF HandleAck, TypeOK, Rotation
  <2>3. UNCHANGED <<memberVars, ring, ident, session, net>>
    BY <1>11 DEF HandleAck
  <2> QED
    BY <1>2, <1>3, <1>4, <2>1, <2>2, <2>3, HostKeepsAgreement DEF memberVars
<1>12. CASE AnswerKeyRequest(m)
  <2> DEFINE g == GrantMsg(m, ident[m], Newest(hr))
  <2>1. g.type = "grant" /\ g.key.epoch <= LatestEpoch
    BY <1>1 DEF GrantMsg, LatestEpoch
  <2>2. RequestMsg(m).type = "request"
    BY DEF RequestMsg
  <2>3. /\ net' = (net \ {RequestMsg(m)}) \cup {g}
        /\ UNCHANGED <<memberVars, ring, hostVars>>
    BY <1>12 DEF AnswerKeyRequest
  <2>4. /\ \A p \in net : p.type = "ack" => p \in net'
        /\ \A p \in net' \ net : p = g
    BY <2>2, <2>3
  <2> HIDE DEF g
  <2> QED
    BY <1>2, <1>3, <1>4, <2>1, <2>3, <2>4, HostKeepsAgreement
       DEF memberVars, hostVars
<1> QED
  BY <1>6, <1>7, <1>8, <1>9, <1>10, <1>11, <1>12 DEF HostStep

-----------------------------------------------------------------------------
(* Steps of a rotation                                                     *)

\* A new rotation starts with no acknowledgement and a key nobody has.
LEMMA RotateAgrees ==
    ASSUME AInv, RotateGroupKey
    PROVE  Agreement'
<1> USE GroupRekeyAssumption, NoKeyAssumption
<1> DEFINE hr == ring[Host]
           k  == KeyOf(Newest(hr).epoch + 1)
<1>1. /\ TypeOK /\ Agreement /\ Host \in Nodes
      /\ ring \in [Nodes -> Rings(Key)]
      /\ hr \in Rings(Key) /\ Ordered(hr)
  BY DEF AInv, IInv, TypeOK, RingsOrdered, Nodes
<1>2. /\ Newest(hr).epoch \in Epochs /\ hr.cur.epoch \in Epochs
      /\ hr.next # NoKey => Newest(hr) = hr.next
      /\ Newest(hr).epoch >= hr.cur.epoch
  BY <1>1, NewestOK DEF Rings, Key
<1>3. k \in Key /\ k.epoch = LatestEpoch + 1 /\ Stageable(hr, k)
  BY <1>2 DEF RotateGroupKey, KeyOf, Key, Epochs, Stageable, LatestEpoch
<1>4. /\ ring' = [ring EXCEPT ![Host] = Stage(hr, k)]
      /\ Stage(hr, k) \in Rings(Key) /\ Ordered(Stage(hr, k))
      /\ Stage(hr, k).next = k
  BY <1>1, <1>3, StageOK DEF RotateGroupKey
<1>5. LatestEpoch' = LatestEpoch + 1 /\ LatestEpoch \in Nat
  <2>1. ring'[Host] = Stage(hr, k)
    BY <1>1, <1>4
  <2>2. Newest(ring'[Host]) = k
    BY <1>3, <1>4, <2>1, NewestOK
  <2> QED
    BY <1>2, <1>3, <2>2 DEF LatestEpoch, Epochs
<1>6. \A m \in Members : ring'[m] = ring[m]
  BY <1>1, <1>4
<1>7. /\ rot'.epoch = LatestEpoch' /\ rot'.acked = {}
      /\ rot'.to = [m \in Members |-> IF m \in Recipients THEN ident[m] ELSE 0]
      /\ UNCHANGED <<memberVars, ident, session, net>>
  BY <1>3, <1>5 DEF RotateGroupKey
<1>8. NothingNewer'
  <2>1. \A p \in net :
           /\ p.type \in {"rekey", "grant"} => p.key.epoch \in Nat
           /\ p.type = "ack" => p.epoch \in Nat
    BY <1>1 DEF TypeOK, Message, Key, Epochs
  <2>2. \A m \in Members :
           /\ session[m] # NoKey => session[m].epoch \in Nat
           /\ ring[m].cur.epoch \in Nat
           /\ ring[m].next # NoKey => ring[m].next.epoch \in Nat
    BY <1>1 DEF TypeOK, Nodes, Rings, Key, Epochs
  <2> QED
    BY <1>1, <1>5, <1>6, <1>7, <2>1, <2>2 DEF Agreement, NothingNewer
<1>9. LastRotation' /\ AcksSent'
  BY <1>7 DEF LastRotation, AcksSent
<1>10. StagedHasTimer' /\ TimersInRoom'
  BY <1>1, <1>6, <1>7 DEF Agreement, StagedHasTimer, TimersInRoom, memberVars
<1>11. StaysKnown'
  BY <1>1, <1>7 DEF Agreement, StaysKnown, memberVars, TypeOK, Stays
<1>12. AckMeans'
  <2>1. \A p \in net : p.type = "ack" => p.epoch \in Nat /\ p.epoch <= LatestEpoch
    BY <1>1 DEF TypeOK, Message, Epochs, Agreement, NothingNewer
  <2>2. \A p \in net : p.type = "ack" => p.epoch # rot'.epoch
    BY <1>5, <1>7, <2>1
  <2> QED
    BY <1>7, <2>2 DEF AckMeans
<1> QED
  BY <1>8, <1>9, <1>10, <1>11, <1>12 DEF Agreement

\* The strengthened invariant holds initially.
LEMMA AInvInit == Init => AInv
<1> SUFFICES ASSUME Init PROVE AInv
  OBVIOUS
<1> USE GroupRekeyAssumption, NoKeyAssumption
<1>1. \A n \in Nodes : ring[n].cur.epoch = 1 /\ ring[n].next = NoKey
  BY DEF Init, Outside, NewRing, KeyOf
<1>2. LatestEpoch = 1
  BY <1>1 DEF LatestEpoch, Newest, StagedAhead, Nodes
<1>3. Agreement
  BY <1>1, <1>2
     DEF Init, NoRotation, Nodes, Agreement, NothingNewer, LastRotation,
         StagedHasTimer, TimersInRoom, StaysKnown, AcksSent, AckMeans
<1> QED
  BY <1>3, InitOK DEF AInv

\* Every step of the room keeps the strengthened invariant.
LEMMA AInvStep == AInv /\ [Next]_vars => AInv'
<1> SUFFICES ASSUME AInv, [Next]_vars PROVE Agreement'
  BY StepOK DEF AInv
<1> USE GroupRekeyAssumption, NoKeyAssumption
<1>1. /\ TypeOK /\ Agreement
      /\ \A n \in Nodes : ring[n] \in Rings(Key) /\ Ordered(ring[n])
      /\ Host \in Nodes
  BY DEF AInv, IInv, TypeOK, RingsOrdered, Nodes
<1>2. \A m \in Members :
         /\ ident[m] <= stay[m] /\ rot.to[m] <= stay[m]
         /\ session[m] # NoKey => session[m].epoch <= LatestEpoch
  BY <1>1 DEF Agreement, StaysKnown, NothingNewer
<1>3. \A m \in rot.acked :
         \E p \in net : p.type = "ack" /\ p.from = m /\ p.epoch = rot.epoch
  BY <1>1 DEF Agreement, AcksSent
<1>4. UNCHANGED ring => LatestEpoch' = LatestEpoch
  BY DEF LatestEpoch
<1>5. CASE UNCHANGED vars
  BY <1>2, <1>3, <1>4, <1>5, HostKeepsAgreement DEF vars, memberVars, hostVars
<1>6. CASE RotatePort
  BY <1>2, <1>3, <1>4, <1>6, HostKeepsAgreement DEF RotatePort, memberVars
<1>7. CASE RotateOnTimer \/ RotateOnRemoval
  BY <1>7, RotateAgrees DEF RotateOnTimer, RotateOnRemoval
<1>8. CASE RekeyAttempt
  <2> DEFINE K == KeyOf(rot.epoch)
             Sent == {RekeyMsg(m, rot.to[m], K, SealKey(ring[Host])) : m \in Pending}
  <2>1. ring[Host].next # NoKey /\ ring[Host].next.epoch = rot.epoch
    BY <1>8 DEF RekeyAttempt, AInv, IInv, StagedIsRotation
  <2>2. LatestEpoch = rot.epoch /\ rot.epoch \in Nat
    BY <1>1, <2>1, NewestOK DEF LatestEpoch, TypeOK, Rotation
  <2>3. \A p \in Sent : p.type = "rekey" /\ p.key.epoch <= LatestEpoch
    BY <2>2 DEF RekeyMsg, KeyOf
  <2>4. /\ net' = net \cup Sent
        /\ rot' = [rot EXCEPT !.tries = @ + 1]
        /\ UNCHANGED <<memberVars, ring, ident, session>>
    BY <1>8 DEF RekeyAttempt
  <2>5. rot'.epoch = rot.epoch /\ rot'.to = rot.to /\ rot'.acked = rot.acked
    BY <1>1, <2>4 DEF TypeOK, Rotation
  <2> HIDE DEF Sent
  <2> QED
    BY <1>2, <1>3, <1>4, <2>3, <2>4, <2>5, HostKeepsAgreement DEF memberVars
<1>9. CASE FinishRotation
  <2>1. ring[Host].next # NoKey
    BY <1>9 DEF FinishRotation, AInv, IInv, StagedIsRotation
  <2>2. /\ ring' = [ring EXCEPT ![Host] = Promote(ring[Host])]
        /\ UNCHANGED <<memberVars, ident, session, net>>
        /\ rot'.epoch = rot.epoch /\ rot'.to = rot.to /\ rot'.acked = rot.acked
    BY <1>1, <1>9 DEF FinishRotation, TypeOK, Rotation
  <2>3. \A m \in Members : ring'[m] = ring[m]
    BY <1>1, <2>2 DEF TypeOK, Nodes
  <2>4. ring'[Host] = Promote(ring[Host])
    BY <1>1, <2>2 DEF TypeOK
  <2>5. Newest(ring'[Host]) = Newest(ring[Host])
    BY <1>1, <2>1, <2>4, PromoteOK, NewestOK
  <2>6. LatestEpoch' = LatestEpoch
    BY <2>5 DEF LatestEpoch
  <2> QED
    BY <1>2, <1>3, <2>2, <2>3, <2>6, HostKeepsAgreement DEF memberVars
<1>10. ASSUME NEW n \in Nodes, GraceLapses(n) PROVE Agreement'
  <2>1. \A q \in Nodes :
           ring'[q].cur = ring[q].cur /\ ring'[q].next = ring[q].next
    BY <1>1, <1>10, LapseOK DEF GraceLapses, TypeOK
  <2>2. LatestEpoch' = LatestEpoch
    BY <1>1, <2>1 DEF LatestEpoch, Newest, StagedAhead
  <2> QED
    BY <1>2, <1>3, <1>10, <2>1, <2>2, HostKeepsAgreement
       DEF GraceLapses, memberVars, hostVars, Nodes
<1> QED
  BY <1>5, <1>6, <1>7, <1>8, <1>9, <1>10, MemberStepAgrees, HostStepAgrees
     DEF Next

\* An acknowledgement can be relied on: a member counted as having
\* acknowledged the last rotation seals with the host's key once the rotation
\* is over and the member's own timers have fired.
THEOREM AcknowledgedMembersAgree == Spec => []AckedMembersAgree
<1>1. AInv => AckedMembersAgree
  <2> SUFFICES ASSUME AInv, NEW m \in rot.acked, ~rot.live,
                      phase[m] = "in", stay[m] = rot.to[m], timers[m] = {}
               PROVE  ring[m].cur = ring[Host].cur
    BY DEF AckedMembersAgree, SealKey
  <2>1. /\ TypeOK /\ Agreement /\ m \in Members
        /\ ring[m] \in Rings(Key) /\ ring[Host] \in Rings(Key)
        /\ Ordered(ring[Host])
    BY DEF AInv, IInv, TypeOK, RingsOrdered, Rotation, Nodes
  <2>2. PICK p \in net : p.type = "ack" /\ p.from = m /\ p.epoch = rot.epoch
    BY <2>1 DEF Agreement, AcksSent
  <2>3. HasRotationKey(ring[m])
    BY <2>1, <2>2 DEF Agreement, AckMeans
  <2>4. ring[m].next = NoKey
    BY <2>1 DEF Agreement, StagedHasTimer
  <2>5. ring[Host].next = NoKey
    BY DEF AInv, IInv, StagedIsRotation
  <2>6. LatestEpoch = ring[Host].cur.epoch
    BY <2>1, <2>5, NewestOK DEF LatestEpoch
  <2>7. rot.epoch = LatestEpoch
    <3>1. rot.epoch \in Epochs
      BY <2>1, <2>2 DEF TypeOK, Message
    <3> QED
      BY <2>1, <3>1 DEF Agreement, LastRotation, Epochs
  <2>8. ring[m].cur.epoch <= LatestEpoch
    BY <2>1 DEF Agreement, NothingNewer
  <2>9. ring[m].cur.epoch = ring[Host].cur.epoch
    BY <2>1, <2>3, <2>4, <2>6, <2>7, <2>8 DEF HasRotationKey, Rings, Key, Epochs
  <2> QED
    BY <2>1, <2>9 DEF Rings, Key
<1> QED
  BY <1>1, AInvInit, AInvStep, PTL DEF Spec
=============================================================================
