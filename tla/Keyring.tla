------------------------------ MODULE Keyring ------------------------------
(***************************************************************************)
(* The group keyring every member of a room holds (internal/e2ee/          *)
(* keyring.go): the active key, a key staged for the next epoch, and the   *)
(* previous key, which stays readable for a grace period.                  *)
(*                                                                         *)
(* A key is a record with an "epoch" field; whatever else identifies it is *)
(* the business of the module that uses the ring.  A ring is a value, so   *)
(* the operations below are operators from rings to rings.                 *)
(***************************************************************************)
EXTENDS Integers

CONSTANT NoKey      \* an empty slot of a ring (a nil *epochKey)

Rings(Keys) == [cur : Keys, next : Keys \cup {NoKey}, prev : Keys \cup {NoKey}]

\* NewKeyring: k is active, nothing is staged and nothing precedes it.
NewRing(k) == [cur |-> k, next |-> NoKey, prev |-> NoKey]

\* Staging a key that is not newer than the active one, or older than the
\* one already staged, is ignored; an equal epoch replaces the staged key.
Stageable(r, k) ==
    /\ k.epoch > r.cur.epoch
    /\ r.next # NoKey => r.next.epoch <= k.epoch

Stage(r, k) == IF Stageable(r, k) THEN [r EXCEPT !.next = k] ELSE r

\* Faulty variant: the staged key is not cleared.
Promote_KeepStaged(r) ==
    IF r.next = NoKey THEN r ELSE [cur |-> r.next, next |-> r.next, prev |-> r.cur]

\* The staged key becomes active; there is room for one previous key only.
Promote(r) ==
    IF r.next = NoKey THEN r
    ELSE [cur |-> r.next, next |-> NoKey, prev |-> r.cur]

\* PreviousKeyGrace is over: Open no longer tries the previous key.
Lapse(r) == [r EXCEPT !.prev = NoKey]

SealKey(r) == r.cur

\* The keys Open tries.
OpenKeys(r) == {r.cur, r.next, r.prev} \ {NoKey}

\* What a host hands out while a rotation may be in flight: the staged key
\* when there is a newer one, else the active one.
StagedAhead(r) == r.next # NoKey /\ r.next.epoch > r.cur.epoch
Newest(r) == IF StagedAhead(r) THEN r.next ELSE r.cur

\* The order of the slots every sequence of operations keeps.
Ordered(r) ==
    /\ r.next # NoKey => r.next.epoch > r.cur.epoch
    /\ r.prev # NoKey => r.prev.epoch < r.cur.epoch
=============================================================================
