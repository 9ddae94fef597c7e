------------------------------ MODULE KeyPolicy ------------------------------
(***************************************************************************)
(* What the distribution of group keys promises, without rings, rotations, *)
(* acknowledgements or messages: which keys the host ever seals for whom.  *)
(* Keys are numbered by epoch.  The room seals with "active"; the newest   *)
(* key is that one or the one about to replace it.                         *)
(***************************************************************************)
EXTENDS Integers

CONSTANTS Members, Initial

VARIABLES
    entitled,   \* members the host would seal a key for
    holds,      \* the keys it has sealed for each of them
    active, newest

vars == <<entitled, holds, active, newest>>

Init ==
    /\ entitled = Initial
    /\ holds = [m \in Members |-> IF m \in Initial THEN {1} ELSE {}]
    /\ active = 1
    /\ newest = 1

\* A joiner is given the key in use or the one about to be.
Admit(m) ==
    /\ entitled' = entitled \cup {m}
    /\ \E k \in {active, newest} : holds' = [holds EXCEPT ![m] = @ \cup {k}]
    /\ UNCHANGED <<active, newest>>

Forget(m) ==
    /\ entitled' = entitled \ {m}
    /\ UNCHANGED <<holds, active, newest>>

\* A fresh key, sealed for members that are entitled to it only.
Generate(S) ==
    /\ S \subseteq entitled
    /\ newest' = newest + 1
    /\ holds' = [m \in Members |->
                   IF m \in S THEN holds[m] \cup {newest'} ELSE holds[m]]
    /\ UNCHANGED <<entitled, active>>

Activate ==
    /\ active' = newest
    /\ UNCHANGED <<entitled, holds, newest>>

\* A member that lost the key is given the newest one.
Resend(m) ==
    /\ m \in entitled
    /\ holds' = [holds EXCEPT ![m] = @ \cup {newest}]
    /\ UNCHANGED <<entitled, active, newest>>

Next ==
    \/ \E m \in Members : Admit(m) \/ Forget(m) \/ Resend(m)
    \/ \E S \in SUBSET Members : Generate(S)
    \/ Activate

Spec == Init /\ [][Next]_vars
=============================================================================
