---- MODULE MCRelayRoomSizes ----
(* RelayRoom with three nodes, in a room that holds only two of them and in
   one with a choice of the next host. *)
EXTENDS MCRelayRoom

VARIABLE size

Small == INSTANCE RelayRoomProofs WITH MaxMembers <- 2   \* with what is proved of RelayRoom

SizesInit == Init /\ size \in {2, MaxMembers}

SizesNext ==
    \/ size = 2 /\ Small!Next /\ UNCHANGED size
    \/ size # 2 /\ Next /\ UNCHANGED size

SizesSpec == SizesInit /\ [][SizesNext]_<<vars, size>>

\* The room never has more members than allowed, however requests, approvals
\* and returning hosts come together.
EveryRoomFits == IF size = 2 THEN Small!RoomFits ELSE RoomFits
====
