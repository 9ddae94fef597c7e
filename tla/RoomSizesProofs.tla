--------------------------- MODULE RoomSizesProofs ---------------------------
(***************************************************************************)
(* The theorem about MCRelayRoomSizes: what RelayRoomProofs shows for any  *)
(* size of the room holds for both sizes there.                            *)
(***************************************************************************)
EXTENDS MCRelayRoomSizes, RelayRoomProofs

\* The room is as RelayRoomProofs says, whichever size it has.
SizesInv == IF size = 2 THEN Small!IInv ELSE IInv

LEMMA SizesStart == SizesInit => SizesInv
<1> SUFFICES ASSUME SizesInit PROVE SizesInv
  OBVIOUS
<1>1. Fresh /\ link \in [Conns -> {"unused", "done"}]
  BY DEF SizesInit, Init
<1>2. IInv
  BY <1>1, InitOK
<1>3. Small!Fresh
  BY <1>1 DEF Fresh, Small!Fresh, Threads, Small!Threads, Idle, Small!Idle
<1>4. Small!IInv
  BY <1>1, <1>3, Small!InitOK, RelayRoomAssumption
<1> QED
  BY <1>2, <1>4 DEF SizesInv

LEMMA SizesStep == SizesInv /\ [SizesNext]_<<vars, size>> => SizesInv'
<1> SUFFICES ASSUME SizesInv, [SizesNext]_<<vars, size>> PROVE SizesInv'
  OBVIOUS
<1>1. UNCHANGED size
  BY DEF SizesNext
<1>2. CASE size = 2
  <2>1. [Small!Next]_(Small!vars)
    BY <1>2
       DEF SizesNext, vars, roomVars, connVars, Small!vars, Small!roomVars, Small!connVars
  <2>2. Small!IInv'
    BY <1>2, <2>1, Small!StepOK, RelayRoomAssumption DEF SizesInv
  <2> QED
    BY <1>1, <1>2, <2>2 DEF SizesInv
<1>3. CASE size # 2
  <2>1. [Next]_vars
    BY <1>3 DEF SizesNext
  <2>2. IInv'
    BY <1>3, <2>1, StepOK DEF SizesInv
  <2> QED
    BY <1>1, <1>3, <2>2 DEF SizesInv
<1> QED
  BY <1>2, <1>3

\* The room never has more members than allowed, also the smallest one in which two can talk,
\* however requests, approvals and returning hosts come together.
THEOREM EveryRoomStaysSmall == SizesSpec => []EveryRoomFits
<1>1. SizesInv => EveryRoomFits
  BY DEF SizesInv, EveryRoomFits, IInv, RoomInv, Small!IInv, Small!RoomInv
<1> QED
  BY <1>1, SizesStart, SizesStep, PTL DEF SizesSpec
=============================================================================
