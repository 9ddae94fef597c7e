----------------------------- MODULE MediaProofs -----------------------------
(***************************************************************************)
(* Theorems about the components of MCMedia, for every value of the        *)
(* constants it leaves open and every order of the steps of each.          *)
(***************************************************************************)
EXTENDS MCMedia, FiniteSetTheorems, SequenceTheorems, WellFoundedInduction, TLAPS

-----------------------------------------------------------------------------
(* Encoders of a broadcast session                                         *)

\* A restart has a number left for the new encoder; from the killing of the
\* old encoder until the new one is the current one, the old one is told to
\* end.
EncoderInv ==
    /\ E!TypeOK
    /\ E!OneEncoder
    /\ e_step \in {"wait", "launch"} => e_started < e_MaxGens
    /\ e_step \in {"wait", "launch", "attach"} => e_gen \in e_killed

LEMMA EncoderInit == Init => EncoderInv
<1> SUFFICES ASSUME E!Init PROVE EncoderInv
  BY DEF Init
<1>1. e_waits \in [E!Gens -> {"none", "waits", "exited", "done"}]
  BY DEF E!Init
<1>2. /\ {e_stopped, e_restarting, e_finished, e_cancelled} \subseteq BOOLEAN
      /\ e_gen = 1 /\ e_started = 1 /\ e_alive = {1} /\ e_killed = {}
      /\ e_step = "idle"
  BY DEF E!Init
<1>3. E!TypeOK
  BY <1>1, <1>2, MCMediaAssumption DEF E!CaptureSessionAssumption, E!TypeOK, E!Gens
<1> QED
  BY <1>2, <1>3 DEF EncoderInv, E!OneEncoder

LEMMA EncoderStep == EncoderInv /\ [Next]_all => EncoderInv'
<1> SUFFICES ASSUME EncoderInv, [Next]_all PROVE EncoderInv'
  OBVIOUS
<1> USE MCMediaAssumption
    DEF E!CaptureSessionAssumption, EncoderInv, E!OneEncoder, E!TypeOK, E!Gens
<1>1. CASE UNCHANGED eVars
  BY <1>1 DEF eVars
<1>2. CASE E!Restart
  BY <1>2 DEF E!Restart
<1>3. CASE E!Launch
  BY <1>3 DEF E!Launch
<1>4. CASE E!Attach
  BY <1>4 DEF E!Attach
<1>5. CASE E!Exit \/ E!Reaped \/ E!LookInto
  BY <1>5 DEF E!Exit, E!Reaped, E!LookInto, E!Finish
<1>6. CASE E!OldIsGone \/ E!LaunchFails \/ E!Restarted
  BY <1>6 DEF E!OldIsGone, E!LaunchFails, E!Restarted, E!Finish
<1>7. CASE E!Stop \/ E!TargetGone
  BY <1>7 DEF E!Stop, E!TargetGone
<1>8. E!Next \/ UNCHANGED eVars
  BY DEF Next, Others, all
<1> QED
  BY <1>1, <1>2, <1>3, <1>4, <1>5, <1>6, <1>7, <1>8 DEF E!Next

-----------------------------------------------------------------------------
(* Streams of the audio engine                                             *)

\* The lists name devices there are or were, and so does the selection, which is
\* what is opened.
DeviceInv ==
    /\ D!ChosenDeviceIsUsed
    /\ d_plugged \subseteq d_Devices /\ d_listed \subseteq d_Devices
    /\ d_InputDevices \subseteq d_Devices
    /\ d_SelectedInput \in d_Devices \cup {D!Default}
    /\ d_wantInput \in d_Devices \cup {D!Default}
    /\ d_opened \in Seq(d_Devices \cup {D!Default})

LEMMA DeviceInit == Init => DeviceInv
<1> SUFFICES ASSUME D!Init PROVE DeviceInv
  BY DEF Init
<1>1. /\ d_plugged \subseteq d_Devices /\ d_InputDevices = d_plugged /\ d_listed = d_plugged
      /\ d_SelectedInput = D!Default /\ d_wantInput = D!Default
      /\ d_opened = <<D!Default>> \/ d_opened = <<>>
  BY DEF D!Init
<1>2. <<>> \in Seq(d_Devices \cup {D!Default}) /\ <<D!Default>> \in Seq(d_Devices \cup {D!Default})
  BY D!Default \in d_Devices \cup {D!Default}
<1> QED
  BY <1>1, <1>2 DEF DeviceInv, D!ChosenDeviceIsUsed

LEMMA DeviceStep == DeviceInv /\ [Next]_all => DeviceInv'
<1> SUFFICES ASSUME DeviceInv, [Next]_all PROVE DeviceInv'
  OBVIOUS
<1>1. CASE UNCHANGED <<d_plugged, d_listed, d_InputDevices, d_SelectedInput, d_wantInput>>
           /\ d_opened' \in {d_opened, Append(d_opened, d_SelectedInput)}
  <2>1. d_opened' \in Seq(d_Devices \cup {D!Default})
    BY <1>1, AppendProperties DEF DeviceInv
  <2> QED
    BY <1>1, <2>1 DEF DeviceInv, D!ChosenDeviceIsUsed, D!Default
<1>2. CASE D!PlugOrUnplug
  <2>1. /\ d_plugged' \subseteq d_Devices
        /\ UNCHANGED <<d_listed, d_InputDevices, d_SelectedInput, d_wantInput, d_opened>>
    BY <1>2 DEF D!PlugOrUnplug, D!selection, D!streams, DeviceInv
  <2> QED
    BY <2>1 DEF DeviceInv, D!ChosenDeviceIsUsed, D!Default
<1>3. CASE D!EnumerateDevices
  <2>1. /\ d_listed' = d_plugged
        /\ UNCHANGED <<d_plugged, d_InputDevices, d_SelectedInput, d_wantInput, d_opened>>
    BY <1>3 DEF D!EnumerateDevices, D!selection, D!streams
  <2> QED
    BY <2>1 DEF DeviceInv, D!ChosenDeviceIsUsed, D!Default
<1>4. CASE D!SetInputDevice
  <2>1. PICK d \in d_InputDevices \cup {D!Default} :
          /\ d_wantInput' = d /\ d_SelectedInput' = d
          /\ UNCHANGED <<d_plugged, d_listed, d_InputDevices, d_opened>>
    BY <1>4 DEF D!SetInputDevice, D!streams
  <2> QED
    BY <2>1 DEF DeviceInv, D!ChosenDeviceIsUsed, D!Default
<1>5. CASE D!ApplyDevices
  <2>1. /\ UNCHANGED <<d_plugged, d_listed, d_wantInput, d_opened>>
        /\ \/ UNCHANGED <<d_InputDevices, d_SelectedInput>>
           \/ d_InputDevices' = d_listed /\ d_SelectedInput' = D!Reselect(d_listed)
    BY <1>5 DEF D!ApplyDevices, D!selection, D!streams
  <2> QED
    BY <2>1 DEF DeviceInv, D!ChosenDeviceIsUsed, D!Default, D!Reselect
<1>6. ASSUME NEW p \in D!Actors,
             D!TakeOld(p) \/ D!CloseOld(p) \/ D!Open(p) \/ D!OpenFailed(p) \/ D!Assign(p)
      PROVE  DeviceInv'
  <2>1. /\ UNCHANGED <<d_plugged, d_listed, d_InputDevices, d_SelectedInput, d_wantInput>>
        /\ d_opened' \in {d_opened, Append(d_opened, d_SelectedInput)}
    BY <1>6 DEF D!TakeOld, D!CloseOld, D!Open, D!OpenFailed, D!Assign, D!Close, D!selection,
                D!streams
  <2> QED
    BY <1>1, <2>1
<1>7. CASE D!Stop \/ D!ReopenStalled \/ UNCHANGED dVars
  <2>1. UNCHANGED <<d_plugged, d_listed, d_InputDevices, d_SelectedInput, d_wantInput, d_opened>>
    BY <1>7 DEF D!Stop, D!ReopenStalled, D!Close, D!selection, D!streams, dVars
  <2> QED
    BY <1>1, <2>1
<1>8. D!Next \/ UNCHANGED dVars
  BY DEF Next, Others, all
<1> QED
  BY <1>2, <1>3, <1>4, <1>5, <1>6, <1>7, <1>8 DEF D!Next

\* What an actor holds has not been closed and is its own: taken from the
\* current stream, or opened and not yet made the current one.
StreamInv ==
    /\ d_twice = {} /\ d_captureStream \notin d_closed
    /\ \A p \in D!Actors : d_hand[p] # D!None => d_hand[p] # d_captureStream
    /\ ~d_running => d_captureStream = D!None /\ d_simulated = 0
    /\ d_closed \subseteq 1 .. Len(d_opened)
    /\ d_captureStream \in 0 .. Len(d_opened)
    /\ d_hand \in [D!Actors -> 0 .. Len(d_opened)]
    /\ d_step \in [D!Actors -> {"idle", "take", "close", "open", "assign", "failed", "refresh",
                               "stopped"}]
    /\ \A p \in D!Actors :
          d_hand[p] # D!None => /\ d_step[p] \in {"close", "assign"}
                                /\ d_hand[p] \notin d_closed
    /\ d_hand["loop"] = d_hand["watcher"] => d_hand["loop"] = D!None

LEMMA StreamInit == Init => StreamInv
<1> SUFFICES ASSUME D!Init PROVE StreamInv
  BY DEF Init
<1>1. /\ d_twice = {} /\ d_closed = {} /\ d_running = TRUE
      /\ \/ d_opened = <<D!Default>> /\ d_captureStream = 1
         \/ d_opened = <<>> /\ d_captureStream = 0
  BY DEF D!Init, D!None
<1>2. /\ d_hand = [p \in D!Actors |-> 0]
      /\ d_step = [p \in D!Actors |-> "idle"]
  BY DEF D!Init, D!None
<1> QED
  BY <1>1, <1>2 DEF StreamInv, D!Actors, D!None

LEMMA StreamStep == StreamInv /\ DeviceInv /\ [Next]_all => StreamInv'
<1> SUFFICES ASSUME StreamInv, DeviceInv, [Next]_all PROVE StreamInv'
  OBVIOUS
<1> DEFINE n == Len(d_opened)
<1>1. /\ n \in Nat /\ Len(Append(d_opened, d_SelectedInput)) = n + 1
  BY AppendProperties, LenProperties DEF DeviceInv
<1> USE DEF StreamInv, D!Actors, D!None, D!At, D!Goto
<1>2. /\ \A p, q \in D!Actors : q # p /\ d_hand[p] # 0 => d_hand[q] # d_hand[p]
      /\ \A p \in D!Actors : d_hand[p] # 0 => d_hand[p] \in 1 .. n
  BY <1>1
<1>3. CASE D!PlugOrUnplug \/ D!SetInputDevice \/ D!EnumerateDevices \/ D!ApplyDevices
           \/ D!ReopenStalled
  <2>1. /\ UNCHANGED <<d_running, d_opened, d_closed, d_twice, d_captureStream, d_hand, d_simulated>>
        /\ d_step' \in {d_step} \cup {[d_step EXCEPT ![p] = s] : p \in D!Actors,
                                                              s \in {"take", "idle", "refresh"}}
        /\ \A p \in D!Actors : d_step'[p] = d_step[p] \/ d_step[p] \in {"idle", "refresh"}
    BY <1>3 DEF D!PlugOrUnplug, D!SetInputDevice, D!EnumerateDevices, D!ApplyDevices,
                D!ReopenStalled, D!streams, D!reopening
  <2> HIDE DEF n
  <2> QED
    BY <2>1
<1>4. ASSUME NEW p \in D!Actors, D!TakeOld(p) PROVE StreamInv'
  <2>1. /\ d_hand' = [d_hand EXCEPT ![p] = d_captureStream] /\ d_captureStream' = 0
        /\ d_step' = [d_step EXCEPT ![p] = "close"] /\ d_step[p] = "take"
        /\ UNCHANGED <<d_running, d_opened, d_closed, d_twice, d_simulated>>
    BY <1>4 DEF D!TakeOld, D!streams
  <2> QED
    BY <1>1, <2>1
<1>5. ASSUME NEW p \in D!Actors, D!CloseOld(p) PROVE StreamInv'
  <2>1. /\ d_hand' = [d_hand EXCEPT ![p] = 0] /\ d_step' = [d_step EXCEPT ![p] = "open"]
        /\ d_closed' = d_closed \cup ({d_hand[p]} \ {0}) /\ d_twice' = {}
        /\ UNCHANGED <<d_running, d_opened, d_captureStream, d_simulated>>
    BY <1>5 DEF D!CloseOld, D!Close, D!streams
  <2>2. /\ d_closed' \subseteq 1 .. n /\ d_captureStream \notin d_closed'
        /\ \A q \in D!Actors \ {p} : d_hand[q] # 0 => d_hand[q] \notin d_closed'
    BY <1>2, <2>1
  <2> QED
    BY <2>1, <2>2
<1>6. ASSUME NEW p \in D!Actors, D!Open(p) PROVE StreamInv'
  <2>1. /\ d_step[p] = "open"
        /\ UNCHANGED <<d_running, d_closed, d_twice, d_captureStream, d_simulated>>
    BY <1>6 DEF D!Open
  <2>2. CASE /\ Len(d_opened') = n + 1 /\ d_hand' = [d_hand EXCEPT ![p] = n + 1]
             /\ d_step' = [d_step EXCEPT ![p] = "assign"]
    BY <1>1, <2>1, <2>2
  <2>3. CASE UNCHANGED <<d_opened, d_hand>> /\ d_step' = [d_step EXCEPT ![p] = "failed"]
    BY <2>1, <2>3
  <2> QED
    BY <1>1, <1>6, <2>2, <2>3 DEF D!Open
<1>7. ASSUME NEW p \in D!Actors, D!OpenFailed(p) PROVE StreamInv'
  <2>1. /\ d_step' = [d_step EXCEPT ![p] = "idle"] /\ d_step[p] = "failed"
        /\ ~d_running => d_simulated' = d_simulated
        /\ UNCHANGED <<d_running, d_opened, d_closed, d_twice, d_captureStream, d_hand>>
    BY <1>7 DEF D!OpenFailed, D!streams
  <2> QED
    BY <2>1
<1>8. ASSUME NEW p \in D!Actors, D!Assign(p) PROVE StreamInv'
  <2>1. /\ d_hand' = [d_hand EXCEPT ![p] = 0] /\ d_step' = [d_step EXCEPT ![p] = "idle"]
        /\ d_twice' = {}
        /\ UNCHANGED <<d_running, d_opened, d_simulated>>
    BY <1>8 DEF D!Assign, D!Close, D!streams
  <2>2. CASE d_running /\ d_captureStream' = d_hand[p] /\ d_closed' = d_closed
    <3>1. d_hand[p] \in 0 .. n /\ d_hand[p] \notin d_closed
      BY <2>2, <1>1, <1>8 DEF D!Assign
    <3> QED
      BY <2>1, <2>2, <3>1
  <2>3. CASE /\ ~d_running /\ d_captureStream' = d_captureStream
             /\ d_closed' = d_closed \cup ({d_hand[p]} \ {0})
    <3>1. /\ d_closed' \subseteq 1 .. n /\ d_captureStream \notin d_closed'
          /\ \A q \in D!Actors \ {p} : d_hand[q] # 0 => d_hand[q] \notin d_closed'
      BY <1>2, <2>1, <2>3
    <3> QED
      BY <2>1, <2>3, <3>1
  <2> QED
    BY <1>8, <2>2, <2>3 DEF D!Assign, D!Close, D!streams
<1>9. CASE D!Stop
  <2>1. /\ d_captureStream' = 0 /\ d_simulated' = 0
        /\ d_step' = [d_step EXCEPT !["loop"] = "stopped"] /\ d_step["loop"] = "idle"
        /\ d_closed' = d_closed \cup ({d_captureStream} \ {0}) /\ d_twice' = {}
        /\ UNCHANGED <<d_opened, d_hand>>
    BY <1>9 DEF D!Stop, D!Close, D!streams
  <2> QED
    BY <1>1, <2>1
<1>10. CASE UNCHANGED dVars
  BY <1>10 DEF dVars
<1>11. D!Next \/ UNCHANGED dVars
  BY DEF Next, Others, all
<1> QED
  BY <1>3, <1>4, <1>5, <1>6, <1>7, <1>8, <1>9, <1>10, <1>11 DEF D!Next

\* Every stream has an owner, and while one actor reopens there is no current stream that the
\* other could be reopening: unless both did at the same time.
OwnedInv ==
    /\ d_overlapped \in BOOLEAN
    /\ ~d_overlapped =>
         /\ \A s \in 1 .. Len(d_opened) :
               s \in d_closed \/ s = d_captureStream \/ \E p \in D!Actors : s = d_hand[p]
         /\ \A p, q \in D!Actors :
               D!Reopening(p) => d_captureStream = D!None /\ (D!Reopening(q) => q = p)

LEMMA OwnedIs == DeviceInv /\ StreamInv /\ OwnedInv => D!StreamsAreOwned
<1> SUFFICES ASSUME DeviceInv, StreamInv, OwnedInv, ~d_overlapped PROVE D!Unowned = {}
  BY DEF StreamInv, D!StreamsAreOwned
<1>1. D!Streams = 1 .. Len(d_opened)
  BY LenProperties DEF DeviceInv, D!Streams
<1> QED
  BY <1>1 DEF OwnedInv, D!Unowned

LEMMA OwnedInit == Init => OwnedInv
<1> SUFFICES ASSUME D!Init PROVE OwnedInv
  BY DEF Init
<1>1. /\ d_overlapped = FALSE /\ \A p \in D!Actors : ~D!Reopening(p)
      /\ \/ d_opened = <<D!Default>> /\ d_captureStream = 1
         \/ d_opened = <<>>
  BY DEF D!Init, D!Reopening
<1>2. \A s \in 1 .. Len(d_opened) : s = d_captureStream
  BY <1>1
<1> QED
  BY <1>1, <1>2 DEF OwnedInv

LEMMA OwnedStep == OwnedInv /\ StreamInv /\ DeviceInv /\ [Next]_all => OwnedInv'
<1> SUFFICES ASSUME OwnedInv, StreamInv, DeviceInv, [Next]_all PROVE OwnedInv'
  OBVIOUS
<1> DEFINE n == Len(d_opened)
<1>1. /\ n \in Nat /\ Len(Append(d_opened, d_SelectedInput)) = n + 1
  BY AppendProperties, LenProperties DEF DeviceInv
<1>2. /\ d_hand \in [D!Actors -> 0 .. n] /\ d_captureStream \in 0 .. n
      /\ \A p \in D!Actors : d_hand[p] # 0 => d_step[p] \in {"close", "assign"}
      /\ DOMAIN d_step = D!Actors
  BY DEF StreamInv, D!None
<1> USE DEF OwnedInv, D!None, D!At, D!Goto, D!Reopening
<1>3. CASE D!PlugOrUnplug \/ D!SetInputDevice \/ D!EnumerateDevices \/ D!ApplyDevices
           \/ D!ReopenStalled
  <2>1. /\ UNCHANGED <<d_opened, d_closed, d_captureStream, d_hand, d_overlapped>>
        /\ \A p \in D!Actors : d_step'[p] = d_step[p] \/ d_step'[p] \in {"take", "idle", "refresh"}
    BY <1>2, <1>3 DEF D!PlugOrUnplug, D!SetInputDevice, D!EnumerateDevices, D!ApplyDevices,
                      D!ReopenStalled, D!streams, D!reopening, D!Actors
  <2> HIDE DEF n
  <2> QED
    BY <2>1
<1>4. ASSUME NEW p \in D!Actors, D!TakeOld(p) PROVE OwnedInv'
  <2>1. /\ d_hand' = [d_hand EXCEPT ![p] = d_captureStream] /\ d_captureStream' = 0
        /\ d_step' = [d_step EXCEPT ![p] = "close"] /\ d_step[p] = "take"
        /\ d_overlapped' = (d_overlapped \/ \E q \in D!Actors : D!Reopening(q))
        /\ UNCHANGED <<d_opened, d_closed>>
    BY <1>4 DEF D!TakeOld, D!streams
  <2>2. d_overlapped' \in BOOLEAN
    BY <2>1, Zenon
  <2>3. d_hand[p] = 0
    BY <1>2, <2>1
  <2>4. CASE d_overlapped'
    BY <2>2, <2>4
  <2>5. CASE ~d_overlapped'
    <3>1. ~d_overlapped /\ \A q \in D!Actors : ~D!Reopening(q)
      BY <2>1, <2>5
    <3>2. ASSUME NEW s \in 1 .. n
          PROVE  s \in d_closed \/ \E q \in D!Actors : s = d_hand'[q]
      <4>1. CASE s = d_captureStream
        BY <1>2, <2>1, <4>1
      <4>2. CASE \E q \in D!Actors : s = d_hand[q]
        BY <1>2, <2>1, <2>3, <4>2
      <4> QED
        BY <3>1, <4>1, <4>2
    <3>3. \A q \in D!Actors : D!Reopening(q)' => q = p
      BY <1>2, <2>1, <3>1
    <3> QED
      BY <2>1, <2>2, <3>2, <3>3
  <2> QED
    BY <2>4, <2>5
<1>5. ASSUME NEW p \in D!Actors, D!CloseOld(p) PROVE OwnedInv'
  <2>1. /\ d_hand' = [d_hand EXCEPT ![p] = 0] /\ d_step' = [d_step EXCEPT ![p] = "open"]
        /\ d_step[p] = "close"
        /\ d_closed' = d_closed \cup ({d_hand[p]} \ {0})
        /\ UNCHANGED <<d_opened, d_captureStream, d_overlapped>>
    BY <1>5 DEF D!CloseOld, D!Close, D!streams
  <2>2. \A q \in D!Actors : D!Reopening(q)' => D!Reopening(q)
    BY <1>2, <2>1
  <2>3. \A q \in D!Actors : d_hand[q] # 0 => d_hand'[q] = d_hand[q] \/ d_hand[q] \in d_closed'
    BY <1>2, <2>1
  <2> QED
    BY <1>2, <2>1, <2>2, <2>3
<1>6. ASSUME NEW p \in D!Actors, D!Open(p) PROVE OwnedInv'
  <2>1. /\ d_step[p] = "open" /\ UNCHANGED <<d_closed, d_captureStream, d_overlapped>>
        /\ \A q \in D!Actors : D!Reopening(q)' => D!Reopening(q)
    BY <1>2, <1>6 DEF D!Open
  <2>2. d_hand[p] = 0
    BY <1>2, <2>1
  <2>3. CASE UNCHANGED <<d_opened, d_hand>>
    BY <2>1, <2>3
  <2>4. CASE Len(d_opened') = n + 1 /\ d_hand' = [d_hand EXCEPT ![p] = n + 1]
    <3>1. /\ d_hand'[p] = n + 1
          /\ \A q \in D!Actors : d_hand[q] # 0 => d_hand'[q] = d_hand[q]
      BY <1>2, <2>2, <2>4
    <3>2. \A s \in 1 .. Len(d_opened') : s \in 1 .. n \/ s = n + 1
      BY <1>1, <2>4
    <3> QED
      BY <1>1, <2>1, <3>1, <3>2
  <2> QED
    BY <1>1, <1>6, <2>3, <2>4 DEF D!Open
<1>7. ASSUME NEW p \in D!Actors, D!OpenFailed(p) PROVE OwnedInv'
  <2>1. UNCHANGED <<d_opened, d_closed, d_captureStream, d_hand, d_overlapped>>
    BY <1>7 DEF D!OpenFailed, D!streams
  <2>2. \A q \in D!Actors : D!Reopening(q)' => D!Reopening(q)
    BY <1>2, <1>7 DEF D!OpenFailed
  <2> QED
    BY <2>1, <2>2
<1>8. ASSUME NEW p \in D!Actors, D!Assign(p) PROVE OwnedInv'
  <2>1. /\ d_hand' = [d_hand EXCEPT ![p] = 0] /\ d_step' = [d_step EXCEPT ![p] = "idle"]
        /\ d_step[p] = "assign"
        /\ UNCHANGED <<d_opened, d_overlapped>>
    BY <1>8 DEF D!Assign, D!Close, D!streams
  <2>2. \/ d_captureStream' = d_hand[p] /\ d_closed' = d_closed
        \/ d_captureStream' = d_captureStream /\ d_closed' = d_closed \cup ({d_hand[p]} \ {0})
    BY <1>8 DEF D!Assign, D!Close, D!streams
  <2>3. CASE d_overlapped
    BY <2>1, <2>3
  <2>4. CASE ~d_overlapped
    <3>1. d_captureStream = 0 /\ \A q \in D!Actors : D!Reopening(q) => q = p
      BY <2>1, <2>4
    <3>2. \A q \in D!Actors : ~D!Reopening(q)'
      BY <1>2, <2>1, <3>1
    <3>3. \A s \in 1 .. n : s = d_hand[p] => s \in d_closed' \/ s = d_captureStream'
      BY <2>2
    <3>4. \A q \in D!Actors \ {p} : d_hand'[q] = d_hand[q]
      BY <1>2, <2>1
    <3>5. \A s \in 1 .. n :
            s \in d_closed' \/ s = d_captureStream' \/ \E q \in D!Actors : s = d_hand'[q]
      BY <2>2, <2>4, <3>1, <3>3, <3>4
    <3> QED
      BY <2>1, <3>2, <3>5
  <2> QED
    BY <2>3, <2>4
<1>9. CASE D!Stop
  <2>1. /\ d_captureStream' = 0 /\ d_closed' = d_closed \cup ({d_captureStream} \ {0})
        /\ d_step' = [d_step EXCEPT !["loop"] = "stopped"]
        /\ UNCHANGED <<d_opened, d_hand, d_overlapped>>
    BY <1>9 DEF D!Stop, D!Close, D!streams
  <2>2. \A q \in D!Actors : D!Reopening(q)' => D!Reopening(q)
    BY <1>2, <2>1
  <2> QED
    BY <1>2, <2>1, <2>2
<1>10. CASE UNCHANGED dVars
  BY <1>10 DEF dVars
<1>11. D!Next \/ UNCHANGED dVars
  BY DEF Next, Others, all
<1> QED
  BY <1>3, <1>4, <1>5, <1>6, <1>7, <1>8, <1>9, <1>10, <1>11 DEF D!Next

-----------------------------------------------------------------------------
(* Screen shares                                                           *)

\* One share is set up at a time, and only when there is none.
ShareInv ==
    /\ S!SharesAreOwned
    /\ s_made \in Nat /\ s_share \in 0 .. s_made /\ s_running \subseteq 1 .. s_made
    /\ s_closing \subseteq [of : Nat, next : {"preview", "capture"}]
    /\ s_starting \in Nat
    /\ s_starting > 0 => s_starting = 1 /\ s_share = 0

LEMMA ShareInit == Init => ShareInv
BY DEF Init, S!Init, ShareInv, S!SharesAreOwned

LEMMA ShareStep == ShareInv /\ [Next]_all => ShareInv'
<1> SUFFICES ASSUME ShareInv, [Next]_all PROVE ShareInv'
  OBVIOUS
<1> USE DEF ShareInv, S!SharesAreOwned
<1>1. CASE S!StartShare \/ S!ShareFailed
  <2>1. /\ UNCHANGED <<s_share, s_made, s_running, s_closing, s_preview>>
        /\ \/ s_share = 0 /\ s_starting' = 1
           \/ s_starting > 0 /\ s_starting' = s_starting - 1
    BY <1>1 DEF S!StartShare, S!ShareFailed
  <2>2. s_starting' \in Nat /\ (s_starting' > 0 => s_starting' = 1 /\ s_share = 0)
    BY <2>1
  <2> QED
    BY <2>1, <2>2
<1>2. CASE S!ShareStarted
  BY <1>2 DEF S!ShareStarted
<1>3. CASE S!StopShare \/ S!WatchdogStops \/ S!BeginLeave
  <2>1. S!TakeDown /\ UNCHANGED <<s_made, s_running, s_starting, s_preview>>
    BY <1>3 DEF S!StopShare, S!WatchdogStops, S!BeginLeave
  <2>2. CASE s_share = 0
    BY <2>1, <2>2 DEF S!TakeDown
  <2>3. CASE s_share # 0
    <3> DEFINE c == [of |-> s_share, next |-> "preview"]
    <3>1. /\ c.of = s_share /\ c \in [of : Nat, next : {"preview", "capture"}]
          /\ s_closing' = s_closing \cup {c} /\ s_share' = 0
      BY <2>1, <2>3 DEF S!TakeDown
    <3>2. \A t \in s_running : \E e \in s_closing' : e.of = t
      BY <3>1
    <3>3. s_preview # 0 => [of |-> s_preview, next |-> "preview"] \in s_closing'
      BY <3>1
    <3> QED
      BY <2>1, <3>1, <3>2, <3>3
  <2> QED
    BY <2>2, <2>3
<1>4. CASE S!ClosePreviewAndTell
  <2>1. PICK c \in s_closing :
          /\ s_closing' = (s_closing \ {c}) \cup {[c EXCEPT !.next = "capture"]}
          /\ s_preview' = 0
          /\ UNCHANGED <<s_share, s_made, s_running, s_starting>>
    BY <1>4 DEF S!ClosePreviewAndTell
  <2>2. [c EXCEPT !.next = "capture"] \in [of : Nat, next : {"preview", "capture"}]
        /\ [c EXCEPT !.next = "capture"].of = c.of
    OBVIOUS
  <2> QED
    BY <2>1, <2>2
<1>5. CASE S!ShutDown
  <2>1. PICK c \in s_closing :
          /\ c.next = "capture" /\ s_closing' = s_closing \ {c}
          /\ s_running' = s_running \ {c.of}
          /\ UNCHANGED <<s_share, s_made, s_preview, s_starting>>
    BY <1>5 DEF S!ShutDown
  <2> QED
    BY <2>1
<1>6. CASE S!CaptureEnds
  BY <1>6 DEF S!CaptureEnds
<1>7. CASE S!StopPreview \/ S!PreviewOpened
  BY <1>7 DEF S!StopPreview, S!PreviewOpened
<1>8. CASE UNCHANGED <<s_share, s_made, s_running, s_closing, s_preview, s_starting>>
  BY <1>8
<1>9. ASSUME S!Next
      PROVE  \/ S!StartShare \/ S!ShareFailed \/ S!ShareStarted \/ S!StopShare
             \/ S!WatchdogStops \/ S!BeginLeave \/ S!ClosePreviewAndTell \/ S!ShutDown
             \/ S!CaptureEnds \/ S!StopPreview \/ S!PreviewOpened
             \/ UNCHANGED <<s_share, s_made, s_running, s_closing, s_preview, s_starting>>
  BY <1>9 DEF S!Next, S!LeaveRoom, S!JoinRoom, S!StartPreview, S!OnWatch, S!OnUnwatch,
              S!LoseAsk, S!ExpireWatcher, S!StartWatching, S!ViewerOpened, S!KeepAlive,
              S!StopWatching, S!DoClose, S!PlayerEnds, S!Stall, S!Hear, S!LoseNews,
              S!Ping, S!CutOff, S!sharer
<1>10. S!Next \/ UNCHANGED sVars
  BY DEF Next, Others, all
<1> QED
  BY <1>1, <1>2, <1>3, <1>4, <1>5, <1>6, <1>7, <1>8, <1>9, <1>10 DEF sVars

-----------------------------------------------------------------------------
(* The switches of the voice                                               *)

\* A frame captured while muted is silence when it is sent.
SwitchesInv ==
    /\ {c_Muted, c_Deafened, c_InTestMode, c_PrevMuted, c_PrevDeafened} \subseteq BOOLEAN
    /\ c_frame \in [sound : BOOLEAN, muted : BOOLEAN, testing : BOOLEAN, taken : BOOLEAN]
    /\ c_frame.sound => ~c_frame.muted
    /\ C!MutedSoundStaysHere

LEMMA SwitchesInit == Init => SwitchesInv
<1> SUFFICES ASSUME C!Init PROVE SwitchesInv
  BY DEF Init
<1>1. {c_Muted, c_Deafened, c_InTestMode, c_PrevMuted, c_PrevDeafened} \subseteq BOOLEAN
  BY DEF C!Init
<1>2. /\ c_frame = [sound |-> FALSE, muted |-> FALSE, testing |-> FALSE, taken |-> FALSE]
      /\ c_heard = {}
  BY DEF C!Init, C!Idle
<1> QED
  BY <1>1, <1>2 DEF SwitchesInv, C!MutedSoundStaysHere

LEMMA SwitchesStep == SwitchesInv /\ [Next]_all => SwitchesInv'
<1> SUFFICES ASSUME SwitchesInv, [Next]_all PROVE SwitchesInv'
  OBVIOUS
<1>1. CASE C!ToggleMute \/ C!ToggleDeafen \/ C!OpenTest \/ C!CloseTest \/ C!LeaveRoom
  <2>1. UNCHANGED <<c_frame, c_heard>>
    BY <1>1 DEF C!ToggleMute, C!ToggleDeafen, C!OpenTest, C!CloseTest, C!LeaveRoom
  <2>2. /\ c_Muted' \in {~c_Muted, c_Muted \/ c_Deafened', FALSE, c_PrevMuted}
        /\ c_Deafened' \in {c_Deafened, ~c_Deafened, TRUE, c_PrevDeafened}
        /\ c_InTestMode' \in {c_InTestMode, TRUE, FALSE}
        /\ c_PrevMuted' \in {c_PrevMuted, c_Muted}
        /\ c_PrevDeafened' \in {c_PrevDeafened, c_Deafened}
    BY <1>1 DEF C!ToggleMute, C!ToggleDeafen, C!OpenTest, C!CloseTest, C!LeaveRoom,
                C!closeTestModal
  <2>3. {c_Muted, c_Deafened, c_InTestMode, c_PrevMuted, c_PrevDeafened}' \subseteq BOOLEAN
    BY <2>2, Zenon DEF SwitchesInv
  <2> QED
    BY <2>1, <2>3 DEF SwitchesInv, C!MutedSoundStaysHere
<1>2. CASE C!CaptureFrame
  <2>1. PICK voice \in BOOLEAN :
          c_frame' = [sound |-> voice /\ ~c_Muted, muted |-> c_Muted,
                      testing |-> c_InTestMode, taken |-> TRUE]
    BY <1>2 DEF C!CaptureFrame
  <2>2. UNCHANGED <<c_Muted, c_Deafened, c_InTestMode, c_PrevMuted, c_PrevDeafened, c_heard>>
    BY <1>2 DEF C!CaptureFrame, C!controls
  <2>3. c_Muted \in BOOLEAN /\ c_InTestMode \in BOOLEAN
    BY DEF SwitchesInv
  <2> QED
    BY <2>1, <2>2, <2>3 DEF SwitchesInv, C!MutedSoundStaysHere
<1>3. CASE C!SendFrame
  <2>1. /\ c_frame' = [sound |-> FALSE, muted |-> FALSE, testing |-> FALSE, taken |-> FALSE]
        /\ \/ c_heard' = c_heard
           \/ /\ c_frame.sound
              /\ c_heard' = c_heard \cup {[muted |-> c_frame.muted, testing |-> c_frame.testing]}
        /\ UNCHANGED <<c_Muted, c_Deafened, c_InTestMode, c_PrevMuted, c_PrevDeafened>>
    BY <1>3 DEF C!SendFrame, C!Idle, C!controls
  <2> QED
    BY <2>1 DEF SwitchesInv, C!MutedSoundStaysHere
<1>4. CASE UNCHANGED <<c_Muted, c_Deafened, c_InTestMode, c_PrevMuted, c_PrevDeafened, c_frame,
                       c_heard>>
  BY <1>4 DEF SwitchesInv, C!MutedSoundStaysHere
<1>5. CASE C!JoinRoom \/ C!Ping \/ C!Chat \/ C!Refresh \/ UNCHANGED cVars
  BY <1>4, <1>5 DEF C!JoinRoom, C!Ping, C!Chat, C!Refresh, C!controls, cVars
<1>6. C!Next \/ UNCHANGED cVars
  BY DEF Next, Others, all
<1> QED
  BY <1>1, <1>2, <1>3, <1>5, <1>6 DEF C!Next

-----------------------------------------------------------------------------
(* The source of a capture stream                                          *)

\* While a look at a monitor is the last one that counts, the writer knows of
\* the monitor; an answer that says microphone is not out of date.
SourceInv ==
    /\ M!FoundMonitorIsSilent
    /\ m_seen \in BOOLEAN
    /\ m_source = "monitor" /\ m_seen => m_onMonitor
    /\ m_looking = "mic" => m_source = "mic"

LEMMA SourceInit == Init => SourceInv
<1> SUFFICES ASSUME M!Init PROVE SourceInv
  BY DEF Init
<1> QED
  BY DEF M!Init, SourceInv, M!FoundMonitorIsSilent

LEMMA SourceStep == SourceInv /\ [Next]_all => SourceInv'
<1> SUFFICES ASSUME SourceInv, [Next]_all PROVE SourceInv'
  OBVIOUS
<1> USE DEF SourceInv, M!FoundMonitorIsSilent
<1>1. CASE M!ServerMoves
  <2>1. CASE m_source = "mic" /\ m_seen' = FALSE /\ m_looking' # "mic" /\ m_sent' = m_sent
    <3>1. m_seen' \in BOOLEAN /\ ~m_seen'
      BY <2>1
    <3> QED
      BY <2>1, <3>1
  <2>2. CASE UNCHANGED <<m_source, m_seen, m_looking, m_onMonitor, m_sent>>
    BY <2>2
  <2> QED
    BY <1>1, <2>1, <2>2 DEF M!ServerMoves, M!Outdated
<1>2. CASE M!Write
  BY <1>2 DEF M!Write
<1>3. CASE M!Look \/ M!MoveBack
  BY <1>3 DEF M!Look, M!MoveBack
<1>4. CASE M!Judge
  BY <1>4 DEF M!Judge
<1>5. CASE UNCHANGED mVars
  BY <1>5 DEF mVars
<1>6. M!Next \/ UNCHANGED mVars
  BY DEF Next, Others, all
<1> QED
  BY <1>1, <1>2, <1>3, <1>4, <1>5, <1>6 DEF M!Next, M!Watch

-----------------------------------------------------------------------------
(* The properties of the runs                                              *)

\* Whatever the event loop, the watcher of devices, watchdogs, restarts and the user do at once,
\* no stream is closed twice and none is current after Stop, and, unless the loop and the watcher
\* reopened at the same time, no stream is left without one who closes it (restartCapture,
\* startCapture); every capture and preview belongs to the share there is or is being closed
\* (startScreenShare, StopScreenShare), and two encoders never feed one share (Restart): for
\* every set of devices and any number of streams, shares, viewers and encoders.
THEOREM ResourcesStayOwned == Spec => []ResourcesAreOwned
<1> DEFINE Inv == EncoderInv /\ DeviceInv /\ StreamInv /\ OwnedInv /\ ShareInv
<1>1. Init => Inv
  BY EncoderInit, DeviceInit, StreamInit, OwnedInit, ShareInit
<1>2. Inv /\ [Next]_all => Inv'
  BY EncoderStep, DeviceStep, StreamStep, OwnedStep, ShareStep
<1>3. Inv => ResourcesAreOwned
  BY OwnedIs DEF EncoderInv, ShareInv, ResourcesAreOwned
<1> HIDE DEF Inv
<1> QED
  BY <1>1, <1>2, <1>3, PTL DEF Spec

\* The microphone the user chose is selected whenever it is listed, however often it and others
\* come and go between the choice, the refreshes of the list and the reopenings of the stream
\* (SetInputDevice, RefreshDevices, reselect).
THEOREM ChosenDeviceStaysUsed == Spec => []ChosenDeviceIsUsed
<1>1. DeviceInv => ChosenDeviceIsUsed
  BY DEF DeviceInv, ChosenDeviceIsUsed
<1> QED
  BY <1>1, DeviceInit, DeviceStep, PTL DEF Spec

\* What was said while muted is never heard, also when the microphone is switched on between the
\* two looks the capture thread takes at the switches (processCaptureFrame, App.Run), nor is the
\* sound of a monitor once a look has found it (watchSource), however long the user and the
\* server go on.
THEOREM OnlyMeantSoundGoesOut == Spec => []OnlyMeantSoundIsSent
<1>1. Init => SwitchesInv /\ SourceInv
  BY SwitchesInit, SourceInit
<1>2. SwitchesInv /\ SourceInv /\ [Next]_all => (SwitchesInv /\ SourceInv)'
  BY SwitchesStep, SourceStep
<1>3. SwitchesInv /\ SourceInv => OnlyMeantSoundIsSent
  BY DEF SwitchesInv, SourceInv, OnlyMeantSoundIsSent
<1> QED
  BY <1>1, <1>2, <1>3, PTL DEF Spec

-----------------------------------------------------------------------------
(* Numbers                                                                 *)

Newest == v_First + v_MaxFrames
Numbers == 0 .. Newest + 1

\* Numbers that have not come half way round compare as they are.
LEMMA Distances ==
    ASSUME V!VoicePathAssumption, NEW a \in Numbers, NEW b \in Numbers
    PROVE  V!Ahead(a, b) = a - b
<1>1. /\ v_Wrap \in Nat /\ v_First \in Nat /\ v_MaxFrames \in Nat
      /\ 2 * (Newest + 1) < v_Wrap
  BY DEF V!VoicePathAssumption, Newest
<1>2. CASE a >= b
  <2>1. (a - b) % v_Wrap = a - b
    BY <1>1, <1>2 DEF Numbers, Newest
  <2> QED
    BY <1>1, <1>2, <2>1 DEF V!Ahead, Numbers, Newest
<1>3. CASE a < b
  <2>1. (a - b) % v_Wrap = a - b + v_Wrap
    BY <1>1, <1>3 DEF Numbers, Newest
  <2> QED
    BY <1>1, <1>3, <2>1 DEF V!Ahead, Numbers, Newest
<1> QED
  BY <1>1, <1>2, <1>3 DEF Numbers, Newest

LEMMA Successor ==
    ASSUME V!VoicePathAssumption, NEW a \in Numbers
    PROVE  (a + 1) % v_Wrap = a + 1
<1>1. /\ v_Wrap \in Nat /\ v_First \in Nat /\ v_MaxFrames \in Nat
      /\ 2 * (Newest + 1) < v_Wrap
  BY DEF V!VoicePathAssumption, Newest
<1> QED
  BY <1>1 DEF Numbers, Newest

LEMMA NumberOfPacket ==
    ASSUME V!VoicePathAssumption, NEW k \in 1 .. v_MaxFrames
    PROVE  V!SeqOf(k) = v_First + k /\ v_First + k \in 1 .. Newest
<1>1. /\ v_Wrap \in Nat /\ v_First \in Nat /\ v_MaxFrames \in Nat
      /\ 2 * (Newest + 1) < v_Wrap
  BY DEF V!VoicePathAssumption, Newest
<1> QED
  BY <1>1 DEF V!SeqOf, Newest

\* The oldest of the packets a buffer holds.
LEMMA OldestPacket ==
    ASSUME V!VoicePathAssumption, NEW set, set \subseteq 1 .. Newest, set # {}
    PROVE  V!MinSeq(set) \in set /\ \A t \in set : V!MinSeq(set) <= t
<1>1. set \subseteq Nat
  BY DEF V!VoicePathAssumption, Newest
<1>2. PICK m \in set : \A t \in set : ~(<<t, m>> \in OpToRel(<, Nat))
  BY <1>1, NatLessThanWellFounded, WFMin
<1>3. ASSUME NEW t \in set PROVE m <= t
  <2>1. ~(<<t, m>> \in OpToRel(<, Nat)) /\ t \in Nat /\ m \in Nat
    BY <1>1, <1>2
  <2> QED
    BY <2>1 DEF OpToRel
<1>4. \A s, t \in set : V!Ahead(s, t) = s - t
  BY Distances DEF V!VoicePathAssumption, Numbers, Newest
<1>5. \E s \in set : \A t \in set : V!Ahead(s, t) <= 0
  BY <1>1, <1>3, <1>4
<1>6. V!MinSeq(set) \in set /\ \A t \in set : V!Ahead(V!MinSeq(set), t) <= 0
  BY <1>5 DEF V!MinSeq
<1>7. ASSUME NEW t \in set PROVE V!MinSeq(set) <= t
  <2>1. V!MinSeq(set) - t <= 0 /\ V!MinSeq(set) \in Nat /\ t \in Nat
    BY <1>1, <1>4, <1>6
  <2> QED
    BY <2>1
<1> QED
  BY <1>6, <1>7

\* Two packets of one slot are as far apart as there are slots.
LEMMA SlotsApart ==
    ASSUME V!VoicePathAssumption, NEW s \in Nat, NEW t \in Nat,
           s % v_Slots = t % v_Slots, s < t
    PROVE  s + v_Slots <= t
<1>1. v_Slots \in Nat \ {0}
  BY DEF V!VoicePathAssumption
<1>2. /\ s = v_Slots * (s \div v_Slots) + (s % v_Slots) /\ s \div v_Slots \in Nat
      /\ t = v_Slots * (t \div v_Slots) + (t % v_Slots) /\ t \div v_Slots \in Nat
      /\ s % v_Slots \in 0 .. v_Slots - 1
  BY <1>1
<1>3. s \div v_Slots < t \div v_Slots
  <2> SUFFICES ASSUME s \div v_Slots >= t \div v_Slots PROVE FALSE
    BY <1>2
  <2>1. v_Slots * (s \div v_Slots) >= v_Slots * (t \div v_Slots)
    BY <1>1, <1>2
  <2> QED
    BY <1>1, <1>2, <2>1
<1>4. v_Slots * (t \div v_Slots) >= v_Slots * (s \div v_Slots + 1)
  BY <1>1, <1>2, <1>3
<1>5. v_Slots * (s \div v_Slots + 1) = v_Slots * (s \div v_Slots) + v_Slots
  BY <1>1, <1>2
<1> QED
  BY <1>1, <1>2, <1>4, <1>5

LEMMA SameCardinality == \A set : V!Cardinality(set) = Cardinality(set)
BY DEF V!Cardinality, Cardinality

-----------------------------------------------------------------------------
(* The speaker                                                             *)

Increasing(s) == \A j, k \in DOMAIN s : j < k => s[j] < s[k]

\* What is kept back is younger than what was sent, and there is something
\* only in a silence.
SpeakerInv ==
    /\ v_captured \in 0 .. v_MaxFrames /\ v_silenceHangover \in Nat
    /\ v_audioPreRoll \in Seq(1 .. v_captured) /\ v_sent \in Seq(1 .. v_captured)
    /\ Len(v_sent) + Len(v_audioPreRoll) <= v_captured
    /\ v_silenceHangover > 0 => v_audioPreRoll = <<>>
    /\ Increasing(v_sent) /\ Increasing(v_audioPreRoll)
    /\ \A j \in DOMAIN v_sent : \A k \in DOMAIN v_audioPreRoll : v_sent[j] < v_audioPreRoll[k]
    /\ v_net \subseteq (1 .. Len(v_sent)) \X {"relay", "direct"}

LEMMA Younger ==
    ASSUME NEW n \in Nat, NEW s \in Seq(1 .. n), Increasing(s)
    PROVE  /\ Append(s, n + 1) \in Seq(1 .. n + 1)
           /\ Len(Append(s, n + 1)) = Len(s) + 1
           /\ \A i \in 1 .. Len(s) : Append(s, n + 1)[i] = s[i]
           /\ Append(s, n + 1)[Len(s) + 1] = n + 1
           /\ Increasing(Append(s, n + 1))
<1> DEFINE t == Append(s, n + 1)
<1>1. s \in Seq(1 .. n + 1)
  BY SeqMonotonic, 1 .. n \subseteq 1 .. n + 1
<1>2. /\ t \in Seq(1 .. n + 1) /\ Len(t) = Len(s) + 1
      /\ \A i \in 1 .. Len(s) : t[i] = s[i] /\ s[i] \in 1 .. n
      /\ t[Len(s) + 1] = n + 1 /\ DOMAIN t = 1 .. Len(s) + 1 /\ Len(s) \in Nat
      /\ DOMAIN s = 1 .. Len(s)
  BY <1>1, AppendProperties, LenProperties, ElementOfSeq
<1>3. ASSUME NEW j \in DOMAIN t, NEW k \in DOMAIN t, j < k PROVE t[j] < t[k]
  <2>1. CASE k = Len(s) + 1
    BY <1>2, <1>3, <2>1
  <2>2. CASE k # Len(s) + 1
    BY <1>2, <1>3, <2>2 DEF Increasing
  <2> QED
    BY <2>1, <2>2
<1> QED
  BY <1>2, <1>3 DEF Increasing

LEMMA Joined ==
    ASSUME NEW n \in Nat, NEW s \in Seq(1 .. n), NEW t \in Seq(1 .. n),
           Increasing(s), Increasing(t),
           \A j \in DOMAIN s : \A k \in DOMAIN t : s[j] < t[k]
    PROVE  /\ s \o t \in Seq(1 .. n) /\ Len(s \o t) = Len(s) + Len(t)
           /\ Increasing(s \o t)
<1> DEFINE u == s \o t
<1>1. /\ u \in Seq(1 .. n) /\ Len(u) = Len(s) + Len(t)
      /\ \A i \in 1 .. Len(s) + Len(t) :
            u[i] = IF i <= Len(s) THEN s[i] ELSE t[i - Len(s)]
      /\ DOMAIN u = 1 .. Len(s) + Len(t)
      /\ DOMAIN s = 1 .. Len(s) /\ DOMAIN t = 1 .. Len(t)
      /\ Len(s) \in Nat /\ Len(t) \in Nat
  BY ConcatProperties, LenProperties
<1> HIDE DEF u
<1>2. ASSUME NEW j \in DOMAIN u, NEW k \in DOMAIN u, j < k PROVE u[j] < u[k]
  <2>1. CASE k <= Len(s)
    BY <1>1, <1>2, <2>1 DEF Increasing
  <2>2. CASE j > Len(s)
    <3>1. /\ j \in 1 .. Len(s) + Len(t) /\ k \in 1 .. Len(s) + Len(t)
          /\ ~(j <= Len(s)) /\ ~(k <= Len(s))
      BY <1>1, <1>2, <2>2
    <3>2. u[j] = t[j - Len(s)] /\ u[k] = t[k - Len(s)]
      BY <1>1, <3>1
    <3>3. j - Len(s) \in DOMAIN t /\ k - Len(s) \in DOMAIN t /\ j - Len(s) < k - Len(s)
      BY <1>1, <1>2, <3>1
    <3> QED
      BY <3>2, <3>3 DEF Increasing
  <2>3. CASE j <= Len(s) /\ k > Len(s)
    <3>1. /\ u[j] = s[j] /\ u[k] = t[k - Len(s)]
          /\ j \in DOMAIN s /\ k - Len(s) \in DOMAIN t
      BY <1>1, <1>2, <2>3
    <3> QED
      BY <3>1
  <2> QED
    BY <1>1, <2>1, <2>2, <2>3
<1> QED
  BY <1>1, <1>2 DEF Increasing, u

LEMMA SpeakerInit == V!VoicePathAssumption /\ V!Init => SpeakerInv
<1> SUFFICES ASSUME V!VoicePathAssumption, V!Init PROVE SpeakerInv
  OBVIOUS
<1>1. /\ v_captured = 0 /\ v_silenceHangover = 0 /\ v_net = {}
      /\ v_audioPreRoll = <<>> /\ v_sent = <<>> /\ v_MaxFrames \in Nat
  BY DEF V!Init, V!VoicePathAssumption
<1>2. <<>> \in Seq(1 .. 0) /\ Len(<<>>) = 0 /\ DOMAIN <<>> = {}
  BY EmptySeq
<1> QED
  BY <1>1, <1>2 DEF SpeakerInv, Increasing

LEMMA SpeakerStep ==
    V!VoicePathAssumption /\ SpeakerInv /\ [V!Next]_(V!vars) => SpeakerInv'
<1> SUFFICES ASSUME V!VoicePathAssumption, SpeakerInv, [V!Next]_(V!vars) PROVE SpeakerInv'
  OBVIOUS
<1> DEFINE f == v_captured + 1
<1>1. CASE UNCHANGED V!senderVars /\ v_net' \subseteq v_net
  BY <1>1 DEF V!senderVars, SpeakerInv
<1>2. CASE V!SendAudio
  <2>1. /\ v_captured \in Nat /\ f \in 1 .. v_MaxFrames /\ v_captured' = f
        /\ v_MaxFrames \in Nat /\ v_Hangover \in Nat
    BY <1>2 DEF V!SendAudio, SpeakerInv, V!VoicePathAssumption
  <2>2. /\ v_audioPreRoll \in Seq(1 .. f) /\ v_sent \in Seq(1 .. f)
        /\ Len(v_sent) \in Nat /\ Len(v_audioPreRoll) \in Nat
        /\ DOMAIN v_sent = 1 .. Len(v_sent) /\ DOMAIN v_audioPreRoll = 1 .. Len(v_audioPreRoll)
    <3>1. 1 .. v_captured \subseteq 1 .. f
      BY <2>1
    <3> QED
      BY <3>1, SeqMonotonic, LenProperties DEF SpeakerInv
  <2>3. /\ Append(v_audioPreRoll, f) \in Seq(1 .. f) /\ Increasing(Append(v_audioPreRoll, f))
        /\ Append(v_sent, f) \in Seq(1 .. f) /\ Increasing(Append(v_sent, f))
        /\ Len(Append(v_audioPreRoll, f)) = Len(v_audioPreRoll) + 1
        /\ Len(Append(v_sent, f)) = Len(v_sent) + 1
    BY <2>1, Younger DEF SpeakerInv
  <2>4. ASSUME v_sent' \in Seq(1 .. f), Increasing(v_sent'), Len(v_sent') <= f,
               v_audioPreRoll' = <<>>, v_silenceHangover' \in Nat,
               v_net' \subseteq (1 .. Len(v_sent')) \X {"relay", "direct"}
        PROVE  SpeakerInv'
    <3>1. <<>> \in Seq(1 .. f) /\ Len(<<>>) = 0 /\ DOMAIN <<>> = {}
      BY EmptySeq
    <3>2. Len(v_sent') \in Nat
      BY <2>4, LenProperties
    <3> QED
      BY <2>1, <2>4, <3>1, <3>2 DEF SpeakerInv, Increasing
  <2>5. ASSUME V!Transmit(<<f>>), v_audioPreRoll = <<>>, UNCHANGED v_audioPreRoll,
               v_silenceHangover' \in Nat
        PROVE  SpeakerInv'
    <3>1. v_sent \o <<f>> = Append(v_sent, f) /\ Len(v_audioPreRoll) = 0
      BY <2>1, <2>2, <2>5, AppendIsConcat, EmptySeq
    <3>2. /\ v_sent' = Append(v_sent, f) /\ Len(Append(v_sent, f)) <= f
          /\ v_net' = v_net \cup ((Len(v_sent) + 1 .. Len(v_sent) + 1) \X {"relay", "direct"})
      BY <2>1, <2>2, <2>3, <2>5, <3>1 DEF V!Transmit, SpeakerInv
    <3>3. v_net' \subseteq (1 .. Len(v_sent) + 1) \X {"relay", "direct"}
      BY <2>2, <3>2 DEF SpeakerInv
    <3> QED
      BY <2>3, <2>4, <2>5, <3>2, <3>3
  <2>6. CASE V!Speak(f)
    <3>1. v_audioPreRoll' = <<>> /\ v_silenceHangover' \in Nat
      <4>1. v_silenceHangover # 0 => v_audioPreRoll = <<>> /\ v_audioPreRoll' = v_audioPreRoll
        BY <2>6 DEF V!Speak, SpeakerInv
      <4> QED
        BY <2>1, <2>6, <4>1 DEF V!Speak
    <3>2. CASE v_silenceHangover = 0
      <4> DEFINE s == v_sent \o Append(v_audioPreRoll, f)
      <4>1. s \in Seq(1 .. f) /\ Increasing(s) /\ Len(s) = Len(v_sent) + Len(v_audioPreRoll) + 1
        <5>1. \A j \in DOMAIN v_sent : \A k \in DOMAIN Append(v_audioPreRoll, f) :
                 v_sent[j] < Append(v_audioPreRoll, f)[k]
          <6>1. \A j \in DOMAIN v_sent : v_sent[j] \in 1 .. v_captured
            BY <2>1, ElementOfSeq DEF SpeakerInv
          <6>2. /\ DOMAIN Append(v_audioPreRoll, f) = 1 .. Len(v_audioPreRoll) + 1
                /\ \A k \in 1 .. Len(v_audioPreRoll) : Append(v_audioPreRoll, f)[k] = v_audioPreRoll[k]
                /\ Append(v_audioPreRoll, f)[Len(v_audioPreRoll) + 1] = f
            BY <2>1, <2>2, AppendProperties, LenProperties
          <6>3. \A k \in 1 .. Len(v_audioPreRoll) + 1 :
                   k \in 1 .. Len(v_audioPreRoll) \/ k = Len(v_audioPreRoll) + 1
            BY <2>2
          <6> QED
            BY <2>1, <2>2, <6>1, <6>2, <6>3 DEF SpeakerInv
        <5>2. Increasing(v_sent) /\ f \in Nat
          BY <2>1 DEF SpeakerInv
        <5>3. /\ s \in Seq(1 .. f) /\ Increasing(s)
              /\ Len(s) = Len(v_sent) + Len(Append(v_audioPreRoll, f))
          BY <2>2, <2>3, <5>1, <5>2, Joined
        <5> QED
          BY <2>2, <2>3, <5>3
      <4>2. v_sent' = s /\ v_net' = v_net \cup ((Len(v_sent) + 1 .. Len(s)) \X {"relay", "direct"})
        BY <2>6, <3>2 DEF V!Speak, V!Transmit
      <4>3. Len(v_sent) <= Len(s) /\ Len(s) <= f /\ Len(s) \in Nat
        BY <2>1, <2>2, <4>1 DEF SpeakerInv
      <4>4. v_net' \subseteq (1 .. Len(s)) \X {"relay", "direct"}
        BY <2>2, <4>2, <4>3 DEF SpeakerInv
      <4> HIDE DEF s
      <4> QED
        BY <2>4, <3>1, <4>1, <4>2, <4>3, <4>4
    <3>3. CASE v_silenceHangover # 0
      <4>1. v_audioPreRoll = <<>> /\ UNCHANGED v_audioPreRoll /\ V!Transmit(<<f>>)
        BY <2>6, <3>3 DEF V!Speak, SpeakerInv
      <4> QED
        BY <2>5, <3>1, <4>1
    <3> QED
      BY <3>2, <3>3
  <2>7. CASE V!Pause(f)
    <3>1. CASE v_silenceHangover > 0
      BY <2>5, <2>7, <3>1 DEF V!Pause, SpeakerInv
    <3>2. CASE ~(v_silenceHangover > 0)
      <4> DEFINE kept == Append(v_audioPreRoll, f)
                 room == IF Len(kept) > v_PreRoll THEN Tail(kept) ELSE kept
      <4>1. UNCHANGED <<v_silenceHangover, v_sent, v_net>> /\ v_audioPreRoll' = room
        BY <2>7, <3>2 DEF V!Pause
      <4>2. /\ DOMAIN kept = 1 .. Len(kept) /\ Len(kept) = Len(v_audioPreRoll) + 1
            /\ \A k \in 1 .. Len(v_audioPreRoll) : kept[k] = v_audioPreRoll[k]
            /\ kept[Len(kept)] = f /\ kept # <<>>
        <5>1. /\ Len(kept) = Len(v_audioPreRoll) + 1 /\ kept[Len(v_audioPreRoll) + 1] = f
              /\ \A k \in 1 .. Len(v_audioPreRoll) : kept[k] = v_audioPreRoll[k]
          BY <2>1, Younger DEF SpeakerInv
        <5>2. DOMAIN kept = 1 .. Len(kept)
          BY <2>3, LenProperties
        <5>3. kept # <<>>
          BY <2>2, <5>1, EmptySeq
        <5> HIDE DEF kept
        <5> QED
          BY <5>1, <5>2, <5>3
      <4>3. \A j \in DOMAIN v_sent : \A k \in DOMAIN kept : v_sent[j] < kept[k]
        <5>1. \A j \in DOMAIN v_sent : v_sent[j] \in 1 .. v_captured
          BY <2>1, ElementOfSeq DEF SpeakerInv
        <5>2. \A k \in DOMAIN kept : k \in 1 .. Len(v_audioPreRoll) \/ k = Len(kept)
          BY <2>2, <4>2
        <5> QED
          BY <2>1, <2>2, <4>2, <5>1, <5>2 DEF SpeakerInv
      <4>4. /\ room \in Seq(1 .. f) /\ Increasing(room) /\ Len(room) <= Len(kept)
            /\ \A j \in DOMAIN v_sent : \A k \in DOMAIN room : v_sent[j] < room[k]
        <5>1. room \in {Tail(kept), kept}
          OBVIOUS
        <5> HIDE DEF room
        <5> HIDE DEF kept
        <5>2. kept \in Seq(1 .. f) /\ Increasing(kept) /\ Len(kept) \in Nat
          BY <2>3, <2>2, <4>2 DEF kept
        <5>3. CASE room = Tail(kept)
          <6>1. /\ Tail(kept) \in Seq(1 .. f) /\ Len(Tail(kept)) = Len(kept) - 1
                /\ DOMAIN Tail(kept) = 1 .. Len(kept) - 1
                /\ \A i \in 1 .. Len(kept) - 1 : Tail(kept)[i] = kept[i + 1]
            BY <4>2, <5>2, HeadTailProperties, LenProperties
          <6>2. \A i \in 1 .. Len(kept) - 1 : i + 1 \in DOMAIN kept
            BY <4>2, <5>2
          <6>3. Increasing(Tail(kept))
            BY <5>2, <6>1, <6>2 DEF Increasing
          <6> QED
            BY <4>3, <5>2, <5>3, <6>1, <6>2, <6>3
        <5>4. CASE room = kept
          BY <4>3, <5>2, <5>4
        <5> QED
          BY <5>1, <5>3, <5>4
      <4> HIDE DEF room
      <4>5. Len(v_sent) + Len(room) <= f /\ Len(room) \in Nat
        BY <2>1, <2>2, <4>2, <4>4, LenProperties DEF SpeakerInv
      <4> QED
        BY <2>1, <2>2, <3>2, <4>1, <4>4, <4>5 DEF SpeakerInv
    <3> QED
      BY <3>1, <3>2
  <2> QED
    BY <1>2, <2>1, <2>6, <2>7 DEF V!SendAudio
<1>3. CASE V!Receive \/ V!Pull \/ UNCHANGED V!vars
  BY <1>1, <1>3 DEF V!Receive, V!Pull, V!vars
<1> QED
  BY <1>2, <1>3 DEF V!Next

-----------------------------------------------------------------------------
(* The listener                                                            *)

\* Whatever the jitter buffer holds or has played is remembered, or too old to
\* be let in again.
CheckInv ==
    /\ v_seqs \in [0 .. v_Slots - 1 -> Nat] /\ v_maxSeq \in Nat
    /\ v_packets \subseteq 1 .. Newest /\ v_played \subseteq 1 .. Newest
    /\ \A s \in v_packets \cup v_played :
          s <= v_maxSeq /\ (v_seqs[s % v_Slots] = s \/ s + v_TooOld < v_maxSeq)

\* What is in the buffer has not been played, and its turn has not passed.
BufferInv ==
    /\ v_packets \cap v_played = {} /\ v_again = {}
    /\ v_next \in Numbers /\ v_started \in BOOLEAN
    /\ v_started => \A s \in v_packets : v_next <= s

VoiceInv == SpeakerInv /\ CheckInv /\ BufferInv

LEMMA VoiceInit == V!VoicePathAssumption /\ V!Init => VoiceInv
<1> SUFFICES ASSUME V!VoicePathAssumption, V!Init PROVE VoiceInv
  OBVIOUS
<1>1. /\ v_seqs = [i \in 0 .. v_Slots - 1 |-> 0] /\ v_maxSeq = 0
      /\ v_packets = {} /\ v_played = {} /\ v_again = {} /\ v_next = 0
  BY DEF V!Init
<1>2. v_started \in BOOLEAN
  BY DEF V!Init
<1>3. 0 \in Numbers
  BY DEF Numbers, Newest, V!VoicePathAssumption
<1> QED
  BY <1>1, <1>2, <1>3, SpeakerInit DEF VoiceInv, CheckInv, BufferInv

\* A frame that is decoded leaves the buffer, with older ones at most.
LEMMA PlayOne ==
    ASSUME BufferInv, CheckInv, NEW s \in v_packets,
           v_packets' \subseteq v_packets \ {s}, V!Plays(s), UNCHANGED V!dedupVars,
           v_next' \in Numbers, v_started' \in BOOLEAN,
           \A t \in v_packets' : v_next' <= t
    PROVE  BufferInv' /\ CheckInv'
<1>1. v_played' = v_played \cup {s} /\ v_again' = {}
  BY DEF V!Plays, BufferInv
<1>2. UNCHANGED <<v_seqs, v_maxSeq>> /\ v_packets' \cup v_played' \subseteq v_packets \cup v_played
  BY <1>1 DEF V!dedupVars
<1> QED
  BY <1>1, <1>2 DEF BufferInv, CheckInv

LEMMA PullStep ==
    V!VoicePathAssumption /\ VoiceInv /\ V!Pull => BufferInv' /\ CheckInv'
<1> SUFFICES ASSUME V!VoicePathAssumption, BufferInv, CheckInv, V!Pull
             PROVE  BufferInv' /\ CheckInv'
  BY DEF VoiceInv
<1>1. /\ UNCHANGED V!dedupVars /\ v_packets \subseteq 1 .. Newest /\ Newest \in Nat
      /\ 1 .. Newest \subseteq Numbers
  BY DEF V!Pull, CheckInv, V!VoicePathAssumption, Numbers, Newest
<1>2. ASSUME NEW s \in v_packets, \A t \in v_packets : s <= t, V!Decode(s), v_started' \in BOOLEAN
      PROVE  BufferInv' /\ CheckInv'
  <2> DEFINE after == s + 1
  <2>1. s \in Numbers /\ after \in Numbers /\ s \in Nat
    BY <1>1, <1>2 DEF Numbers
  <2>2. (s + 1) % v_Wrap = after /\ (after + 1) % v_Wrap = after + 1
    BY <2>1, Successor
  <2>3. /\ V!Plays(s)
        /\ \/ v_packets' = (v_packets \ {s}) \ {after} /\ after \in v_packets /\ v_next' = after + 1
           \/ v_packets' = v_packets \ {s} /\ v_next' = after
    BY <1>2, <2>2 DEF V!Decode
  <2>4. /\ v_next' \in Numbers /\ v_packets' \subseteq v_packets \ {s}
        /\ \A t \in v_packets' : v_next' <= t
    <3>1. \A t \in v_packets : t \in Nat /\ t <= Newest /\ s <= t
      BY <1>1, <1>2
    <3>2. CASE v_packets' = (v_packets \ {s}) \ {after} /\ after \in v_packets /\ v_next' = after + 1
      BY <1>1, <2>1, <3>1, <3>2 DEF Numbers
    <3>3. CASE v_packets' = v_packets \ {s} /\ v_next' = after
      BY <1>1, <2>1, <3>1, <3>3 DEF Numbers
    <3> QED
      BY <2>3, <3>2, <3>3
  <2> QED
    BY <1>1, <1>2, <2>3, <2>4, PlayOne
<1>3. CASE /\ ~v_started /\ v_packets # {} /\ v_started' = TRUE /\ V!Decode(V!MinSeq(v_packets))
  <2>1. v_started' \in BOOLEAN
    BY <1>3
  <2> QED
    BY <1>1, <1>2, <1>3, <2>1, OldestPacket
<1>4. CASE v_started /\ v_next \in v_packets /\ V!Decode(v_next) /\ UNCHANGED v_started
  BY <1>2, <1>4 DEF BufferInv
<1>5. CASE v_started /\ v_packets = {} /\ V!RunDry
  <2>1. UNCHANGED <<v_packets, v_next, v_played, v_again, V!dedupVars>> /\ v_started' \in {v_started, FALSE}
    BY <1>5 DEF V!RunDry, V!Pull
  <2> QED
    BY <1>5, <2>1 DEF BufferInv, CheckInv, V!dedupVars
<1>6. CASE /\ v_started /\ v_packets # {} /\ v_next \notin v_packets /\ V!Resync(V!MinSeq(v_packets))
           /\ UNCHANGED v_started
  <2> DEFINE s == V!MinSeq(v_packets)
  <2>1. s \in v_packets /\ \A t \in v_packets : s <= t
    BY <1>1, <1>6, OldestPacket
  <2> HIDE DEF s
  <2>2. s \in Numbers /\ (s + 1) % v_Wrap = s + 1
    BY <1>1, <2>1, Successor
  <2>3. V!Plays(s) /\ v_packets' = v_packets \ {s} /\ v_next' = s + 1
    BY <1>6, <2>2 DEF V!Resync, s
  <2>4. v_next' \in Numbers /\ \A t \in v_packets' : v_next' <= t
    BY <1>1, <2>1, <2>3 DEF Numbers
  <2> QED
    BY <1>1, <1>6, <2>1, <2>3, <2>4, PlayOne DEF BufferInv
<1>7. CASE /\ v_started /\ v_packets # {} /\ v_next \notin v_packets /\ V!SkipLost(v_next)
           /\ UNCHANGED v_started
  <2>1. v_next \in Numbers /\ (v_next + 1) % v_Wrap = v_next + 1
    BY Successor DEF BufferInv
  <2>2. v_next' = v_next + 1 /\ UNCHANGED <<v_packets, v_played, v_again, v_seqs, v_maxSeq, v_started>>
    BY <1>1, <1>7, <2>1 DEF V!SkipLost, V!dedupVars
  <2>3. \A s \in v_packets : s \in 1 .. Newest /\ v_next + 1 <= s
    BY <1>1, <1>7, <2>1 DEF BufferInv, Numbers
  <2>4. v_next' \in Numbers
    <3>1. PICK s \in v_packets : s \in 1 .. Newest /\ v_next + 1 <= s
      BY <1>7, <2>3
    <3> QED
      BY <1>1, <2>1, <2>2, <3>1 DEF Numbers
  <2> QED
    BY <2>2, <2>3, <2>4 DEF BufferInv, CheckInv
<1> QED
  BY <1>3, <1>4, <1>5, <1>6, <1>7 DEF V!Pull

\* A packet that is let in is neither in the buffer nor was it played, and
\* everything else stays remembered.
LEMMA LetIn ==
    ASSUME V!VoicePathAssumption, CheckInv, NEW s \in 1 .. Newest, V!ShouldProcess(s), V!Remember(s)
    PROVE  /\ s \notin v_packets \cup v_played
           /\ v_seqs' \in [0 .. v_Slots - 1 -> Nat] /\ v_maxSeq' \in Nat
           /\ \A t \in {s} \cup v_packets \cup v_played :
                 t <= v_maxSeq' /\ (v_seqs'[t % v_Slots] = t \/ t + v_TooOld < v_maxSeq')
<1>1. /\ v_Slots \in Nat \ {0} /\ v_TooOld \in Nat /\ v_TooOld < v_Slots /\ Newest \in Nat
      /\ s \in Nat \ {0} /\ v_maxSeq \in Nat
  <2>1. v_Slots \in Nat /\ v_TooOld \in Nat /\ v_TooOld < v_Slots /\ Newest \in Nat
    BY DEF V!VoicePathAssumption, Newest
  <2> QED
    BY <2>1 DEF CheckInv
<1>2. /\ v_seqs[s % v_Slots] # s /\ ~(v_maxSeq > v_TooOld /\ s < v_maxSeq - v_TooOld)
      /\ v_seqs' = [v_seqs EXCEPT ![s % v_Slots] = s]
      /\ v_maxSeq' = IF s > v_maxSeq THEN s ELSE v_maxSeq
  BY <1>1 DEF V!ShouldProcess, V!Remember
<1>3. s \notin v_packets \cup v_played
  BY <1>1, <1>2 DEF CheckInv
<1>4. /\ v_seqs' \in [0 .. v_Slots - 1 -> Nat] /\ v_maxSeq' \in Nat /\ v_maxSeq <= v_maxSeq'
      /\ s <= v_maxSeq' /\ s % v_Slots \in 0 .. v_Slots - 1
  BY <1>1, <1>2 DEF CheckInv
<1>5. v_seqs'[s % v_Slots] = s
  BY <1>2, <1>4 DEF CheckInv
<1>6. ASSUME NEW t \in v_packets \cup v_played
      PROVE  t <= v_maxSeq' /\ (v_seqs'[t % v_Slots] = t \/ t + v_TooOld < v_maxSeq')
  <2>1. /\ t \in Nat /\ t # s /\ t <= v_maxSeq /\ t % v_Slots \in 0 .. v_Slots - 1
        /\ v_seqs[t % v_Slots] = t \/ t + v_TooOld < v_maxSeq
    BY <1>1, <1>3 DEF CheckInv
  <2>2. CASE t % v_Slots # s % v_Slots \/ t + v_TooOld < v_maxSeq
    <3>1. t % v_Slots # s % v_Slots => v_seqs'[t % v_Slots] = v_seqs[t % v_Slots]
      BY <1>2, <2>1 DEF CheckInv
    <3> QED
      BY <1>1, <1>4, <2>1, <2>2, <3>1
  <2>3. CASE t % v_Slots = s % v_Slots /\ t < s
    <3>1. t + v_Slots <= s
      BY <1>1, <2>1, <2>3, SlotsApart
    <3> QED
      BY <1>1, <1>4, <2>1, <3>1
  <2>4. CASE t % v_Slots = s % v_Slots /\ s < t
    <3>1. s + v_Slots <= t
      BY <1>1, <2>1, <2>4, SlotsApart
    <3> QED
      BY <1>1, <1>2, <1>4, <2>1, <3>1
  <2> QED
    BY <1>1, <2>1, <2>2, <2>3, <2>4
<1> QED
  BY <1>3, <1>4, <1>5, <1>6

LEMMA ReceiveStep ==
    V!VoicePathAssumption /\ VoiceInv /\ V!Receive => BufferInv' /\ CheckInv'
<1> SUFFICES ASSUME V!VoicePathAssumption, SpeakerInv, BufferInv, CheckInv, V!Receive
             PROVE  BufferInv' /\ CheckInv'
  BY DEF VoiceInv
<1>1. CASE UNCHANGED <<V!dedupVars, V!jitterVars>>
  BY <1>1 DEF V!dedupVars, V!jitterVars, BufferInv, CheckInv
<1>2. ASSUME NEW s \in 1 .. Newest, V!ShouldProcess(s), V!Remember(s), V!Push(s)
      PROVE  BufferInv' /\ CheckInv'
  <2> DEFINE jump == v_started /\ (V!Ahead(s, v_next) <= -v_ResyncGap \/ V!Ahead(s, v_next) > v_ResyncGap)
             kept == IF jump THEN {} ELSE v_packets
             full == V!Cardinality(kept) >= v_MaxBuffered
             left == IF full THEN kept \ {V!MinSeq(kept)} ELSE kept
  <2>1. /\ s \notin v_packets \cup v_played
        /\ v_seqs' \in [0 .. v_Slots - 1 -> Nat] /\ v_maxSeq' \in Nat
        /\ \A t \in {s} \cup v_packets \cup v_played :
              t <= v_maxSeq' /\ (v_seqs'[t % v_Slots] = t \/ t + v_TooOld < v_maxSeq')
    BY <1>2, LetIn
  <2>2. v_played' = v_played /\ v_again' = v_again
    BY <1>2 DEF V!Push
  <2>3. /\ v_packets \subseteq 1 .. Newest /\ Newest \in Nat /\ v_ResyncGap \in Nat
        /\ s \in Numbers /\ v_next \in Numbers
    <3>1. Newest \in Nat /\ v_ResyncGap \in Nat
      BY DEF V!VoicePathAssumption, Newest
    <3>2. s \in Numbers
      BY <3>1 DEF Numbers
    <3> QED
      BY <3>1, <3>2 DEF CheckInv, BufferInv
  <2>4. V!Ahead(s, v_next) = s - v_next
    BY <2>3, Distances
  <2>5. CASE UNCHANGED <<v_started, v_packets, v_next>>
    BY <2>1, <2>2, <2>5 DEF BufferInv, CheckInv
  <2>6. CASE /\ ~(v_started /\ V!Ahead(s, v_next) < 0 /\ V!Ahead(s, v_next) > -v_ResyncGap)
             /\ v_started' = (v_started /\ ~jump) /\ v_packets' = left \cup {s}
             /\ v_next' = IF full /\ v_started' /\ V!MinSeq(kept) = v_next
                        THEN (v_next + 1) % v_Wrap ELSE v_next
    <3>1. full => kept # {}
      BY FS_EmptySet, SameCardinality DEF V!VoicePathAssumption
    <3>2. full => V!MinSeq(kept) \in kept /\ \A t \in kept : V!MinSeq(kept) <= t
      BY <2>3, <3>1, OldestPacket
    <3>3. left \subseteq v_packets /\ v_started' \in BOOLEAN
      BY <2>6
    <3>4. CheckInv'
      BY <2>1, <2>2, <2>6, <3>3 DEF CheckInv
    <3>5. v_packets' \cap v_played' = {} /\ v_again' = {}
      BY <2>1, <2>2, <2>6, <3>3 DEF BufferInv
    <3>6. /\ v_next \in Nat /\ s \in Nat /\ v_started \in BOOLEAN
          /\ \A t \in v_packets : t \in Nat
      BY <2>3 DEF Numbers, BufferInv
    <3>7. CASE v_started'
      <4>1. v_started /\ ~jump
        BY <2>6, <3>6, <3>7
      <4>2. kept = v_packets /\ v_next <= s /\ \A t \in v_packets : v_next <= t
        BY <2>3, <2>4, <2>6, <3>6, <4>1 DEF BufferInv
      <4> HIDE DEF jump, kept, full, left
      <4>3. CASE full /\ V!MinSeq(kept) = v_next
        <5>1. v_next \in v_packets /\ v_next' = v_next + 1
          BY <2>3, <2>6, <3>2, <3>7, <4>2, <4>3, Successor
        <5>2. left = v_packets \ {v_next} /\ s # v_next
          BY <2>1, <4>2, <4>3, <5>1 DEF left
        <5>3. \A t \in v_packets' : v_next + 1 <= t
          BY <2>6, <3>6, <4>2, <5>2
        <5>4. v_next' \in Numbers
          BY <2>3, <5>1 DEF Numbers
        <5> QED
          BY <3>3, <3>4, <3>5, <5>1, <5>3, <5>4 DEF BufferInv
      <4>4. CASE ~(full /\ V!MinSeq(kept) = v_next)
        <5>1. v_next' = v_next
          BY <2>6, <4>4
        <5>2. \A t \in v_packets' : v_next <= t
          BY <2>6, <3>3, <4>2
        <5> QED
          BY <2>3, <3>3, <3>4, <3>5, <5>1, <5>2 DEF BufferInv
      <4> QED
        BY <4>3, <4>4
    <3>8. CASE ~v_started'
      <4> HIDE DEF jump, kept, full, left
      <4>1. v_next' = v_next
        BY <2>6, <3>8
      <4> QED
        BY <2>3, <3>3, <3>4, <3>5, <3>8, <4>1 DEF BufferInv
    <3> QED
      BY <3>7, <3>8
  <2> QED
    BY <1>2, <2>5, <2>6 DEF V!Push
<1>3. PICK p \in v_net : \/ UNCHANGED <<V!dedupVars, V!jitterVars>>
                       \/ /\ V!ShouldProcess(V!SeqOf(p[1])) /\ V!Remember(V!SeqOf(p[1]))
                          /\ V!Push(V!SeqOf(p[1]))
  BY DEF V!Receive
<1>4. V!SeqOf(p[1]) \in 1 .. Newest
  <2>1. /\ p[1] \in 1 .. Len(v_sent) /\ Len(v_sent) + Len(v_audioPreRoll) <= v_captured
        /\ v_captured \in 0 .. v_MaxFrames
    BY DEF SpeakerInv
  <2>2. Len(v_sent) \in Nat /\ Len(v_audioPreRoll) \in Nat /\ v_MaxFrames \in Nat
    BY LenProperties DEF SpeakerInv, V!VoicePathAssumption
  <2>3. p[1] \in 1 .. v_MaxFrames
    BY <2>1, <2>2
  <2> QED
    BY <2>3, NumberOfPacket
<1> QED
  BY <1>1, <1>2, <1>3, <1>4

LEMMA VoiceStep == V!VoicePathAssumption /\ VoiceInv /\ [V!Next]_(V!vars) => VoiceInv'
<1> SUFFICES ASSUME V!VoicePathAssumption, VoiceInv, [V!Next]_(V!vars) PROVE VoiceInv'
  OBVIOUS
<1>1. SpeakerInv'
  BY SpeakerStep DEF VoiceInv
<1>2. CASE V!SendAudio \/ UNCHANGED V!vars
  <2>1. UNCHANGED <<V!dedupVars, V!jitterVars>>
    BY <1>2 DEF V!SendAudio, V!vars
  <2> QED
    BY <1>1, <2>1 DEF VoiceInv, V!dedupVars, V!jitterVars, BufferInv, CheckInv
<1> QED
  BY <1>1, <1>2, ReceiveStep, PullStep DEF VoiceInv, V!Next

LEMMA VoiceIsPlayed ==
    ASSUME VoiceInv
    PROVE  V!PlayedInOrder
<1>1. V!VoicePathAssumption
  BY MCMediaAssumption DEF MCMediaAssumption
<1>2. V!SentInOrder
  BY DEF VoiceInv, SpeakerInv, Increasing, V!SentInOrder
<1>3. ASSUME v_started, NEW s \in v_packets PROVE V!Ahead(s, v_next) >= 0
  <2>1. Newest \in Nat
    BY <1>1 DEF V!VoicePathAssumption, Newest
  <2>2. s \in Numbers /\ v_next \in Numbers /\ v_next <= s
    BY <1>3, <2>1 DEF VoiceInv, CheckInv, BufferInv, Numbers
  <2> QED
    BY <1>1, <2>1, <2>2, Distances DEF Numbers
<1> QED
  BY <1>2, <1>3 DEF V!PlayedInOrder, VoiceInv, BufferInv

-----------------------------------------------------------------------------
(* Folds: what is put together chunk by chunk                              *)

Put(q, chunk) == R!Put(q, chunk)

Chunks == INSTANCE FoldFacts WITH Step <- Put

LEMMA SameMin == \A set : R!Min(set) = Chunks!Min(set)
BY DEF R!Min, Chunks!Min

LEMMA SameFold ==
    ASSUME NEW q, NEW chunks
    PROVE  R!FoldLeft(R!Put, q, chunks) = Chunks!FoldLeft(Put, q, chunks)
BY DEF R!FoldLeft, R!MapThenFoldSet, R!Max, Chunks!FoldLeft, Chunks!MapThenFoldSet, Chunks!Max, Put

-----------------------------------------------------------------------------
(* Video                                                                   *)

\* A chunk after one thrown away is a keyframe; one after a chunk that went with a player
\* is there only once a player was replaced.
Sound(n, cut) ==
    /\ cut = "thrown" => n \in r_keys
    /\ cut = "player" => r_reopens > 0

\* The queue of a player, from which something was thrown away only when a keyframe
\* is waited for.
NoSmear(chunks, skip, hole) ==
    /\ \E set : chunks \in Seq([n : set, cut : R!Cuts])
    /\ \A i \in DOMAIN chunks : Sound(chunks[i].n, chunks[i].cut)
    /\ skip \in BOOLEAN /\ hole \in R!Cuts
    /\ hole = "thrown" => skip
    /\ hole = "player" => r_reopens > 0

Whole(q) ==
    \E chunks, skip, hole :
      q = [chunks |-> chunks, skip |-> skip, hole |-> hole] /\ NoSmear(chunks, skip, hole)

LEMMA WholeIs ==
    ASSUME NEW chunks, NEW skip, NEW hole,
           NEW q, q = [chunks |-> chunks, skip |-> skip, hole |-> hole]
    PROVE  q.chunks = chunks /\ q.skip = skip /\ q.hole = hole
OBVIOUS

LEMMA AddKeepsWhole ==
    ASSUME NEW q, NEW chunks, NEW skip, NEW hole, NEW c,
           q = [chunks |-> chunks, skip |-> skip, hole |-> hole],
           NoSmear(chunks, skip, hole), hole = "thrown" => c \in r_keys
    PROVE  Whole(R!Add(q, c))
<1>1. PICK set : chunks \in Seq([n : set, cut : R!Cuts])
  BY DEF NoSmear
<1> DEFINE more == [n : set \cup {c}, cut : R!Cuts]
           item == [n |-> c, cut |-> hole]
           added == Append(chunks, item)
<1>2. chunks \in Seq(more) /\ item \in more
  <2>1. [n : set, cut : R!Cuts] \subseteq more
    OBVIOUS
  <2>2. item \in more
    BY DEF NoSmear
  <2> QED
    BY <1>1, <2>1, <2>2, SeqMonotonic
<1> HIDE DEF more
<1>3. /\ added \in Seq(more) /\ Len(added) = Len(chunks) + 1
      /\ added[Len(chunks) + 1] = item
      /\ \A i \in 1 .. Len(chunks) : added[i] = chunks[i]
  BY <1>2, AppendProperties
<1>4. DOMAIN added = 1 .. Len(chunks) + 1 /\ DOMAIN chunks = 1 .. Len(chunks) /\ Len(chunks) \in Nat
  BY <1>2, <1>3, LenProperties
<1>5. ASSUME NEW i \in DOMAIN added PROVE Sound(added[i].n, added[i].cut)
  <2>1. CASE i = Len(chunks) + 1
    BY <1>3, <2>1 DEF NoSmear, Sound
  <2>2. CASE i # Len(chunks) + 1
    BY <1>3, <1>4, <2>2 DEF NoSmear
  <2> QED
    BY <2>1, <2>2
<1>6. R!Add(q, c) = [chunks |-> added, skip |-> FALSE, hole |-> "none"]
  BY WholeIs DEF R!Add
<1> HIDE DEF added
<1>7. NoSmear(added, FALSE, "none")
  BY <1>3, <1>5 DEF NoSmear, more, R!Cuts
<1> QED
  BY <1>6, <1>7 DEF Whole

\* No chunk makes the picture smear.
LEMMA PutKeepsWhole ==
    ASSUME NEW q, NEW c, Whole(q)
    PROVE  Whole(R!Put(q, c))
<1>1. PICK chunks, skip, hole :
        q = [chunks |-> chunks, skip |-> skip, hole |-> hole] /\ NoSmear(chunks, skip, hole)
  BY DEF Whole
<1>2. q.chunks = chunks /\ q.skip = skip /\ q.hole = hole
  BY <1>1, WholeIs
<1>3. CASE q.skip /\ c \notin r_keys
  <2>1. R!Put(q, c) = [chunks |-> chunks, skip |-> skip, hole |-> "thrown"]
    BY <1>2, <1>3 DEF R!Put, R!Throw
  <2>2. NoSmear(chunks, skip, "thrown")
    BY <1>1, <1>2, <1>3 DEF NoSmear, R!Cuts
  <2> QED
    BY <2>1, <2>2 DEF Whole
<1>4. CASE ~(q.skip /\ c \notin r_keys) /\ Len(q.chunks) < r_Cap
  <2>1. R!Put(q, c) = R!Add(q, c)
    BY <1>4 DEF R!Put
  <2>2. hole = "thrown" => c \in r_keys
    BY <1>1, <1>2, <1>4 DEF NoSmear
  <2> QED
    BY <1>1, <2>1, <2>2, AddKeepsWhole
<1>5. CASE ~(q.skip /\ c \notin r_keys) /\ ~(Len(q.chunks) < r_Cap)
  <2>1. R!Put(q, c) = IF c \in r_keys THEN R!Add(R!GiveUp(q, c), c) ELSE R!GiveUp(q, c)
    BY <1>5 DEF R!Put
  <2>2. NoSmear(<<>>, c \notin r_keys, "thrown") \/ c \in r_keys
    <3>1. <<>> \in Seq([n : {}, cut : R!Cuts]) /\ DOMAIN <<>> = {}
      OBVIOUS
    <3> QED
      BY <3>1 DEF NoSmear, R!Cuts
  <2>3. CASE c \notin r_keys
    BY <2>1, <2>2, <2>3 DEF R!GiveUp, Whole
  <2>4. CASE c \in r_keys
    <3> DEFINE key == [n |-> c, cut |-> "thrown"]
    <3>1. R!Put(q, c) = [chunks |-> Append(<<>>, key), skip |-> FALSE, hole |-> "none"]
      BY <2>1, <2>4 DEF R!GiveUp, R!Add
    <3>2. Append(<<>>, key) = <<key>>
      OBVIOUS
    <3>3. <<key>> \in Seq([n : {c}, cut : R!Cuts])
      BY DEF R!Cuts
    <3>4. \A i \in DOMAIN <<key>> : <<key>>[i].n = c /\ <<key>>[i].cut = "thrown"
      OBVIOUS
    <3>5. NoSmear(<<key>>, FALSE, "none")
      BY <2>4, <3>3, <3>4 DEF NoSmear, Sound, R!Cuts
    <3> QED
      BY <3>1, <3>2, <3>5 DEF Whole
  <2> QED
    BY <2>3, <2>4
<1> QED
  BY <1>3, <1>4, <1>5

LEMMA FoldKeepsWhole ==
    ASSUME NEW n \in Nat, NEW q, NEW chunks, DOMAIN chunks = 1 .. n, Whole(q)
    PROVE  Whole(R!FoldLeft(R!Put, q, chunks))
<1>1. PICK after : Chunks!StepByStep(after, n, q, chunks) /\ Chunks!FoldLeft(Put, q, chunks) = after[n]
  BY Chunks!FoldStepByStep
<1> DEFINE good == {k \in 0 .. n : Whole(after[k])}
<1>2. 0 \in good
  BY <1>1 DEF Chunks!StepByStep
<1>3. ASSUME NEW k \in good, k < n PROVE k + 1 \in good
  <2>1. k \in 0 .. n /\ k + 1 \in 0 .. n /\ Whole(after[k])
    BY <1>3
  <2>2. after[k + 1] = R!Put(after[k], chunks[k + 1])
    BY <1>1, <1>3, <2>1 DEF Chunks!StepByStep, Put
  <2>3. Whole(after[k + 1])
    BY <2>1, <2>2, PutKeepsWhole
  <2> QED
    BY <2>1, <2>3
<1> HIDE DEF good
<1>4. n \in good
  BY <1>2, <1>3, Chunks!UpTo
<1> QED
  BY <1>1, <1>4, SameFold DEF good

\* What is released of a finite buffer is a sequence.
LEMMA InOrderIsSequence ==
    ASSUME NEW r, NEW m, IsFiniteSet(r.pending)
    PROVE  \E n \in Nat : DOMAIN R!InOrder(r, m) = 1 .. n
<1> DEFINE due == {p \in r.pending : p < m}
<1>1. IsFiniteSet(due)
  BY FS_Subset
<1>2. R!Cardinality(due) \in Nat
  BY <1>1, FS_CardinalityType DEF R!Cardinality, Cardinality
<1>3. DOMAIN R!InOrder(r, m) = 1 .. R!Cardinality(due)
  BY DEF R!InOrder
<1> QED
  BY <1>2, <1>3

\* Chunks put into the queue, after the fold of them.
LEMMA DispatchKeeps ==
    ASSUME NEW n \in Nat, NEW chunks, DOMAIN chunks = 1 .. n,
           NoSmear(r_queue, r_skipToKey, r_hole), R!Dispatch(chunks), r_keys' = r_keys,
           r_reopens' = r_reopens
    PROVE  NoSmear(r_queue, r_skipToKey, r_hole)'
<1> DEFINE q == [chunks |-> r_queue, skip |-> r_skipToKey, hole |-> r_hole]
           after == R!FoldLeft(R!Put, q, chunks)
<1>1. Whole(q)
  BY DEF Whole
<1>2. r_queue' = after.chunks /\ r_skipToKey' = after.skip /\ r_hole' = after.hole
  BY DEF R!Dispatch
<1> HIDE DEF q
<1>3. Whole(after)
  BY <1>1, FoldKeepsWhole
<1> HIDE DEF after
<1>4. PICK some, skip, hole :
        after = [chunks |-> some, skip |-> skip, hole |-> hole] /\ NoSmear(some, skip, hole)
  BY <1>3 DEF Whole
<1>5. r_queue' = some /\ r_skipToKey' = skip /\ r_hole' = hole
  BY <1>2, <1>4, WholeIs
<1> QED
  BY <1>4, <1>5 DEF NoSmear, Sound

ReorderInv ==
    /\ IsFiniteSet(r_net)
    /\ DOMAIN r_rx = {"started", "next", "high", "pending", "missing"}
    /\ IsFiniteSet(r_rx.pending)

HandInv == Sound(r_hand.n, r_hand.cut)

\* A player that exited, or one whose pump is not done, has been replaced or will be.
PumpInv ==
    /\ r_reopens \in Nat
    /\ r_gone \/ r_oldPump # "ended" => r_reopens > 0

VideoInv == ReorderInv /\ NoSmear(r_queue, r_skipToKey, r_hole) /\ HandInv /\ PumpInv

LEMMA VideoInit == R!Init => VideoInv
<1> SUFFICES ASSUME R!Init PROVE VideoInv
  OBVIOUS
<1>1. ReorderInv
  <2>1. r_net = {} /\ r_rx = [started |-> FALSE, next |-> 1, high |-> 0, pending |-> {}, missing |-> <<>>]
    BY DEF R!Init, R!NewReorder
  <2>2. DOMAIN r_rx = {"started", "next", "high", "pending", "missing"} /\ r_rx.pending = {}
    BY <2>1
  <2> QED
    BY <2>1, <2>2, FS_EmptySet DEF ReorderInv
<1>2. NoSmear(r_queue, r_skipToKey, r_hole)
  <2>1. r_queue = <<>> /\ r_skipToKey = FALSE /\ r_hole = "none"
    BY DEF R!Init
  <2>2. <<>> \in Seq([n : {}, cut : R!Cuts]) /\ DOMAIN <<>> = {}
    OBVIOUS
  <2> QED
    BY <2>1, <2>2 DEF NoSmear, R!Cuts
<1>3. HandInv /\ PumpInv
  BY DEF R!Init, R!None, HandInv, Sound, PumpInv
<1> QED
  BY <1>1, <1>2, <1>3 DEF VideoInv

\* What is held together stays so while only the keyframes grow in number.
LEMMA QueueStays ==
    ASSUME VideoInv, UNCHANGED <<r_queue, r_skipToKey, r_hole, r_hand>>, r_keys \subseteq r_keys',
           UNCHANGED R!players
    PROVE  NoSmear(r_queue, r_skipToKey, r_hole)' /\ HandInv' /\ PumpInv'
BY DEF VideoInv, NoSmear, Sound, HandInv, PumpInv, R!players

\* The queue when what came before it is gone with a player.
LEMMA WithoutOneKeeps ==
    ASSUME NEW set, NEW q \in Seq([n : set, cut : R!Cuts]), NEW left, left = R!WithoutOneBefore(q)
    PROVE  /\ left \in Seq([n : set, cut : R!Cuts])
           /\ DOMAIN left = DOMAIN q /\ Len(left) = Len(q)
           /\ \A i \in DOMAIN q : left[i].n = q[i].n /\ left[i].cut \in {q[i].cut, "player"}
<1>1. DOMAIN left = DOMAIN q
  BY DEF R!WithoutOneBefore
<1>2. ASSUME NEW i \in DOMAIN q
      PROVE  /\ left[i] \in [n : set, cut : R!Cuts]
             /\ left[i].n = q[i].n /\ left[i].cut \in {q[i].cut, "player"}
  <2>1. q[i] \in [n : set, cut : R!Cuts]
    BY ElementOfSeq, LenProperties
  <2>2. R!After(q[i].cut) \in {q[i].cut, "player"} /\ R!After(q[i].cut) \in R!Cuts
    BY DEF R!After, R!Cuts
  <2>3. left[i] = IF i = 1 THEN [n |-> q[i].n, cut |-> R!After(q[i].cut)] ELSE q[i]
    BY DEF R!WithoutOneBefore
  <2> QED
    BY <2>1, <2>2, <2>3
<1>3. Len(q) \in Nat /\ DOMAIN q = 1 .. Len(q)
  BY LenProperties
<1>4. left \in Seq([n : set, cut : R!Cuts])
  <2>1. left = [i \in 1 .. Len(q) |-> left[i]]
    BY <1>3 DEF R!WithoutOneBefore
  <2>2. left \in [1 .. Len(q) -> [n : set, cut : R!Cuts]]
    BY <1>2, <1>3, <2>1
  <2> QED
    BY <1>3, <2>2, SeqDef
<1>5. Len(left) = Len(q)
  BY <1>1, <1>3, <1>4, LenProperties
<1> QED
  BY <1>1, <1>2, <1>4, <1>5

LEMMA ReleaseKeeps ==
    ASSUME NEW r, NEW m, NEW left, left = R!ReleaseUpTo(r, m), IsFiniteSet(r.pending),
           DOMAIN r = {"started", "next", "high", "pending", "missing"}
    PROVE  DOMAIN left = DOMAIN r /\ IsFiniteSet(left.pending)
<1>1. DOMAIN left = DOMAIN r /\ left.pending = {p \in r.pending : p >= m}
  BY DEF R!ReleaseUpTo
<1> QED
  BY <1>1, FS_Subset

LEMMA StoreKeeps ==
    ASSUME ReorderInv, NEW s, NEW r, r = R!Store(r_rx, s)
    PROVE  DOMAIN r = {"started", "next", "high", "pending", "missing"} /\ IsFiniteSet(r.pending)
<1> DEFINE at == IF ~r_rx.started \/ s > r_rx.next + r_MaxGap THEN R!StartAt(s) ELSE r_rx
<1>1. DOMAIN at = {"started", "next", "high", "pending", "missing"} /\ IsFiniteSet(at.pending)
  <2>1. CASE at = R!StartAt(s)
    <3>1. DOMAIN at = {"started", "next", "high", "pending", "missing"} /\ at.pending = {}
      BY <2>1 DEF R!StartAt
    <3> QED
      BY <3>1, FS_EmptySet
  <2>2. CASE at = r_rx
    BY <2>2 DEF ReorderInv
  <2> QED
    BY <2>1, <2>2
<1>2. DOMAIN r = DOMAIN at /\ r.pending = at.pending \cup {s}
  BY <1>1 DEF R!Store
<1> HIDE DEF at
<1>3. IsFiniteSet(at.pending \cup {s})
  BY <1>1, FS_AddElement
<1> QED
  BY <1>1, <1>2, <1>3

LEMMA ReorderStays ==
    ASSUME ReorderInv, \A s \in r_net' : s \in r_net, UNCHANGED r_rx
    PROVE  ReorderInv'
<1>1. IsFiniteSet(r_net')
  BY FS_Subset DEF ReorderInv
<1> QED
  BY <1>1 DEF ReorderInv

LEMMA VideoStep == VideoInv /\ [R!Next]_(R!vars) => VideoInv'
<1> SUFFICES ASSUME VideoInv, [R!Next]_(R!vars) PROVE VideoInv'
  OBVIOUS
<1> USE DEF R!tx, R!pacer, R!player
<1>1. CASE R!Capture
  <2>1. /\ UNCHANGED <<r_net, r_rx, r_queue, r_skipToKey, r_hole, r_hand, R!players>>
        /\ r_keys \subseteq r_keys'
    BY <1>1 DEF R!Capture
  <2> QED
    BY <2>1, ReorderStays, QueueStays DEF VideoInv
<1>2. CASE \/ R!OnWatch \/ R!EnqueueReplay \/ R!ExpireWatcher \/ R!OnNack \/ R!LoseNack
           \/ R!DropStale \/ R!LoseChunk \/ UNCHANGED R!vars
  <2>1. /\ UNCHANGED <<r_rx, r_queue, r_skipToKey, r_hole, r_hand, r_keys, R!players>>
        /\ \A s \in r_net' : s \in r_net
    BY <1>2 DEF R!OnWatch, R!EnqueueReplay, R!ExpireWatcher, R!OnNack, R!LoseNack,
                R!DropStale, R!LoseChunk, R!vars
  <2> QED
    BY <2>1, ReorderStays, QueueStays DEF VideoInv
<1>3. CASE R!SendRetx \/ R!SendLive
  <2>1. /\ UNCHANGED <<r_rx, r_queue, r_skipToKey, r_hole, r_hand, r_keys, R!players>>
        /\ \E s : r_net' = r_net \cup {s}
    BY <1>3 DEF R!SendRetx, R!SendLive
  <2>2. IsFiniteSet(r_net')
    BY <2>1, FS_AddElement DEF VideoInv, ReorderInv
  <2> QED
    BY <2>1, <2>2, QueueStays DEF VideoInv, ReorderInv
<1>4. CASE R!OnData
  <2>1. PICK s \in r_net :
          /\ r_net' = r_net \ {s}
          /\ IF R!TooLate(r_rx, s) \/ s \in r_rx.pending
             THEN UNCHANGED <<r_rx, R!player>>
             ELSE /\ r_rx' = R!ReleaseUpTo(R!Store(r_rx, s), R!Drain(R!Store(r_rx, s)))
                  /\ R!Dispatch(R!InOrder(R!Store(r_rx, s), R!Drain(R!Store(r_rx, s))))
          /\ r_keys' = r_keys
    BY <1>4 DEF R!OnData
  <2>2. IsFiniteSet(r_net')
    BY <2>1, FS_Subset DEF VideoInv, ReorderInv
  <2>3. CASE UNCHANGED <<r_rx, R!player>>
    <3>1. ReorderInv'
      BY <2>1, <2>3, ReorderStays DEF VideoInv
    <3>2. UNCHANGED <<r_queue, r_skipToKey, r_hole, r_hand, R!players>>
      BY <2>3
    <3> QED
      BY <2>1, <3>1, <3>2, QueueStays DEF VideoInv
  <2>4. ASSUME NEW r, NEW m, r = R!Store(r_rx, s), m = R!Drain(r),
               r_rx' = R!ReleaseUpTo(r, m), R!Dispatch(R!InOrder(r, m))
        PROVE  VideoInv'
    <3>1. /\ DOMAIN r = {"started", "next", "high", "pending", "missing"}
          /\ IsFiniteSet(r.pending)
      BY <2>4, StoreKeeps DEF VideoInv
    <3>2. ReorderInv'
      BY <2>2, <2>4, <3>1, ReleaseKeeps DEF ReorderInv
    <3>3. PICK n \in Nat : DOMAIN R!InOrder(r, m) = 1 .. n
      BY <3>1, InOrderIsSequence
    <3>4. UNCHANGED <<r_hand, R!players, r_gone, r_oldPump, r_reopens>>
      BY <2>4 DEF R!Dispatch, R!players
    <3>5. NoSmear(r_queue, r_skipToKey, r_hole)'
      BY <2>1, <2>4, <3>3, <3>4, DispatchKeeps DEF VideoInv
    <3>6. HandInv' /\ PumpInv'
      BY <2>1, <3>4 DEF VideoInv, HandInv, Sound, PumpInv
    <3> QED
      BY <3>2, <3>5, <3>6 DEF VideoInv
  <2> QED
    BY <2>1, <2>3, <2>4
<1>5. CASE R!Loop
  <2> DEFINE r == [r_rx EXCEPT !.missing = [s \in DOMAIN @ |-> R!Older(@[s])]]
             m == R!Skip(r)
             left == R!ReleaseUpTo(r, m)
  <2>1. DOMAIN r = DOMAIN r_rx /\ r.pending = r_rx.pending
    BY DEF VideoInv, ReorderInv
  <2>2. R!Dispatch(R!InOrder(r, m)) /\ UNCHANGED <<r_net, r_keys>>
    BY <1>5 DEF R!Loop
  <2>3. PICK due : r_rx' = R!Ask(left, due)
    BY <1>5 DEF R!Loop
  <2> HIDE DEF r, m
  <2>4. DOMAIN left = DOMAIN r /\ IsFiniteSet(left.pending)
    BY <2>1, ReleaseKeeps DEF VideoInv, ReorderInv
  <2> HIDE DEF left
  <2>5. ReorderInv'
    <3>1. DOMAIN r_rx' = DOMAIN left
      BY <2>3 DEF R!Ask
    <3>2. "pending" \in DOMAIN left
      BY <2>1, <2>4 DEF VideoInv, ReorderInv
    <3>3. r_rx'.pending = left.pending
      BY <2>3, <3>2 DEF R!Ask
    <3> QED
      BY <2>1, <2>2, <2>4, <3>1, <3>3 DEF VideoInv, ReorderInv
  <2>6. PICK n \in Nat : DOMAIN R!InOrder(r, m) = 1 .. n
    BY <2>1, InOrderIsSequence DEF VideoInv, ReorderInv
  <2>7. UNCHANGED <<r_hand, r_gone, r_oldPump, r_reopens>>
    BY <2>2 DEF R!Dispatch, R!players
  <2>8. NoSmear(r_queue, r_skipToKey, r_hole)'
    BY <2>2, <2>6, <2>7, DispatchKeeps DEF VideoInv
  <2>9. HandInv' /\ PumpInv'
    BY <2>2, <2>7 DEF VideoInv, HandInv, Sound, PumpInv
  <2> QED
    BY <2>5, <2>8, <2>9 DEF VideoInv
<1> USE DEF R!players
<1>6. CASE R!Take
  <2>1. /\ UNCHANGED <<r_net, r_rx, r_skipToKey, r_hole, r_keys, r_gone, r_oldPump, r_reopens>>
        /\ r_queue # <<>> /\ r_hand' = Head(r_queue) /\ r_queue' = Tail(r_queue)
    BY <1>6 DEF R!Take
  <2>2. PICK set : r_queue \in Seq([n : set, cut : R!Cuts])
    BY DEF VideoInv, NoSmear
  <2>3. /\ r_queue' \in Seq([n : set, cut : R!Cuts])
        /\ 1 \in DOMAIN r_queue /\ r_hand' = r_queue[1]
        /\ \A i \in DOMAIN r_queue' : i + 1 \in DOMAIN r_queue /\ r_queue'[i] = r_queue[i + 1]
    BY <2>1, <2>2, HeadTailProperties
  <2>4. ReorderInv'
    BY <2>1, ReorderStays DEF VideoInv
  <2>5. HandInv' /\ PumpInv'
    BY <2>1, <2>3 DEF VideoInv, NoSmear, HandInv, Sound, PumpInv
  <2>6. NoSmear(r_queue, r_skipToKey, r_hole)'
    BY <2>1, <2>3 DEF VideoInv, NoSmear, Sound
  <2> QED
    BY <2>4, <2>5, <2>6 DEF VideoInv
<1>7. CASE R!Write \/ R!Exit
  <2>1. UNCHANGED <<r_net, r_rx, r_queue, r_skipToKey, r_hole, r_keys>> /\ r_hand' = R!None
    BY <1>7 DEF R!Write, R!Exit
  <2>2. r_reopens \in Nat /\ r_reopens' \in {r_reopens, r_reopens + 1}
    BY <1>7 DEF R!Write, R!Exit, VideoInv, PumpInv
  <2>3. PumpInv'
    BY <1>7, <2>2 DEF R!Write, R!Exit, VideoInv, PumpInv
  <2>4. ReorderInv'
    BY <2>1, ReorderStays DEF VideoInv
  <2>5. HandInv'
    BY <2>1 DEF HandInv, Sound, R!None
  <2>6. \A i \in DOMAIN r_queue : Sound(r_queue[i].n, r_queue[i].cut)'
    <3>1. \A n, cut : Sound(n, cut) => Sound(n, cut)'
      BY <2>1, <2>2 DEF Sound
    <3> QED
      BY <2>1, <3>1 DEF VideoInv, NoSmear
  <2>7. NoSmear(r_queue, r_skipToKey, r_hole)'
    <3>1. \E set : r_queue' \in Seq([n : set, cut : R!Cuts])
      BY <2>1 DEF VideoInv, NoSmear
    <3>2. r_reopens' >= r_reopens
      BY <2>2
    <3>3. r_hole' = "player" => r_reopens' > 0
      BY <2>1, <2>2, <3>2 DEF VideoInv, NoSmear
    <3> QED
      BY <2>1, <2>6, <3>1, <3>3 DEF VideoInv, NoSmear
  <2> QED
    BY <2>3, <2>4, <2>5, <2>7 DEF VideoInv
<1>8. CASE R!CatchUp \/ R!OldPumpCatchesUp
  <2>1. /\ UNCHANGED <<r_net, r_rx, r_keys, r_reopens, r_gone>> /\ r_hand' \in {r_hand, R!None}
        /\ r_queue' = <<>> /\ r_skipToKey' = TRUE /\ r_hole' = "thrown"
        /\ r_oldPump = "ended" => r_oldPump' = "ended"
    BY <1>8 DEF R!CatchUp, R!OldPumpCatchesUp
  <2>2. ReorderInv'
    BY <2>1, ReorderStays DEF VideoInv
  <2>3. <<>> \in Seq([n : {}, cut : R!Cuts]) /\ DOMAIN <<>> = {}
    OBVIOUS
  <2>4. HandInv' /\ PumpInv'
    BY <2>1 DEF VideoInv, HandInv, Sound, PumpInv, R!None
  <2>5. NoSmear(r_queue, r_skipToKey, r_hole)'
    BY <2>1, <2>3 DEF NoSmear, R!Cuts
  <2> QED
    BY <2>2, <2>4, <2>5 DEF VideoInv
<1>9. ASSUME R!FallBack \/ R!Reopen PROVE VideoInv'
  <2>1. /\ UNCHANGED <<r_net, r_keys>> /\ r_hand' = R!None /\ r_skipToKey' = TRUE
        /\ r_queue' = R!WithoutOneBefore(r_queue) /\ r_hole' = "thrown"
        /\ r_rx' = [r_rx EXCEPT !.started = FALSE, !.pending = {}, !.missing = <<>>]
    BY <1>9 DEF R!FallBack, R!Reopen, R!Replaced
  <2>2. DOMAIN r_rx' = DOMAIN r_rx /\ r_rx'.pending = {}
    BY <2>1 DEF VideoInv, ReorderInv
  <2>3. ReorderInv'
    BY <2>1, <2>2, FS_EmptySet DEF VideoInv, ReorderInv
  <2>4. r_reopens' \in Nat /\ r_reopens' > 0
    BY <1>9 DEF R!FallBack, R!Reopen, VideoInv, PumpInv
  <2>5. HandInv' /\ PumpInv'
    BY <2>1, <2>4 DEF HandInv, Sound, PumpInv, R!None
  <2>6. PICK set : r_queue \in Seq([n : set, cut : R!Cuts])
    BY DEF VideoInv, NoSmear
  <2>7. /\ r_queue' \in Seq([n : set, cut : R!Cuts])
        /\ DOMAIN r_queue' = DOMAIN r_queue
        /\ \A i \in DOMAIN r_queue :
             r_queue'[i].n = r_queue[i].n /\ r_queue'[i].cut \in {r_queue[i].cut, "player"}
    <3>1. r_queue' = R!WithoutOneBefore(r_queue)
      BY <2>1
    <3> QED
      BY <2>6, <3>1, WithoutOneKeeps
  <2>8. \A i \in DOMAIN r_queue' : Sound(r_queue[i].n, r_queue[i].cut)
    BY <2>7 DEF VideoInv, NoSmear
  <2>9. \A i \in DOMAIN r_queue' : Sound(r_queue[i].n, r_queue[i].cut)'
    BY <2>1, <2>4, <2>7, <2>8 DEF Sound
  <2>10. NoSmear(r_queue, r_skipToKey, r_hole)'
    BY <2>1, <2>7, <2>9 DEF NoSmear, R!Cuts
  <2> QED
    BY <2>3, <2>5, <2>10 DEF VideoInv
<1>10. CASE R!OldPumpTakes
  <2>1. /\ UNCHANGED <<r_net, r_rx, r_keys, r_skipToKey, r_hand, r_gone, r_reopens>>
        /\ r_queue' = R!WithoutOneBefore(Tail(r_queue)) /\ r_queue # <<>>
        /\ r_hole' \in {r_hole, R!After(r_hole)}
        /\ r_oldPump = "waits"
    BY <1>10 DEF R!OldPumpTakes
  <2>2. r_reopens \in Nat /\ r_reopens > 0
    BY <2>1 DEF VideoInv, PumpInv
  <2>3. ReorderInv'
    BY <2>1, ReorderStays DEF VideoInv
  <2>4. HandInv' /\ PumpInv'
    BY <2>1, <2>2 DEF VideoInv, HandInv, Sound, PumpInv
  <2>5. PICK set : r_queue \in Seq([n : set, cut : R!Cuts])
    BY DEF VideoInv, NoSmear
  <2>6. /\ Tail(r_queue) \in Seq([n : set, cut : R!Cuts])
        /\ \A i \in DOMAIN Tail(r_queue) :
             i + 1 \in DOMAIN r_queue /\ Tail(r_queue)[i] = r_queue[i + 1]
    BY <2>1, <2>5, HeadTailProperties
  <2> DEFINE rest == Tail(r_queue)
  <2>7. \A i \in DOMAIN rest : Sound(rest[i].n, rest[i].cut)
    BY <2>6 DEF VideoInv, NoSmear
  <2>8. rest \in Seq([n : set, cut : R!Cuts]) /\ r_queue' = R!WithoutOneBefore(rest)
    BY <2>1, <2>6
  <2> HIDE DEF rest
  <2>9. /\ r_queue' \in Seq([n : set, cut : R!Cuts])
        /\ DOMAIN r_queue' = DOMAIN rest
        /\ \A i \in DOMAIN rest :
             r_queue'[i].n = rest[i].n /\ r_queue'[i].cut \in {rest[i].cut, "player"}
    BY <2>8, WithoutOneKeeps
  <2>10. \A i \in DOMAIN r_queue' : Sound(r_queue[i].n, r_queue[i].cut)'
    BY <2>1, <2>2, <2>7, <2>9 DEF Sound
  <2>11. /\ r_hole' \in R!Cuts
         /\ r_hole' = "thrown" => r_skipToKey'
    BY <2>1 DEF VideoInv, NoSmear, R!After, R!Cuts
  <2>12. NoSmear(r_queue, r_skipToKey, r_hole)'
    BY <2>1, <2>2, <2>9, <2>10, <2>11 DEF VideoInv, NoSmear
  <2> QED
    BY <2>3, <2>4, <2>12 DEF VideoInv
<1>11. CASE R!OldPumpWritesOrEnds
  <2>1. /\ UNCHANGED <<r_net, r_rx, r_queue, r_skipToKey, r_hole, r_hand, r_keys, r_gone, r_reopens>>
        /\ r_oldPump # "ended"
    BY <1>11 DEF R!OldPumpWritesOrEnds
  <2>2. ReorderInv'
    BY <2>1, ReorderStays DEF VideoInv
  <2>3. HandInv' /\ PumpInv'
    BY <2>1 DEF VideoInv, HandInv, Sound, PumpInv
  <2>4. NoSmear(r_queue, r_skipToKey, r_hole)'
    BY <2>1 DEF VideoInv, NoSmear, Sound
  <2> QED
    BY <2>2, <2>3, <2>4 DEF VideoInv
<1> QED
  BY <1>1, <1>2, <1>3, <1>4, <1>5, <1>6, <1>7, <1>8, <1>9, <1>10, <1>11 DEF R!Next

-----------------------------------------------------------------------------
(* The order in which video is released                                    *)

\* The last of the chunks released is one of them.
LEMMA LastIsDue ==
    ASSUME NEW r, NEW m, NEW n \in Nat, r.pending \subseteq 0 .. n, R!InOrder(r, m) # <<>>
    PROVE  R!Last(R!InOrder(r, m)) \in {p \in r.pending : p < m}
<1> DEFINE due == {p \in r.pending : p < m}
           size == R!Cardinality(due)
           rank(p) == R!Cardinality({o \in due : o < p})
           place(i) == CHOOSE p \in due : rank(p) = i - 1
<1>1. \A set : R!Cardinality(set) = Cardinality(set)
  BY DEF R!Cardinality, Cardinality
<1>2. R!InOrder(r, m) = [i \in 1 .. size |-> place(i)]
  BY DEF R!InOrder
<1>3. due \subseteq 0 .. n /\ due = {p \in r.pending : p < m}
  OBVIOUS
<1>4. IsFiniteSet(due)
  <2>1. IsFiniteSet(0 .. n)
    BY FS_Interval
  <2> QED
    BY <1>3, <2>1, FS_Subset
<1>5. size \in Nat
  BY <1>1, <1>4, FS_CardinalityType
<1>6. size # 0
  <2> SUFFICES ASSUME size = 0 PROVE FALSE
    OBVIOUS
  <2> HIDE DEF size, due, place
  <2>1. 1 .. size = {}
    OBVIOUS
  <2>2. [i \in 1 .. size |-> place(i)] = <<>>
    BY <2>1
  <2> QED
    BY <1>2, <2>2
<1>7. due # {}
  BY <1>1, <1>6, FS_EmptySet
<1> HIDE DEF due
<1>8. PICK k \in due : \A j \in due : j <= k
  BY <1>3, <1>7, Chunks!HasGreatest
<1>9. {o \in due : o < k} = due \ {k}
  <2>1. k \in Nat /\ \A o \in due : o \in Nat
    BY <1>3
  <2>2. \A o \in due : o < k <=> o # k
    BY <1>8, <2>1
  <2> QED
    BY <2>2
<1>10. rank(k) = size - 1
  BY <1>1, <1>4, <1>9, FS_RemoveElement
<1>11. place(size) \in due
  BY <1>10
<1>12. R!Last(R!InOrder(r, m)) = place(size)
  <2> DEFINE some == [i \in 1 .. size |-> place(i)]
  <2>1. DOMAIN some = 1 .. size /\ size \in 1 .. size
    BY <1>5, <1>6
  <2>2. Len(some) = size
    <3> HIDE DEF size, place
    <3> QED
      BY <1>5
  <2>3. some[size] = place(size)
    BY <2>1
  <2> HIDE DEF some
  <2> QED
    BY <1>2, <2>2, <2>3 DEF R!Last, some
<1> QED
  BY <1>3, <1>11, <1>12

\* The numbers of chunks
Given == 1 .. r_MaxSeq

LEMMA VideoAssumed ==
    /\ R!VideoPathAssumption
    /\ r_MaxSeq \in Nat /\ r_Slots \in Nat \ {0} /\ r_Cap \in Nat \ {0} /\ r_MaxGap \in Nat
    /\ r_MaxWait \in Nat /\ r_Retry \in Nat /\ r_MaxNacks \in Nat /\ r_MaxReopens \in Nat
BY MCMediaAssumption DEF MCMediaAssumption, R!VideoPathAssumption

ChunksInv ==
    /\ r_seq \in 0 .. r_MaxSeq /\ r_lastKey \in 0 .. r_seq
    /\ r_replay \in Seq(Given) /\ r_retx \in Seq(Given)
    /\ r_live \in Seq([n : Given, free : BOOLEAN])
    /\ r_net \subseteq Given /\ r_nacks \subseteq Given

Buffer(r) ==
    /\ DOMAIN r = {"started", "next", "high", "pending", "missing"}
    /\ r.started \in BOOLEAN
    /\ r.next \in Nat \ {0} /\ r.high \in 0 .. r_MaxSeq /\ r.next <= r.high + 1
    /\ r.pending \subseteq r.next .. r.high
    /\ DOMAIN r.missing \subseteq Given

OrderInv ==
    /\ ChunksInv
    /\ Buffer(r_rx)
    /\ r_released \in Nat
    /\ r_rx.started => r_released < r_rx.next
    /\ ~r_rx.started => r_released = 0

\* The numbers are released up to one that has not come, at the latest to the one after all.
LEMMA StopsInside ==
    ASSUME NEW r, Buffer(r), NEW m, m = R!Drain(r) \/ m = R!Skip(r)
    PROVE  m \in r.next .. r.high + 1
<1> DEFINE drained == {k \in r.next .. r.high + 1 :
                         k \notin r.pending /\ (R!Waiting(r, k) => TRUE)}
           skipped == {k \in r.next .. r.high + 1 :
                         k \notin r.pending /\ (R!Waiting(r, k) => r.missing[k].age < r_MaxWait)}
           end == r.high + 1
<1>1. r.next \in Nat /\ r.high \in Int /\ end \in r.next .. end /\ end \notin r.pending
  BY VideoAssumed DEF Buffer
<1>2. ~R!Waiting(r, end)
  <2> SUFFICES ASSUME NEW p \in r.pending, p > end PROVE FALSE
    BY DEF R!Waiting
  <2>1. p \in r.next .. r.high
    BY DEF Buffer
  <2> QED
    BY <1>1, <2>1
<1>3. end \in drained /\ end \in skipped
  BY <1>1, <1>2
<1>4. drained \subseteq Nat /\ skipped \subseteq Nat
  BY <1>1
<1>5. R!Drain(r) = R!Min(drained) /\ R!Skip(r) = R!Min(skipped)
  BY DEF R!Drain, R!Skip, R!Stop
<1>6. drained \subseteq r.next .. r.high + 1 /\ skipped \subseteq r.next .. r.high + 1
  OBVIOUS
<1> HIDE DEF drained, skipped
<1>7. R!Min(drained) \in drained /\ R!Min(skipped) \in skipped
  BY <1>3, <1>4, Chunks!Least, SameMin
<1> QED
  BY <1>5, <1>6, <1>7

LEMMA ReleaseKeepsBuffer ==
    ASSUME NEW r, Buffer(r), NEW m \in r.next .. r.high + 1, NEW left, left = R!ReleaseUpTo(r, m)
    PROVE  Buffer(left) /\ left.next = m /\ left.started = r.started
           /\ DOMAIN left.missing \subseteq DOMAIN r.missing
<1>1. /\ DOMAIN left = DOMAIN r /\ left.started = r.started /\ left.next = m
      /\ left.high = r.high
      /\ left.pending = {p \in r.pending : p >= m}
      /\ DOMAIN left.missing = {s \in DOMAIN r.missing : s >= m}
  BY DEF R!ReleaseUpTo, Buffer
<1>2. r.next \in Nat \ {0} /\ r.high \in Int /\ m \in Nat \ {0} /\ m <= r.high + 1
  BY VideoAssumed DEF Buffer
<1>3. left.pending \subseteq m .. r.high
  BY <1>1, <1>2 DEF Buffer
<1>4. DOMAIN left.missing \subseteq DOMAIN r.missing
  BY <1>1
<1> QED
  BY <1>1, <1>2, <1>3, <1>4 DEF Buffer

LEMMA StoreKeepsBuffer ==
    ASSUME R!VideoPathAssumption, Buffer(r_rx), NEW s \in Given, ~R!TooLate(r_rx, s),
           NEW r, r = R!Store(r_rx, s)
    PROVE  Buffer(r) /\ r.started /\ (r_rx.started => r_rx.next <= r.next)
<1> DEFINE anew == ~r_rx.started \/ s > r_rx.next + r_MaxGap
           at == IF anew THEN R!StartAt(s) ELSE r_rx
<1>1. r_MaxGap \in Nat
  BY DEF R!VideoPathAssumption
<1>2. Buffer(at) /\ at.started /\ at.next <= s /\ (r_rx.started => r_rx.next <= at.next)
  <2>1. CASE anew
    <3>1. /\ DOMAIN at = {"started", "next", "high", "pending", "missing"}
          /\ at.started = TRUE /\ at.next = s /\ at.high = s - 1 /\ at.pending = {}
          /\ at.missing = <<>>
      BY <2>1 DEF R!StartAt
    <3>2. r_rx.started => r_rx.next <= s
      BY <1>1, <2>1, VideoAssumed DEF Buffer, Given
    <3> HIDE DEF at
    <3>3. DOMAIN at.missing = {}
      BY <3>1
    <3>4. at.started \in BOOLEAN /\ at.started
      BY <3>1
    <3>5. at.next \in Nat \ {0} /\ at.high \in 0 .. r_MaxSeq /\ at.next <= at.high + 1
      BY <3>1, VideoAssumed DEF Given
    <3>6. at.pending \subseteq at.next .. at.high /\ DOMAIN at.missing \subseteq Given
      BY <3>1, <3>3
    <3>7. at.next <= s /\ (r_rx.started => r_rx.next <= at.next)
      BY <3>1, <3>2, VideoAssumed DEF Given
    <3> QED
      BY <3>1, <3>4, <3>5, <3>6, <3>7, Zenon DEF Buffer
  <2>2. CASE ~anew
    <3>1. at = r_rx /\ r_rx.started /\ ~(s < r_rx.next)
      BY <2>2 DEF R!TooLate
    <3>2. r_rx.next <= s
      BY <3>1, VideoAssumed DEF Buffer, Given
    <3>3. r_rx.next <= r_rx.next
      BY DEF Buffer
    <3> HIDE DEF at
    <3> QED
      BY <3>1, <3>2, <3>3, Zenon
  <2> QED
    BY <2>1, <2>2
<1>3. /\ DOMAIN r = DOMAIN at /\ r.started = at.started /\ r.next = at.next
      /\ r.high = (IF s > at.high THEN s ELSE at.high)
      /\ r.pending = at.pending \cup {s}
      /\ DOMAIN r.missing = (DOMAIN at.missing \ {s}) \cup ((at.high + 1) .. (s - 1))
  BY <1>2 DEF R!Store, Buffer
<1> HIDE DEF at
<1>4. /\ at.next \in Nat \ {0} /\ at.high \in 0 .. r_MaxSeq /\ at.next <= at.high + 1
      /\ at.next <= s /\ s \in 1 .. r_MaxSeq
  BY <1>2 DEF Buffer, Given
<1>5. r.high \in 0 .. r_MaxSeq /\ at.high <= r.high /\ s <= r.high
  BY <1>3, <1>4, VideoAssumed
<1>6. r.pending \subseteq r.next .. r.high
  <2>1. r.pending \subseteq at.next .. at.high \cup {s}
    BY <1>2, <1>3 DEF Buffer
  <2> QED
    BY <1>3, <1>4, <1>5, <2>1, VideoAssumed
<1>7. DOMAIN r.missing \subseteq Given
  <2>1. (at.high + 1) .. (s - 1) \subseteq Given
    BY <1>4, VideoAssumed DEF Given
  <2> QED
    BY <1>2, <1>3, <2>1 DEF Buffer
<1>8. Buffer(r)
  <2>1. r.next <= r.high + 1
    BY <1>3, <1>4, <1>5, VideoAssumed
  <2> QED
    BY <1>2, <1>3, <1>4, <1>5, <1>6, <1>7, <2>1 DEF Buffer
<1> QED
  BY <1>2, <1>3, <1>8

\* What is released comes between what was and what is waited for.
LEMMA ReleasedBetween ==
    ASSUME NEW r, Buffer(r), NEW m \in r.next .. r.high + 1, R!Dispatch(R!InOrder(r, m))
    PROVE  r_released' = r_released \/ (r_released' \in r.next .. r.high /\ r_released' < m)
<1>1. CASE R!InOrder(r, m) = <<>>
  BY <1>1 DEF R!Dispatch
<1>2. CASE R!InOrder(r, m) # <<>>
  <2>1. r_released' = R!Last(R!InOrder(r, m))
    BY <1>2 DEF R!Dispatch
  <2>2. r.high + 1 \in Nat /\ r.pending \subseteq 0 .. r.high + 1
    BY VideoAssumed DEF Buffer
  <2>3. R!Last(R!InOrder(r, m)) \in {p \in r.pending : p < m}
    BY <1>2, <2>2, LastIsDue
  <2> QED
    BY <2>1, <2>3 DEF Buffer
<1> QED
  BY <1>1, <1>2

LEMMA OrderInit == R!Init => OrderInv
<1> SUFFICES ASSUME R!Init PROVE OrderInv
  OBVIOUS
<1>1. ChunksInv
  <2>1. \A set : <<>> \in Seq(set)
    OBVIOUS
  <2> QED
    BY <2>1, VideoAssumed DEF R!Init, ChunksInv
<1>2. r_rx = [started |-> FALSE, next |-> 1, high |-> 0, pending |-> {}, missing |-> <<>>]
  BY DEF R!Init, R!NewReorder
<1>3. /\ DOMAIN r_rx = {"started", "next", "high", "pending", "missing"}
      /\ r_rx.started = FALSE /\ r_rx.next = 1 /\ r_rx.high = 0 /\ r_rx.pending = {}
      /\ DOMAIN r_rx.missing = {}
  BY <1>2
<1>4. Buffer(r_rx) /\ ~r_rx.started
  <2>1. r_rx.started \in BOOLEAN /\ ~r_rx.started
    BY <1>3
  <2>2. r_rx.next \in Nat \ {0} /\ r_rx.high \in 0 .. r_MaxSeq /\ r_rx.next <= r_rx.high + 1
    BY <1>3, VideoAssumed
  <2>3. r_rx.pending \subseteq r_rx.next .. r_rx.high /\ DOMAIN r_rx.missing \subseteq Given
    BY <1>3
  <2> QED
    BY <1>3, <2>1, <2>2, <2>3, Zenon DEF Buffer
<1> QED
  BY <1>1, <1>4 DEF R!Init, OrderInv

\* A step of the sharer or the network leaves what the viewer holds alone.
LEMMA ChunksStep ==
    ASSUME ChunksInv,
           \/ R!Capture \/ R!OnWatch \/ R!EnqueueReplay \/ R!ExpireWatcher \/ R!OnNack
           \/ R!LoseNack \/ R!SendRetx \/ R!SendLive \/ R!DropStale \/ R!LoseChunk
           \/ R!Take \/ R!Write \/ R!CatchUp \/ R!Exit
           \/ R!OldPumpTakes \/ R!OldPumpCatchesUp \/ R!OldPumpWritesOrEnds
           \/ UNCHANGED R!vars
    PROVE  ChunksInv' /\ UNCHANGED <<r_rx, r_released>>
<1> USE DEF R!tx, R!pacer, R!player
<1>1. CASE R!Capture
  <2>1. /\ UNCHANGED <<r_replay, r_retx, r_net, r_nacks, r_rx, r_released>>
        /\ r_seq < r_MaxSeq /\ r_seq' = r_seq + 1 /\ r_lastKey' \in {r_lastKey, r_seq + 1}
        /\ r_live' \in {r_live, Append(r_live, [n |-> r_seq + 1, free |-> FALSE])}
    BY <1>1 DEF R!Capture
  <2>2. [n |-> r_seq + 1, free |-> FALSE] \in [n : Given, free : BOOLEAN]
    <3>1. r_seq + 1 \in Given
      BY <2>1, VideoAssumed DEF ChunksInv, Given
    <3> QED
      BY <3>1
  <2> DEFINE kinds == [n : Given, free : BOOLEAN]
             item == [n |-> r_seq + 1, free |-> FALSE]
  <2>3. r_live \in Seq(kinds) /\ item \in kinds
    BY <2>2 DEF ChunksInv
  <2>4. r_live' \in {r_live, Append(r_live, item)}
    BY <2>1
  <2> HIDE DEF kinds, item
  <2>5. Append(r_live, item) \in Seq(kinds)
    BY <2>3, AppendProperties
  <2>6. r_live' \in Seq([n : Given, free : BOOLEAN])
    BY <2>3, <2>4, <2>5 DEF kinds
  <2>7. r_seq' \in 0 .. r_MaxSeq /\ r_lastKey' \in 0 .. r_seq'
    BY <2>1, VideoAssumed DEF ChunksInv
  <2> QED
    BY <2>1, <2>6, <2>7 DEF ChunksInv
<1>2. CASE R!OnWatch
  <2>1. /\ UNCHANGED <<r_seq, r_lastKey, r_retx, r_live, r_net, r_nacks, r_rx, r_released>>
        /\ r_replay' = R!SinceKeyframe
    BY <1>2 DEF R!OnWatch
  <2> DEFINE count == r_seq - r_lastKey + 1
             number(i) == r_lastKey + i - 1
  <2>2. r_lastKey # 0 => count \in Nat /\ \A i \in 1 .. count : number(i) \in Given
    BY VideoAssumed DEF ChunksInv, Given
  <2>3. \/ R!SinceKeyframe = <<>>
        \/ r_lastKey # 0 /\ R!SinceKeyframe = [i \in 1 .. count |-> number(i)]
    BY DEF R!SinceKeyframe
  <2> HIDE DEF count, number
  <2>4. <<>> \in Seq(Given) /\ (r_lastKey # 0 => [i \in 1 .. count |-> number(i)] \in Seq(Given))
    BY <2>2, IsASeq
  <2>5. r_replay' \in Seq(Given)
    BY <2>1, <2>3, <2>4
  <2> QED
    BY <2>1, <2>5 DEF ChunksInv
<1>3. CASE R!EnqueueReplay
  <2> DEFINE more == [i \in DOMAIN r_replay |-> [n |-> r_replay[i], free |-> TRUE]]
  <2>1. /\ UNCHANGED <<r_seq, r_lastKey, r_retx, r_net, r_nacks, r_rx, r_released>>
        /\ r_live' = r_live \o more /\ r_replay' = <<>>
    BY <1>3 DEF R!EnqueueReplay
  <2>2. DOMAIN r_replay = 1 .. Len(r_replay) /\ Len(r_replay) \in Nat
    BY LenProperties DEF ChunksInv
  <2>3. \A i \in 1 .. Len(r_replay) : [n |-> r_replay[i], free |-> TRUE] \in [n : Given, free : BOOLEAN]
    BY <2>2 DEF ChunksInv
  <2>4. more \in Seq([n : Given, free : BOOLEAN])
    BY <2>2, <2>3, IsASeq
  <2> HIDE DEF more
  <2>5. r_live' \in Seq([n : Given, free : BOOLEAN])
    BY <2>1, <2>4, ConcatProperties DEF ChunksInv
  <2>6. r_replay' \in Seq(Given)
    BY <2>1
  <2> QED
    BY <2>1, <2>5, <2>6 DEF ChunksInv
<1>4. CASE R!OnNack
  <2>1. PICK s \in r_nacks :
          /\ UNCHANGED <<r_seq, r_lastKey, r_replay, r_live, r_net, r_rx, r_released>>
          /\ r_nacks' = r_nacks \ {s} /\ r_retx' \in {r_retx, Append(r_retx, s)}
    BY <1>4 DEF R!OnNack
  <2>2. s \in Given
    BY DEF ChunksInv
  <2>3. Append(r_retx, s) \in Seq(Given)
    BY <2>2, AppendProperties DEF ChunksInv
  <2>4. r_retx' \in Seq(Given)
    BY <2>1, <2>3 DEF ChunksInv
  <2>5. r_nacks' \subseteq Given
    BY <2>1 DEF ChunksInv
  <2> QED
    BY <2>1, <2>4, <2>5 DEF ChunksInv
<1>5. CASE R!SendRetx
  <2>1. /\ UNCHANGED <<r_seq, r_lastKey, r_replay, r_live, r_nacks, r_rx, r_released>>
        /\ r_retx # <<>> /\ r_net' = r_net \cup {Head(r_retx)} /\ r_retx' = Tail(r_retx)
    BY <1>5 DEF R!SendRetx
  <2>2. Head(r_retx) \in Given /\ r_retx' \in Seq(Given)
    BY <2>1, HeadTailProperties DEF ChunksInv
  <2>3. r_net' \subseteq Given
    BY <2>1, <2>2 DEF ChunksInv
  <2> QED
    BY <2>1, <2>2, <2>3 DEF ChunksInv
<1>6. CASE R!SendLive
  <2>1. /\ UNCHANGED <<r_seq, r_lastKey, r_replay, r_retx, r_nacks, r_rx, r_released>>
        /\ r_live # <<>> /\ r_net' = r_net \cup {Head(r_live).n} /\ r_live' = Tail(r_live)
    BY <1>6 DEF R!SendLive
  <2>2. Head(r_live) \in [n : Given, free : BOOLEAN] /\ r_live' \in Seq([n : Given, free : BOOLEAN])
    BY <2>1, HeadTailProperties DEF ChunksInv
  <2>3. Head(r_live).n \in Given
    BY <2>2
  <2>4. r_net' \subseteq Given
    BY <2>1, <2>3 DEF ChunksInv
  <2> QED
    BY <2>1, <2>2, <2>4 DEF ChunksInv
<1>7. CASE R!DropStale
  <2>1. /\ UNCHANGED <<r_seq, r_lastKey, r_replay, r_net, r_nacks, r_rx, r_released>>
        /\ \/ r_live # <<>> /\ r_live' = Tail(r_live) /\ r_retx' = r_retx
           \/ r_retx # <<>> /\ r_retx' = Tail(r_retx) /\ r_live' = r_live
    BY <1>7 DEF R!DropStale
  <2>2. r_live' \in Seq([n : Given, free : BOOLEAN]) /\ r_retx' \in Seq(Given)
    BY <2>1, HeadTailProperties DEF ChunksInv
  <2> QED
    BY <2>1, <2>2 DEF ChunksInv
<1>8. CASE R!LoseNack \/ R!LoseChunk
  <2>1. /\ UNCHANGED <<r_seq, r_lastKey, r_replay, r_live, r_retx, r_rx, r_released>>
        /\ r_net' \subseteq r_net /\ r_nacks' \subseteq r_nacks
    BY <1>8 DEF R!LoseNack, R!LoseChunk
  <2>2. r_net' \subseteq Given /\ r_nacks' \subseteq Given
    BY <2>1 DEF ChunksInv
  <2> QED
    BY <2>1, <2>2 DEF ChunksInv
<1>9. CASE \/ R!ExpireWatcher \/ R!Take \/ R!Write \/ R!CatchUp \/ R!Exit
           \/ R!OldPumpTakes \/ R!OldPumpCatchesUp \/ R!OldPumpWritesOrEnds
           \/ UNCHANGED R!vars
  <2>1. UNCHANGED <<r_seq, r_lastKey, r_replay, r_live, r_retx, r_net, r_nacks, r_rx, r_released>>
    BY <1>9 DEF R!ExpireWatcher, R!Take, R!Write, R!CatchUp, R!Exit, R!OldPumpTakes,
                R!OldPumpCatchesUp, R!OldPumpWritesOrEnds, R!vars
  <2> QED
    BY <2>1 DEF ChunksInv
<1> QED
  BY <1>1, <1>2, <1>3, <1>4, <1>5, <1>6, <1>7, <1>8, <1>9

\* No chunk is released after a later one, until the player is opened anew.
Later == r_released' # r_released => r_released' > r_released \/ r_released' = 0

\* Chunks are released from a buffer that goes on from the one there was.
LEMMA OrderKept ==
    ASSUME OrderInv, NEW r, Buffer(r), r_rx.started => r_rx.next <= r.next,
           NEW m \in r.next .. r.high + 1, R!Dispatch(R!InOrder(r, m))
    PROVE  r_released' \in Nat /\ r_released' < m /\ Later
<1>1. r_released' = r_released \/ (r_released' \in r.next .. r.high /\ r_released' < m)
  BY ReleasedBetween
<1>2. r.next \in Nat /\ r.next > 0 /\ r.high \in Int /\ m \in Nat /\ r.next <= m
  BY VideoAssumed DEF Buffer
<1>3. r_released \in Nat /\ r_released < r.next
  <2>1. CASE r_rx.started
    <3>1. r_released \in Nat /\ r_released < r_rx.next /\ r_rx.next <= r.next /\ r_rx.next \in Nat
      BY <2>1 DEF OrderInv, Buffer
    <3> QED
      BY <1>2, <3>1
  <2>2. CASE ~r_rx.started
    BY <1>2, <2>2 DEF OrderInv
  <2> QED
    BY <2>1, <2>2
<1> QED
  BY <1>1, <1>2, <1>3 DEF Later

LEMMA OrderStep == R!VideoPathAssumption /\ OrderInv /\ [R!Next]_(R!vars) => OrderInv' /\ Later
<1> SUFFICES ASSUME R!VideoPathAssumption, OrderInv, [R!Next]_(R!vars) PROVE OrderInv' /\ Later
  OBVIOUS
<1> USE DEF R!tx, R!pacer, R!player
<1>1. CASE \/ R!Capture \/ R!OnWatch \/ R!EnqueueReplay \/ R!ExpireWatcher \/ R!OnNack
           \/ R!LoseNack \/ R!SendRetx \/ R!SendLive \/ R!DropStale \/ R!LoseChunk
           \/ R!Take \/ R!Write \/ R!CatchUp \/ R!Exit
           \/ R!OldPumpTakes \/ R!OldPumpCatchesUp \/ R!OldPumpWritesOrEnds
           \/ UNCHANGED R!vars
  <2>1. ChunksInv' /\ UNCHANGED <<r_rx, r_released>>
    BY <1>1, ChunksStep DEF OrderInv
  <2> QED
    BY <2>1 DEF OrderInv, Buffer, Later
<1>2. CASE R!OnData
  <2>1. PICK s \in r_net :
          /\ r_net' = r_net \ {s}
          /\ IF R!TooLate(r_rx, s) \/ s \in r_rx.pending
             THEN UNCHANGED <<r_rx, R!player>>
             ELSE /\ r_rx' = R!ReleaseUpTo(R!Store(r_rx, s), R!Drain(R!Store(r_rx, s)))
                  /\ R!Dispatch(R!InOrder(R!Store(r_rx, s), R!Drain(R!Store(r_rx, s))))
          /\ UNCHANGED <<r_seq, r_lastKey, r_replay, r_live, r_retx, r_nacks>>
    BY <1>2 DEF R!OnData
  <2>2. ChunksInv' /\ s \in Given
    <3>1. r_net' \subseteq Given /\ s \in Given
      BY <2>1 DEF OrderInv, ChunksInv
    <3> QED
      BY <2>1, <3>1 DEF OrderInv, ChunksInv
  <2>3. CASE UNCHANGED <<r_rx, R!player>>
    <3>1. UNCHANGED <<r_rx, r_released>>
      BY <2>3
    <3> QED
      BY <2>2, <3>1 DEF OrderInv, Buffer, Later
  <2>4. ASSUME NEW r, NEW m, r = R!Store(r_rx, s), m = R!Drain(r), ~R!TooLate(r_rx, s),
               r_rx' = R!ReleaseUpTo(r, m), R!Dispatch(R!InOrder(r, m))
        PROVE  OrderInv' /\ Later
    <3>1. Buffer(r) /\ r.started /\ (r_rx.started => r_rx.next <= r.next)
      BY <2>2, <2>4, StoreKeepsBuffer DEF OrderInv
    <3>2. m \in r.next .. r.high + 1
      BY <2>4, <3>1, StopsInside
    <3>3. r_released' \in Nat /\ r_released' < m /\ Later
      BY <2>4, <3>1, <3>2, OrderKept
    <3> DEFINE left == r_rx'
    <3>4. Buffer(left) /\ left.next = m /\ left.started = r.started
      <4> HIDE DEF left
      <4>1. left = R!ReleaseUpTo(r, m)
        BY <2>4 DEF left
      <4> QED
        BY <3>1, <3>2, <4>1, ReleaseKeepsBuffer
    <3>5. Buffer(r_rx)' /\ r_rx'.started
      BY <3>1, <3>4 DEF Buffer
    <3> QED
      BY <2>2, <3>3, <3>4, <3>5 DEF OrderInv
  <2> QED
    BY <2>1, <2>3, <2>4
<1>3. CASE R!Loop
  <2> DEFINE r == [r_rx EXCEPT !.missing = [s \in DOMAIN @ |-> R!Older(@[s])]]
             m == R!Skip(r)
             left == R!ReleaseUpTo(r, m)
             due == {s \in DOMAIN left.missing : R!Due(left.missing[s])}
  <2>1. Buffer(r) /\ r.next = r_rx.next /\ r.started = r_rx.started
    <3>1. /\ DOMAIN r = DOMAIN r_rx /\ r.started = r_rx.started /\ r.next = r_rx.next
          /\ r.high = r_rx.high /\ r.pending = r_rx.pending
          /\ DOMAIN r.missing = DOMAIN r_rx.missing
      BY DEF OrderInv, Buffer
    <3> HIDE DEF r
    <3> QED
      BY <3>1 DEF OrderInv, Buffer
  <2>2. /\ R!Dispatch(R!InOrder(r, m)) /\ r_rx.started /\ r_nacks' = r_nacks \cup due
        /\ UNCHANGED <<r_seq, r_lastKey, r_replay, r_live, r_retx, r_net>>
    BY <1>3 DEF R!Loop
  <2>3. r_rx' = R!Ask(left, due)
    BY <1>3 DEF R!Loop
  <2> HIDE DEF r
  <2>4. m \in r.next .. r.high + 1
    BY <2>1, StopsInside
  <2> HIDE DEF m
  <2>5. Buffer(left) /\ left.next = m /\ left.started = r.started
    BY <2>1, <2>4, ReleaseKeepsBuffer
  <2>6. r_released' \in Nat /\ r_released' < m /\ Later
    <3>1. r_rx.started => r_rx.next <= r.next
      BY <2>1 DEF Buffer
    <3> QED
      BY <2>1, <2>2, <2>4, <3>1, OrderKept
  <2> HIDE DEF left
  <2>7. due \subseteq Given
    BY <2>5 DEF Buffer
  <2> HIDE DEF due
  <2>8. /\ DOMAIN r_rx' = DOMAIN left /\ r_rx'.started = left.started /\ r_rx'.next = left.next
        /\ r_rx'.high = left.high /\ r_rx'.pending = left.pending
        /\ DOMAIN r_rx'.missing = DOMAIN left.missing
    BY <2>3, <2>5 DEF R!Ask, Buffer
  <2>9. Buffer(r_rx)' /\ r_rx'.started
    BY <2>1, <2>2, <2>5, <2>8 DEF Buffer
  <2>10. ChunksInv'
    <3>1. r_nacks' \subseteq Given
      BY <2>2, <2>7 DEF OrderInv, ChunksInv
    <3> QED
      BY <2>2, <3>1 DEF OrderInv, ChunksInv
  <2> QED
    BY <2>5, <2>6, <2>8, <2>9, <2>10 DEF OrderInv
<1>4. CASE R!FallBack \/ R!Reopen
  <2>1. /\ UNCHANGED <<r_seq, r_lastKey, r_replay, r_live, r_retx, r_net, r_nacks>>
        /\ r_released' = 0
        /\ r_rx' = [r_rx EXCEPT !.started = FALSE, !.pending = {}, !.missing = <<>>]
    BY <1>4 DEF R!FallBack, R!Reopen, R!Replaced
  <2>2. /\ DOMAIN r_rx' = DOMAIN r_rx /\ r_rx'.started = FALSE /\ r_rx'.next = r_rx.next
        /\ r_rx'.high = r_rx.high /\ r_rx'.pending = {} /\ DOMAIN r_rx'.missing = {}
    BY <2>1 DEF OrderInv, Buffer
  <2>3. r_rx'.started \in BOOLEAN /\ ~r_rx'.started
    BY <2>2
  <2>4. r_rx'.pending \subseteq r_rx'.next .. r_rx'.high /\ DOMAIN r_rx'.missing \subseteq Given
    BY <2>2
  <2>5. Buffer(r_rx)'
    BY <2>2, <2>3, <2>4 DEF OrderInv, Buffer
  <2>6. ChunksInv'
    BY <2>1 DEF OrderInv, ChunksInv
  <2> QED
    BY <2>1, <2>3, <2>5, <2>6 DEF OrderInv, Later
<1> QED
  BY <1>1, <1>2, <1>3, <1>4 DEF R!Next

-----------------------------------------------------------------------------
(* The property of the run                                                 *)

PlaybackInv == VoiceInv /\ VideoInv /\ OrderInv

LEMMA PlaybackInit == Init => PlaybackInv
<1> SUFFICES ASSUME Init PROVE PlaybackInv
  OBVIOUS
<1>1. V!Init /\ R!Init
  BY DEF Init
<1> QED
  BY <1>1, MCMediaAssumption, VoiceInit, VideoInit, OrderInit DEF PlaybackInv, MCMediaAssumption

LEMMA PlaybackStep == PlaybackInv /\ [Next]_all => PlaybackInv' /\ Later
<1> SUFFICES ASSUME PlaybackInv, [Next]_all PROVE PlaybackInv' /\ Later
  OBVIOUS
<1>1. [V!Next]_(V!vars)
  <2>1. V!Next \/ UNCHANGED vVars
    BY DEF Next, Others, all
  <2> QED
    BY <2>1 DEF vVars, V!vars, V!senderVars, V!dedupVars, V!jitterVars
<1>2. [R!Next]_(R!vars)
  <2>1. R!Next \/ UNCHANGED rVars
    BY DEF Next, Others, all
  <2> QED
    BY <2>1 DEF rVars, R!vars, R!tx, R!pacer, R!player, R!players
<1> QED
  BY <1>1, <1>2, MCMediaAssumption, VoiceStep, VideoStep, OrderStep
  DEF PlaybackInv, MCMediaAssumption

\* However the copies of the two paths are lost, delayed and come together, voice is sent in
\* the order in which it was spoken, no packet is decoded twice, and a buffer that plays holds
\* nothing whose turn has passed (SendAudio, ShouldProcess, Push and Pull).  However the chunks of
\* a share are lost, repeated, skipped and asked for again, they leave the reorder buffer in the
\* order of their numbers (Reorder.Push and Poll), and after one that was thrown away the player
\* gets nothing before the next keyframe (dispatchLocked, catchUpLocked), except that a player
\* that takes the place of another (replacePlayer) is fed first what was queued for that one.
THEOREM PlaybackStaysRecorded == Spec => PlayedAsRecorded
<1>1. PlaybackInv => (part = "voice" => V!PlayedInOrder)
  BY VoiceIsPlayed DEF PlaybackInv
<1>2. PlaybackInv => (part = "video" => R!NoHoleButAtKeyframe)
  BY DEF PlaybackInv, VideoInv, NoSmear, Sound, HandInv, R!NoHoleButAtKeyframe, R!Range
<1>3. Later => [r_released' # r_released => r_released' > r_released \/ r_released' = 0]_(R!vars)
  BY DEF Later
<1> QED
  BY <1>1, <1>2, <1>3, PlaybackInit, PlaybackStep, PTL
  DEF Spec, PlayedAsRecorded, R!ReleasedInOrder

-----------------------------------------------------------------------------
(* Types: the source of a capture and the switches                         *)

\* What a look at the source may find and what was sent of it
SourceTypes ==
    /\ m_source \in {"mic", "monitor"} /\ m_microphone \in BOOLEAN
    /\ m_onMonitor \in BOOLEAN /\ m_seen \in BOOLEAN
    /\ m_looking \in {"no", "mic", "monitor", "stale", "move"}
    /\ m_sent \in SUBSET ({"mic", "monitor"} \X BOOLEAN)
    /\ m_moves \in 0 .. m_MaxMoves

LEMMA SourceTyped == SourceTypes => M!TypeOK
  BY DEF SourceTypes, M!TypeOK

LEMMA SourceTypesInit == Init => SourceTypes
<1> SUFFICES ASSUME M!Init PROVE SourceTypes
  BY DEF Init
<1>1. 0 \in 0 .. m_MaxMoves
  BY MCMediaAssumption DEF M!CaptureSourceAssumption
<1> QED
  BY <1>1 DEF M!Init, SourceTypes

LEMMA SourceTypesStep == SourceTypes /\ [Next]_all => SourceTypes'
<1> SUFFICES ASSUME SourceTypes, M!Next \/ UNCHANGED mVars PROVE SourceTypes'
  BY DEF Next, Others, all
<1> USE DEF SourceTypes
<1>1. CASE M!ServerMoves
  <2>1. m_moves' \in 0 .. m_MaxMoves
    BY <1>1, MCMediaAssumption DEF M!ServerMoves, M!CaptureSourceAssumption
  <2>2. m_microphone' \in BOOLEAN /\ m_seen' \in BOOLEAN
    BY <1>1, Zenon DEF M!ServerMoves, M!Outdated
  <2>3. /\ m_source' \in {"mic", "monitor"} /\ m_looking' \in {"no", "mic", "monitor", "stale", "move"}
        /\ UNCHANGED <<m_onMonitor, m_sent>>
    BY <1>1 DEF M!ServerMoves, M!Outdated
  <2> QED
    BY <2>1, <2>2, <2>3
<1>2. CASE M!Write
  <2>1. <<m_source, m_seen>> \in {"mic", "monitor"} \X BOOLEAN
    BY Zenon
  <2> QED
    BY <1>2, <2>1 DEF M!Write
<1>3. CASE M!Look
  BY <1>3 DEF M!Look
<1>4. CASE M!Judge
  <2>1. m_onMonitor' \in BOOLEAN
    BY <1>4, Zenon DEF M!Judge
  <2>2. m_seen' \in BOOLEAN
    <3>1. CASE m_looking \in {"mic", "monitor"}
      BY <1>4, <3>1 DEF M!Judge
    <3>2. CASE m_looking \notin {"mic", "monitor"}
      BY <1>4, <3>2 DEF M!Judge
    <3> QED
      BY <3>1, <3>2
  <2> QED
    BY <1>4, <2>1, <2>2 DEF M!Judge
<1>5. CASE M!MoveBack
  BY <1>5 DEF M!MoveBack
<1>6. CASE UNCHANGED mVars
  BY <1>6 DEF mVars
<1> QED
  BY <1>1, <1>2, <1>3, <1>4, <1>5, <1>6 DEF M!Next, M!Watch

\* A frame the capture thread holds
Frame == [sound : BOOLEAN, muted : BOOLEAN, testing : BOOLEAN, taken : BOOLEAN]

SwitchTypes ==
    /\ c_screen \in {"lobby", "room"}
    /\ c_Muted \in BOOLEAN /\ c_Deafened \in BOOLEAN /\ c_InTestMode \in BOOLEAN
    /\ c_PrevMuted \in BOOLEAN /\ c_PrevDeafened \in BOOLEAN /\ c_Loopback \in BOOLEAN
    /\ c_showTestModal \in BOOLEAN /\ c_meant \in BOOLEAN
    /\ c_frame \in Frame
    /\ c_heard \in SUBSET [muted : BOOLEAN, testing : BOOLEAN]
    /\ c_told \in SUBSET (BOOLEAN \X BOOLEAN) /\ c_shown \in BOOLEAN \X BOOLEAN
    /\ c_acts \in 0 .. c_MaxActs

LEMMA SwitchTyped == SwitchTypes => C!TypeOK
  BY DEF SwitchTypes, C!TypeOK, Frame

LEMMA SwitchTypesInit == Init => SwitchTypes
<1> SUFFICES ASSUME C!Init PROVE SwitchTypes
  BY DEF Init
<1>1. 0 \in 0 .. c_MaxActs
  BY MCMediaAssumption DEF C!VoiceControlsAssumption
<1> QED
  BY <1>1 DEF C!Init, SwitchTypes, C!Idle, Frame

LEMMA OneMoreAct == ASSUME SwitchTypes, C!Acts PROVE c_acts' \in 0 .. c_MaxActs
  BY MCMediaAssumption DEF SwitchTypes, C!Acts, C!VoiceControlsAssumption

LEMMA SwitchTypesStep == SwitchTypes /\ [Next]_all => SwitchTypes'
<1> SUFFICES ASSUME SwitchTypes, C!Next \/ UNCHANGED cVars PROVE SwitchTypes'
  BY DEF Next, Others, all
<1> USE DEF SwitchTypes
<1>1. CASE C!ToggleMute
  <2>1. c_Muted' \in BOOLEAN /\ c_meant' \in BOOLEAN
    BY <1>1, Zenon DEF C!ToggleMute
  <2>2. <<c_Muted', c_Deafened>> \in BOOLEAN \X BOOLEAN
    BY <2>1, Zenon
  <2> QED
    BY <1>1, <2>1, <2>2, OneMoreAct DEF C!ToggleMute, C!Tell
<1>2. CASE C!ToggleDeafen
  <2>1. c_Muted' \in BOOLEAN /\ c_Deafened' \in BOOLEAN /\ c_meant' \in BOOLEAN
    <3>1. c_Deafened' \in BOOLEAN
      BY <1>2, Zenon DEF C!ToggleDeafen
    <3>2. c_Muted' \in BOOLEAN
      BY <1>2, Zenon DEF C!ToggleDeafen
    <3> QED
      BY <1>2, <3>1, <3>2 DEF C!ToggleDeafen
  <2>2. <<c_Muted', c_Deafened'>> \in BOOLEAN \X BOOLEAN
    BY <2>1, Zenon
  <2> QED
    BY <1>2, <2>1, <2>2, OneMoreAct DEF C!ToggleDeafen, C!Tell
<1>3. CASE C!OpenTest
  BY <1>3, OneMoreAct DEF C!OpenTest
<1>4. CASE C!CloseTest
  BY <1>4 DEF C!CloseTest, C!closeTestModal
<1>5. CASE C!JoinRoom
  <2>1. <<c_Muted, c_Deafened>> \in BOOLEAN \X BOOLEAN
    BY Zenon
  <2> QED
    BY <1>5, <2>1, OneMoreAct DEF C!JoinRoom, C!controls
<1>6. CASE C!LeaveRoom
  BY <1>6, OneMoreAct DEF C!LeaveRoom, C!closeTestModal
<1>7. CASE C!CaptureFrame
  <2>1. PICK voice \in BOOLEAN :
          c_frame' = [sound |-> voice /\ ~c_Muted, muted |-> c_Muted, testing |-> c_InTestMode, taken |-> TRUE]
    BY <1>7 DEF C!CaptureFrame
  <2> DEFINE sound == voice /\ ~c_Muted
  <2>2. sound \in BOOLEAN
    BY Zenon
  <2>3. c_frame' = [sound |-> sound, muted |-> c_Muted, testing |-> c_InTestMode, taken |-> TRUE]
    BY <2>1
  <2> HIDE DEF sound
  <2>4. c_frame' \in Frame
    BY <2>2, <2>3 DEF Frame
  <2> QED
    BY <1>7, <2>4 DEF C!CaptureFrame, C!controls
<1>8. CASE C!SendFrame
  <2>1. c_frame' \in Frame
    BY <1>8 DEF C!SendFrame, C!Idle, Frame
  <2>2. [muted |-> c_frame.muted, testing |-> c_frame.testing] \in [muted : BOOLEAN, testing : BOOLEAN]
    BY DEF Frame
  <2> QED
    BY <1>8, <2>1, <2>2 DEF C!SendFrame, C!controls
<1>9. CASE C!Ping \/ C!Chat
  <2>1. <<c_Muted, c_Deafened>> \in BOOLEAN \X BOOLEAN /\ <<FALSE, FALSE>> \in BOOLEAN \X BOOLEAN
    BY Zenon
  <2> QED
    BY <1>9, <2>1, OneMoreAct DEF C!Ping, C!Chat, C!controls
<1>10. CASE C!Refresh
  BY <1>10 DEF C!Refresh, C!controls
<1>11. CASE UNCHANGED cVars
  BY <1>11 DEF cVars
<1> QED
  BY <1>1, <1>2, <1>3, <1>4, <1>5, <1>6, <1>7, <1>8, <1>9, <1>10, <1>11 DEF C!Next

-----------------------------------------------------------------------------
(* Types: the key of push to talk                                          *)

\* The watchers there were, numbered, and what is left of them
KeyTypes ==
    /\ k_GlobalPTT \in BOOLEAN /\ k_pushToTalk \in BOOLEAN /\ k_IsPTTActive \in BOOLEAN
    /\ k_key \in {1, 2} /\ k_pttKey \in {0, 1, 2} /\ k_held \subseteq {1, 2}
    /\ k_keyOf \in Seq({1, 2}) /\ Len(k_keyOf) <= 3
    /\ k_pttWatcher \in 0 .. Len(k_keyOf)
    /\ k_starting \subseteq 1 .. Len(k_keyOf) /\ k_alive \subseteq 1 .. Len(k_keyOf)
    /\ k_closed \subseteq 1 .. Len(k_keyOf) /\ k_down \subseteq k_alive
    /\ k_portals \subseteq 1 .. Len(k_keyOf) /\ k_unreported \in BOOLEAN
    /\ k_acts \in 0 .. 4

LEMMA KeyTyped == KeyTypes => K!TypeOK
<1> SUFFICES ASSUME KeyTypes PROVE K!TypeOK
  OBVIOUS
<1>1. K!Watchers = 1 .. Len(k_keyOf)
  BY DEF KeyTypes, K!Watchers
<1>2. k_pttWatcher \in K!Watchers \cup {0}
  BY <1>1 DEF KeyTypes
<1> QED
  BY <1>1, <1>2 DEF KeyTypes, K!TypeOK, K!None

LEMMA KeyTypesInit == Init => KeyTypes
<1> SUFFICES ASSUME K!Init PROVE KeyTypes
  BY DEF Init
<1>1. /\ k_keyOf = <<>> /\ k_pttWatcher = 0 /\ k_starting = {} /\ k_alive = {}
      /\ k_closed = {} /\ k_down = {} /\ k_portals = {}
  BY DEF K!Init, K!None
<1>2. /\ <<>> \in Seq({1, 2}) /\ Len(<<>>) = 0
  OBVIOUS
<1>3. /\ k_GlobalPTT = FALSE /\ k_pushToTalk = FALSE /\ k_IsPTTActive = FALSE
      /\ k_unreported = FALSE
      /\ k_key \in {1, 2} /\ k_pttKey = 0 /\ k_held = {} /\ k_acts = 0
  BY DEF K!Init, K!None
<1>4. /\ k_keyOf \in Seq({1, 2}) /\ Len(k_keyOf) <= 3 /\ k_pttWatcher \in 0 .. Len(k_keyOf)
  BY <1>1, <1>2
<1>5. /\ k_starting \subseteq 1 .. Len(k_keyOf) /\ k_alive \subseteq 1 .. Len(k_keyOf)
      /\ k_closed \subseteq 1 .. Len(k_keyOf) /\ k_down \subseteq k_alive
      /\ k_portals \subseteq 1 .. Len(k_keyOf)
  BY <1>1
<1>6. /\ k_GlobalPTT \in BOOLEAN /\ k_pushToTalk \in BOOLEAN /\ k_IsPTTActive \in BOOLEAN
      /\ k_unreported \in BOOLEAN
  BY <1>3, Zenon
<1>7. k_key \in {1, 2} /\ k_pttKey \in {0, 1, 2} /\ k_held \subseteq {1, 2} /\ k_acts \in 0 .. 4
  BY <1>3
<1> QED
  BY <1>4, <1>5, <1>6, <1>7, Zenon DEF KeyTypes

\* What syncGlobalPTT leaves.
LEMMA SyncTyped ==
    ASSUME KeyTypes, K!syncGlobalPTT, UNCHANGED <<k_alive, k_down, k_portals>>,
           k_GlobalPTT' \in BOOLEAN, k_pushToTalk' \in BOOLEAN, k_key' \in {1, 2}
    PROVE  /\ k_pttKey' \in {0, 1, 2}
           /\ k_keyOf' \in Seq({1, 2}) /\ Len(k_keyOf') <= 3
           /\ k_pttWatcher' \in 0 .. Len(k_keyOf')
           /\ k_starting' \subseteq 1 .. Len(k_keyOf') /\ k_alive' \subseteq 1 .. Len(k_keyOf')
           /\ k_closed' \subseteq 1 .. Len(k_keyOf') /\ k_down' \subseteq k_alive'
           /\ k_portals' \subseteq 1 .. Len(k_keyOf')
<1> DEFINE want == k_GlobalPTT' /\ k_pushToTalk'
           stale == k_pttWatcher # 0 /\ (~want \/ k_key' # k_pttKey)
           starts == want /\ (k_pttWatcher = 0 \/ stale)
<1>1. /\ k_closed' = IF stale THEN k_closed \cup {k_pttWatcher} ELSE k_closed
      /\ k_pttWatcher' = IF stale THEN 0 ELSE k_pttWatcher
      /\ starts => /\ Len(k_keyOf) < 3 /\ k_pttKey' = k_key'
                   /\ k_keyOf' = Append(k_keyOf, k_key')
                   /\ k_starting' = k_starting \cup {Len(k_keyOf')}
      /\ ~starts => UNCHANGED <<k_pttKey, k_keyOf, k_starting>>
  BY DEF K!syncGlobalPTT, K!None
<1> HIDE DEF want, stale, starts
<1>2. /\ k_keyOf' \in Seq({1, 2}) /\ Len(k_keyOf') \in Nat /\ Len(k_keyOf') <= 3
      /\ Len(k_keyOf) \in Nat /\ Len(k_keyOf) <= Len(k_keyOf')
  BY <1>1 DEF KeyTypes
<1>3. 1 .. Len(k_keyOf) \subseteq 1 .. Len(k_keyOf')
  BY <1>2
<1>4. k_starting' \subseteq 1 .. Len(k_keyOf')
  <2>1. CASE starts
    <3>1. Len(k_keyOf') \in 1 .. Len(k_keyOf')
      BY <1>1, <2>1 DEF KeyTypes
    <3> QED
      BY <1>1, <1>3, <2>1, <3>1 DEF KeyTypes
  <2> QED
    BY <1>1, <1>3, <2>1 DEF KeyTypes
<1>5. k_pttWatcher' \in 0 .. Len(k_keyOf')
  BY <1>1, <1>2 DEF KeyTypes
<1>6. k_closed' \subseteq 1 .. Len(k_keyOf')
  <2>1. stale => k_pttWatcher \in 1 .. Len(k_keyOf)
    BY <1>2 DEF KeyTypes, stale
  <2> QED
    BY <1>1, <1>3, <2>1 DEF KeyTypes
<1>7. k_pttKey' \in {0, 1, 2}
  BY <1>1 DEF KeyTypes
<1>8. k_portals' \subseteq 1 .. Len(k_keyOf') /\ k_alive' \subseteq 1 .. Len(k_keyOf')
  BY <1>3 DEF KeyTypes
<1> QED
  BY <1>2, <1>3, <1>4, <1>5, <1>6, <1>7, <1>8 DEF KeyTypes

LEMMA KeyTypesStep == KeyTypes /\ [Next]_all => KeyTypes'
<1> SUFFICES ASSUME KeyTypes, K!Next \/ UNCHANGED kVars PROVE KeyTypes'
  BY DEF Next, Others, all
<1>1. K!Acts => k_acts' \in 0 .. 4
  BY DEF K!Acts, KeyTypes
<1>2. CASE K!toggleGlobalPTT
  <2>1. k_GlobalPTT' \in BOOLEAN
    BY <1>2, Zenon DEF K!toggleGlobalPTT
  <2>2. k_pushToTalk' \in BOOLEAN
    BY <1>2, Zenon DEF K!toggleGlobalPTT
  <2> QED
    BY <1>1, <1>2, <2>1, <2>2, SyncTyped DEF K!toggleGlobalPTT, K!talk, KeyTypes
<1>3. CASE K!CycleInputMode
  <2>1. k_pushToTalk' \in BOOLEAN
    BY <1>3, Zenon DEF K!CycleInputMode
  <2> QED
    BY <1>1, <1>3, <2>1, SyncTyped DEF K!CycleInputMode, K!talk, KeyTypes
<1>4. CASE K!SetPTTKey
  BY <1>1, <1>4, SyncTyped DEF K!SetPTTKey, K!talk, KeyTypes
<1>5. ASSUME NEW w \in K!Watchers, K!Started(w) PROVE KeyTypes'
  <2>1. w \in 1 .. Len(k_keyOf)
    BY DEF K!Watchers, KeyTypes
  <2>2. w \in 0 .. Len(k_keyOf)
    BY <2>1 DEF KeyTypes
  <2> QED
    BY <1>5, <2>1, <2>2 DEF K!Started, K!settings, K!talk, KeyTypes
<1>6. ASSUME NEW w \in K!Watchers, K!StartFailed(w) PROVE KeyTypes'
  BY <1>6 DEF K!StartFailed, K!settings, K!watchers, K!talk, KeyTypes
<1>7. ASSUME NEW w \in K!Watchers, K!Sample(w) PROVE KeyTypes'
  <2>1. k_IsPTTActive' \in BOOLEAN /\ k_unreported' \in BOOLEAN
    <3>1. k_IsPTTActive' = (k_keyOf[w] \in k_held) /\ k_unreported' = FALSE
      BY <1>7 DEF K!Sample, K!Report
    <3>2. k_unreported' \in BOOLEAN
      BY <3>1, Zenon
    <3>3. k_IsPTTActive' = TRUE \/ k_IsPTTActive' = FALSE
      <4>1. CASE k_keyOf[w] \in k_held
        BY <3>1, <4>1
      <4>2. CASE k_keyOf[w] \notin k_held
        BY <3>1, <4>2
      <4> QED
        BY <4>1, <4>2
    <3>4. k_IsPTTActive' \in BOOLEAN
      BY <3>3, Zenon
    <3> QED
      BY <3>2, <3>4
  <2> QED
    BY <1>7, <2>1 DEF K!Sample, K!settings, K!sync, KeyTypes
<1>8. ASSUME NEW w \in K!Watchers, K!End(w) PROVE KeyTypes'
  <2>1. k_IsPTTActive' \in BOOLEAN /\ k_unreported' \in BOOLEAN
    <3>1. CASE w \in k_down \ k_portals
      BY <1>8, <3>1 DEF K!End, K!Report
    <3>2. CASE w \notin k_down \ k_portals
      <4>1. k_IsPTTActive' = k_IsPTTActive /\ k_unreported' = (k_unreported \/ w \in k_down)
        BY <1>8, <3>2 DEF K!End
      <4>2. k_unreported' \in BOOLEAN
        BY <4>1, Zenon
      <4> QED
        BY <4>1, <4>2 DEF KeyTypes
    <3> QED
      BY <3>1, <3>2
  <2> QED
    BY <1>8, <2>1 DEF K!End, K!settings, K!sync, KeyTypes
<1>9. CASE K!PressOrRelease
  <2>1. k_held' \subseteq {1, 2} /\ k_acts' \in 0 .. 4
    BY <1>1, <1>9 DEF K!PressOrRelease, KeyTypes
  <2> QED
    BY <1>9, <2>1 DEF K!PressOrRelease, K!settings, K!sync, K!watchers, K!talk, KeyTypes
<1>10. CASE UNCHANGED kVars
  BY <1>10 DEF kVars, KeyTypes
<1> QED
  BY <1>2, <1>3, <1>4, <1>5, <1>6, <1>7, <1>8, <1>9, <1>10 DEF K!Next

-----------------------------------------------------------------------------
(* Types: the queues of a connection to the relay                          *)

\* What the two queues of a connection hold
QueueLengths == {q \in [Q!Classes -> 0 .. 2] : q["realtime"] <= 1 /\ q["reliable"] <= 1}

QueueTypes ==
    /\ q_up \in QueueLengths /\ q_down \in QueueLengths
    /\ q_ctrl \in Seq({"followed", "other"}) /\ Len(q_ctrl) <= 1
    /\ q_upStep \in {"look", "wait"} /\ q_downStep \in {"look", "wait", "gone"}
    /\ q_waiting \in BOOLEAN /\ q_closed \in BOOLEAN
    /\ q_active \in BOOLEAN /\ q_bound \in BOOLEAN
    /\ q_followed \in {"none", "queued", "out"}
    /\ q_followed = "queued" => (\E i \in 1 .. Len(q_ctrl) : q_ctrl[i] = "followed") \/ q_closed

LEMMA QueueTyped == QueueTypes => Q!TypeOK
<1> SUFFICES ASSUME QueueTypes PROVE Q!TypeOK
  OBVIOUS
<1> DEFINE room == [realtime |-> 1, reliable |-> 1, bulk |-> 2]
<1>1. room["realtime"] = 1 /\ room["reliable"] = 1 /\ room["bulk"] = 2
  OBVIOUS
<1>2. ASSUME NEW q \in QueueLengths, NEW c \in Q!Classes PROVE q[c] \in 0 .. room[c]
  BY <1>1 DEF QueueLengths, Q!Classes
<1>3. \A c \in Q!Classes : q_up[c] \in 0 .. room[c] /\ q_down[c] \in 0 .. room[c]
  BY <1>2 DEF QueueTypes
<1>4. {q_waiting, q_closed, q_active, q_bound} \subseteq BOOLEAN
  BY Zenon DEF QueueTypes
<1>5. (q_followed = "queued" => Q!Contains(q_ctrl, "followed") \/ q_closed)
  BY DEF QueueTypes, Q!Contains
<1> QED
  BY <1>3, <1>4, <1>5 DEF QueueTypes, Q!TypeOK

LEMMA QueueTypesInit == Init => QueueTypes
<1> SUFFICES ASSUME Q!Init PROVE QueueTypes
  BY DEF Init
<1>1. [c \in Q!Classes |-> 0] \in QueueLengths
  BY DEF QueueLengths, Q!Classes
<1>2. <<>> \in Seq({"followed", "other"}) /\ Len(<<>>) = 0
  OBVIOUS
<1>3. /\ q_up \in QueueLengths /\ q_down \in QueueLengths
      /\ q_ctrl \in Seq({"followed", "other"}) /\ Len(q_ctrl) <= 1
  BY <1>1, <1>2 DEF Q!Init
<1> QED
  BY <1>3 DEF Q!Init, QueueTypes

\* A frame more or less in a queue.
LEMMA QueuedFits ==
    ASSUME NEW q \in QueueLengths, NEW class \in Q!Classes PROVE Q!Queued(q, class) \in QueueLengths
<1>1. CASE class = "bulk"
  BY <1>1 DEF Q!Queued, QueueLengths, Q!Classes
<1>2. CASE class = "realtime"
  BY <1>2 DEF Q!Queued, QueueLengths, Q!Classes
<1>3. CASE class = "reliable"
  BY <1>3 DEF Q!Queued, QueueLengths, Q!Classes
<1> QED
  BY <1>1, <1>2, <1>3 DEF Q!Classes

LEMMA TakenFits ==
    ASSUME NEW q \in QueueLengths, NEW class \in Q!Classes, q[class] > 0
    PROVE  Q!Taken(q, class) \in QueueLengths
  BY DEF Q!Taken, QueueLengths, Q!Classes

LEMMA DeliveredFits ==
    ASSUME q_down \in QueueLengths, NEW class \in Q!Classes, Q!Deliver(class)
    PROVE  q_down' \in QueueLengths
  BY QueuedFits DEF Q!Deliver

\* A signal written was the first of the queue.
LEMMA WrittenTyped ==
    ASSUME QueueTypes, Q!WriteSignal, q_ctrl # <<>>, UNCHANGED q_closed
    PROVE  /\ q_ctrl' \in Seq({"followed", "other"}) /\ Len(q_ctrl') <= 1
           /\ q_followed' \in {"none", "queued", "out"}
           /\ q_followed' = "queued" =>
                (\E i \in 1 .. Len(q_ctrl') : q_ctrl'[i] = "followed") \/ q_closed'
<1>1. /\ q_ctrl' = Tail(q_ctrl) /\ Head(q_ctrl) = q_ctrl[1]
      /\ q_followed' = IF Head(q_ctrl) = "followed" THEN "out" ELSE q_followed
  BY DEF Q!WriteSignal, QueueTypes
<1>2. q_ctrl' \in Seq({"followed", "other"}) /\ Len(q_ctrl') = Len(q_ctrl) - 1 /\ Len(q_ctrl) \in Nat
  BY <1>1 DEF QueueTypes
<1>3. Len(q_ctrl) = 1
  BY <1>2 DEF QueueTypes
<1>4. q_followed' = "queued" => q_closed
  BY <1>1, <1>3 DEF QueueTypes
<1> QED
  BY <1>1, <1>2, <1>3, <1>4 DEF QueueTypes

LEMMA QueueTypesStep == QueueTypes /\ [Next]_all => QueueTypes'
<1> SUFFICES ASSUME QueueTypes, Q!Next \/ UNCHANGED qVars PROVE QueueTypes'
  BY DEF Next, Others, all
<1>1. "realtime" \in Q!Classes /\ "reliable" \in Q!Classes
  BY DEF Q!Classes
<1>2. ASSUME NEW class \in Q!Classes, Q!SendByUDP(class) PROVE QueueTypes'
  <2>1. q_down' \in QueueLengths
    BY <1>2, DeliveredFits DEF Q!SendByUDP, QueueTypes
  <2> QED
    BY <1>2, <2>1 DEF Q!SendByUDP, QueueTypes
<1>3. ASSUME NEW class \in Q!Classes, Q!QueueFrame(class) PROVE QueueTypes'
  <2>1. q_up' \in QueueLengths /\ q_waiting' \in BOOLEAN
    BY <1>3, QueuedFits DEF Q!QueueFrame, QueueTypes
  <2> QED
    BY <1>3, <2>1 DEF Q!QueueFrame, QueueTypes
<1>4. ASSUME NEW class \in Q!Classes, Q!UpTake(class) PROVE QueueTypes'
  <2>1. q_up' \in QueueLengths
    BY <1>4, TakenFits DEF Q!UpTake, QueueTypes
  <2>2. q_down' \in QueueLengths
    BY <1>4, DeliveredFits DEF Q!UpTake, QueueTypes
  <2> QED
    BY <1>4, <2>1, <2>2 DEF Q!UpTake, QueueTypes
<1>5. CASE Q!UpLook
  <2>1. q_up' \in QueueLengths
    BY <1>1, <1>5, TakenFits DEF Q!UpLook, QueueTypes
  <2>2. q_down' \in QueueLengths
    BY <1>1, <1>5, DeliveredFits DEF Q!UpLook, QueueTypes
  <2> QED
    BY <1>5, <2>1, <2>2 DEF Q!UpLook, QueueTypes
<1>6. CASE Q!WaitEnds
  <2>1. q_up' \in QueueLengths
    BY <1>1, <1>6, QueuedFits DEF Q!WaitEnds, QueueTypes
  <2> QED
    BY <1>6, <2>1 DEF Q!WaitEnds, QueueTypes
<1>7. ASSUME NEW signal \in {"followed", "other"}, Q!SendSignal(signal) PROVE QueueTypes'
  <2>1. CASE Len(q_ctrl) < 1
    <3>1. q_ctrl' = Append(q_ctrl, signal) /\ UNCHANGED q_closed /\ Len(q_ctrl) = 0
      BY <1>7, <2>1 DEF Q!SendSignal, QueueTypes
    <3>2. q_ctrl' \in Seq({"followed", "other"}) /\ Len(q_ctrl') = 1 /\ q_ctrl'[1] = signal
      BY <3>1 DEF QueueTypes
    <3>3. q_followed' \in {"none", "queued", "out"}
          /\ (q_followed' = "queued" => signal = "followed" \/ q_closed)
      BY <1>7, <3>1 DEF Q!SendSignal, QueueTypes
    <3>4. q_followed' = "queued" => (\E i \in 1 .. Len(q_ctrl') : q_ctrl'[i] = "followed") \/ q_closed'
      BY <3>1, <3>2, <3>3
    <3> QED
      BY <1>7, <3>1, <3>2, <3>3, <3>4 DEF Q!SendSignal, QueueTypes
  <2>2. CASE ~(Len(q_ctrl) < 1)
    <3>1. q_closed' /\ q_closed' = TRUE /\ UNCHANGED q_ctrl
      BY <1>7, <2>2 DEF Q!SendSignal
    <3> QED
      BY <1>7, <3>1 DEF Q!SendSignal, QueueTypes
  <2> QED
    BY <2>1, <2>2
<1>8. CASE Q!DownLook
  <2>1. CASE q_ctrl # <<>>
    BY <1>8, <2>1, WrittenTyped DEF Q!DownLook, QueueTypes
  <2>2. CASE q_ctrl = <<>>
    <3>1. q_down' \in QueueLengths
      BY <1>1, <1>8, <2>2, TakenFits DEF Q!DownLook, QueueTypes
    <3> QED
      BY <1>8, <2>2, <3>1 DEF Q!DownLook, QueueTypes
  <2> QED
    BY <2>1, <2>2
<1>9. CASE Q!DownTake
  <2>1. CASE q_ctrl # <<>> /\ Q!WriteSignal /\ q_downStep' = "look" /\ UNCHANGED q_down
    BY <1>9, <2>1, WrittenTyped DEF Q!DownTake, QueueTypes
  <2>2. ASSUME NEW class \in Q!Classes, q_down[class] > 0, q_down' = Q!Taken(q_down, class),
               q_downStep' = "look", UNCHANGED <<q_ctrl, q_followed>>
        PROVE  QueueTypes'
    <3>1. q_down' \in QueueLengths
      BY <2>2, TakenFits DEF QueueTypes
    <3> QED
      BY <1>9, <2>2, <3>1 DEF Q!DownTake, QueueTypes
  <2>3. CASE q_closed /\ q_downStep' = "gone" /\ UNCHANGED <<q_down, q_ctrl, q_followed>>
    BY <1>9, <2>3 DEF Q!DownTake, QueueTypes
  <2> QED
    BY <1>9, <2>1, <2>2, <2>3 DEF Q!DownTake
<1>10. CASE Q!WriteFails
  BY <1>10 DEF Q!WriteFails, QueueTypes
<1>11. CASE Q!Acknowledged
  <2>1. q_active' \in BOOLEAN
    BY <1>11, Zenon DEF Q!Acknowledged
  <2> QED
    BY <1>11, <2>1 DEF Q!Acknowledged, QueueTypes
<1>12. CASE Q!Bind
  <2>1. q_bound' \in BOOLEAN
    BY <1>12, Zenon DEF Q!Bind
  <2> QED
    BY <1>12, <2>1 DEF Q!Bind, QueueTypes
<1>13. CASE UNCHANGED qVars
  BY <1>13 DEF qVars, QueueTypes
<1> QED
  BY <1>2, <1>3, <1>4, <1>5, <1>6, <1>7, <1>8, <1>9, <1>10, <1>11, <1>12, <1>13 DEF Q!Next

-----------------------------------------------------------------------------
(* Types: devices and streams                                              *)

\* Beside what DeviceInv, StreamInv and OwnedInv say.
DeviceBounds ==
    /\ d_changes \in 0 .. d_MaxChanges /\ d_running \in BOOLEAN
    /\ Len(d_opened) <= d_MaxStreams /\ d_simulated \in 0 .. d_MaxStreams

LEMMA DeviceTyped == DeviceInv /\ StreamInv /\ OwnedInv /\ DeviceBounds => D!TypeOK
<1> SUFFICES ASSUME DeviceInv, StreamInv, OwnedInv, DeviceBounds PROVE D!TypeOK
  OBVIOUS
<1>1. D!Streams = 1 .. Len(d_opened) /\ Len(d_opened) \in Nat
  BY DEF D!Streams, DeviceInv
<1>2. \A s \in D!Streams : d_opened[s] \in d_Devices \cup {D!Default}
  BY <1>1 DEF DeviceInv
<1>3. 0 .. Len(d_opened) = D!Streams \cup {0}
  BY <1>1
<1>4. /\ d_captureStream \in D!Streams \cup {0} /\ d_hand \in [D!Actors -> D!Streams \cup {0}]
      /\ d_closed \subseteq D!Streams /\ d_twice = {}
  BY <1>1, <1>3 DEF StreamInv, D!None
<1>5. {d_SelectedInput, d_wantInput} \subseteq d_Devices \cup {D!Default}
  BY DEF DeviceInv
<1>6. d_step \in [D!Actors -> {"idle", "take", "close", "open", "assign", "failed", "refresh",
                               "stopped"}]
  BY DEF StreamInv
<1> QED
  BY <1>2, <1>4, <1>5, <1>6 DEF DeviceInv, OwnedInv, DeviceBounds, D!TypeOK, D!None

LEMMA DeviceBoundsInit == Init => DeviceBounds
<1> SUFFICES ASSUME D!Init PROVE DeviceBounds
  BY DEF Init
<1>1. d_MaxStreams \in Nat /\ d_MaxStreams >= 1 /\ d_MaxChanges \in Nat
  BY MCMediaAssumption DEF D!AudioDevicesAssumption
<1>2. /\ d_changes = 0 /\ d_running = TRUE
      /\ \/ Len(d_opened) = 1 /\ d_simulated = 0
         \/ Len(d_opened) = 0 /\ d_simulated = 1
  BY DEF D!Init
<1> QED
  BY <1>1, <1>2 DEF DeviceBounds

LEMMA DeviceBoundsStep == DeviceInv /\ DeviceBounds /\ [Next]_all => DeviceBounds'
<1> SUFFICES ASSUME DeviceInv, DeviceBounds, D!Next \/ UNCHANGED dVars PROVE DeviceBounds'
  BY DEF Next, Others, all
<1>1. d_MaxStreams \in Nat /\ d_MaxChanges \in Nat
  BY MCMediaAssumption DEF D!AudioDevicesAssumption
<1>2. CASE D!PlugOrUnplug
  BY <1>1, <1>2 DEF D!PlugOrUnplug, D!streams, DeviceBounds
<1>3. CASE D!SetInputDevice \/ D!EnumerateDevices \/ D!ApplyDevices \/ D!ReopenStalled
  BY <1>3 DEF D!SetInputDevice, D!EnumerateDevices, D!ApplyDevices, D!ReopenStalled, D!streams,
              DeviceBounds
<1>4. ASSUME NEW p \in D!Actors, D!TakeOld(p) \/ D!CloseOld(p) \/ D!Assign(p) PROVE DeviceBounds'
  BY <1>4 DEF D!TakeOld, D!CloseOld, D!Assign, D!Close, D!streams, DeviceBounds
<1>5. ASSUME NEW p \in D!Actors, D!Open(p) PROVE DeviceBounds'
  <2>1. \/ Len(d_opened) < d_MaxStreams /\ d_opened' = Append(d_opened, d_SelectedInput)
        \/ d_opened' = d_opened
    BY <1>5 DEF D!Open
  <2>2. Len(d_opened') <= d_MaxStreams
    BY <1>1, <2>1, AppendProperties, LenProperties DEF DeviceInv, DeviceBounds
  <2> QED
    BY <1>5, <2>2 DEF D!Open, DeviceBounds
<1>6. ASSUME NEW p \in D!Actors, D!OpenFailed(p) PROVE DeviceBounds'
  BY <1>1, <1>6 DEF D!OpenFailed, D!streams, DeviceBounds
<1>7. CASE D!Stop
  <2>1. d_running' = FALSE /\ d_simulated' = 0 /\ UNCHANGED <<d_changes, d_opened>>
    BY <1>7 DEF D!Stop, D!Close, D!streams
  <2>2. d_running' \in BOOLEAN
    BY <2>1, Zenon
  <2> QED
    BY <1>1, <2>1, <2>2 DEF DeviceBounds
<1>8. CASE UNCHANGED dVars
  BY <1>8 DEF dVars, DeviceBounds
<1> QED
  BY <1>2, <1>3, <1>4, <1>5, <1>6, <1>7, <1>8 DEF D!Next

-----------------------------------------------------------------------------
(* Types: shares and viewers                                               *)

ShareBound == 1 .. s_MaxShares

SharerTypes ==
    /\ s_connected \in BOOLEAN /\ s_leaving \in BOOLEAN /\ s_registered \in BOOLEAN
    /\ s_starting \in 0 .. s_MaxShares /\ s_made \in 0 .. s_MaxShares
    /\ s_share \in 0 .. s_made /\ s_running \subseteq 1 .. s_made
    /\ s_opening \in 0 .. s_made /\ s_preview \in 0 .. s_made
    /\ s_closing \subseteq [of : ShareBound, next : {"preview", "capture"}]
    /\ s_air \subseteq BOOLEAN
    /\ s_stopsDue \in 0 .. s_made
    \* the share that runs has not called for its own end
    /\ s_share \in s_running => s_stopsDue < s_made

ViewerTypes ==
    /\ s_asks \subseteq {"watch", "unwatch"} /\ s_knows \in BOOLEAN
    /\ s_begun \subseteq 1 .. s_MaxViews /\ s_viewer \in 0 .. s_MaxViews
    /\ s_players \subseteq 1 .. s_MaxViews /\ s_loops \subseteq 1 .. s_MaxViews
    /\ s_closes \in 0 .. s_MaxViews /\ s_views \in 0 .. s_MaxViews
    /\ s_events \in 0 .. s_MaxEvents

LEMMA ShareBounds ==
    s_MaxShares \in Nat /\ s_MaxViews \in Nat /\ s_MaxEvents \in Nat /\ s_MaxActs \in Nat
  BY MCMediaAssumption DEF S!ScreenShareAssumption

LEMMA ShareTyped == SharerTypes /\ ViewerTypes => S!TypeOK
<1> SUFFICES ASSUME SharerTypes, ViewerTypes PROVE S!TypeOK
  OBVIOUS
<1>1. s_stopsDue \in 0 .. s_MaxShares
  BY ShareBounds DEF SharerTypes
<1> QED
  BY <1>1 DEF SharerTypes, ViewerTypes, ShareBound, S!TypeOK, S!Shares, S!Views

LEMMA ShareTypesInit == Init => SharerTypes /\ ViewerTypes
<1> SUFFICES ASSUME S!Init PROVE SharerTypes /\ ViewerTypes
  BY DEF Init
<1>1. /\ s_asks = {} /\ s_knows = FALSE /\ s_begun = {} /\ s_viewer = 0 /\ s_players = {}
      /\ s_loops = {} /\ s_closes = 0 /\ s_views = 0 /\ s_events = 0
  BY DEF S!Init
<1>2. s_knows \in BOOLEAN
  BY <1>1, Zenon
<1>3. ViewerTypes
  BY <1>1, <1>2, ShareBounds DEF ViewerTypes
<1>4. /\ s_connected = TRUE /\ s_leaving = FALSE /\ s_registered = FALSE
      /\ s_starting = 0 /\ s_made = 0 /\ s_share = 0 /\ s_running = {}
      /\ s_opening = 0 /\ s_preview = 0 /\ s_stopsDue = 0
  BY DEF S!Init
<1>5. s_closing = {} /\ s_air = {}
  BY DEF S!Init
<1>6. /\ s_closing \subseteq [of : ShareBound, next : {"preview", "capture"}]
      /\ s_air \subseteq BOOLEAN
  BY <1>5
<1>7. s_connected \in BOOLEAN /\ s_leaving \in BOOLEAN /\ s_registered \in BOOLEAN
  BY <1>4, Zenon
<1>8. /\ s_starting \in 0 .. s_MaxShares /\ s_made \in 0 .. s_MaxShares /\ s_share \in 0 .. s_made
      /\ s_opening \in 0 .. s_made /\ s_preview \in 0 .. s_made /\ s_stopsDue \in 0 .. s_made
      /\ s_running \subseteq 1 .. s_made /\ s_share \notin s_running
  BY <1>4, ShareBounds
<1> QED
  BY <1>3, <1>6, <1>7, <1>8, Zenon DEF SharerTypes

LEMMA SharerTypesStep == ShareInv /\ SharerTypes /\ [Next]_all => SharerTypes'
<1> SUFFICES ASSUME ShareInv, SharerTypes, S!Next \/ UNCHANGED sVars PROVE SharerTypes'
  BY DEF Next, Others, all
<1> USE ShareBounds
<1>1. CASE S!StartShare
  BY <1>1 DEF S!StartShare, S!room, S!wire, SharerTypes
<1>2. CASE S!ShareStarted
  <2> DEFINE n == s_made + 1
  <2>1. n \in 1 .. s_MaxShares /\ s_made \in Nat
    BY <1>2 DEF S!ShareStarted, SharerTypes
  <2>2. s_air' = s_air \cup {TRUE} /\ s_made' = n /\ s_share' = n /\ s_running' = s_running \cup {n}
    BY <1>2 DEF S!ShareStarted
  <2>3. s_starting' \in 0 .. s_MaxShares /\ s_registered' = FALSE
        /\ UNCHANGED <<s_connected, s_leaving, s_closing, s_stopsDue, s_opening, s_preview>>
    BY <1>2 DEF S!ShareStarted, S!room, SharerTypes
  <2>4. s_air' \subseteq BOOLEAN
    BY <2>2 DEF SharerTypes
  <2>5. /\ s_opening' \in 0 .. n /\ s_preview' \in 0 .. n
        /\ s_stopsDue' \in 0 .. n /\ s_stopsDue' < n
    BY <2>1, <2>3 DEF SharerTypes
  <2>6. s_running' \subseteq 1 .. n /\ n \in 0 .. n /\ n \in 0 .. s_MaxShares
    BY <2>1, <2>2 DEF SharerTypes
  <2>7. s_closing' \subseteq [of : ShareBound, next : {"preview", "capture"}]
    BY <2>3 DEF SharerTypes
  <2> HIDE DEF n
  <2> QED
    BY <2>2, <2>3, <2>4, <2>5, <2>6, <2>7 DEF SharerTypes
<1>3. CASE S!ShareFailed
  BY <1>3 DEF S!ShareFailed, S!room, S!wire, SharerTypes
<1>4. CASE S!StopShare \/ S!WatchdogStops \/ S!BeginLeave
  <2>1. /\ s_share' = 0 /\ s_registered' = FALSE /\ s_leaving' \in BOOLEAN
        /\ s_closing' = IF s_share = 0 THEN s_closing
                        ELSE s_closing \cup {[of |-> s_share, next |-> "preview"]}
        /\ UNCHANGED <<s_connected, s_starting, s_made, s_running, s_opening, s_preview, s_air>>
    BY <1>4 DEF S!StopShare, S!WatchdogStops, S!BeginLeave, S!TakeDown, S!room, S!wire, SharerTypes
  <2>2. s_stopsDue' \in 0 .. s_made
    BY <1>4 DEF S!StopShare, S!WatchdogStops, S!BeginLeave, SharerTypes
  <2>3. s_share # 0 => [of |-> s_share, next |-> "preview"] \in [of : ShareBound, next : {"preview", "capture"}]
    BY DEF SharerTypes, ShareBound
  <2>4. s_closing' \subseteq [of : ShareBound, next : {"preview", "capture"}]
    BY <2>1, <2>3 DEF SharerTypes
  <2>5. 0 \notin s_running
    BY DEF SharerTypes
  <2>6. /\ s_air' \subseteq BOOLEAN
        /\ s_share' \in 0 .. s_made /\ s_share' \notin s_running
    BY <2>1, <2>5 DEF SharerTypes
  <2> QED
    BY <2>1, <2>2, <2>4, <2>6 DEF SharerTypes
<1>5. CASE S!ClosePreviewAndTell
  <2>1. PICK c \in s_closing :
          /\ s_closing' = (s_closing \ {c}) \cup {[c EXCEPT !.next = "capture"]}
          /\ s_air' = s_air \cup {FALSE}
    BY <1>5 DEF S!ClosePreviewAndTell
  <2>2. c \in [of : ShareBound, next : {"preview", "capture"}]
    BY DEF SharerTypes
  <2>3. [c EXCEPT !.next = "capture"] \in [of : ShareBound, next : {"preview", "capture"}]
    BY <2>2
  <2>4. /\ s_closing' \subseteq [of : ShareBound, next : {"preview", "capture"}]
        /\ s_air' \subseteq BOOLEAN
    BY <2>1, <2>3 DEF SharerTypes
  <2>5. /\ s_preview' = 0
        /\ UNCHANGED <<s_connected, s_leaving, s_starting, s_share, s_made, s_running, s_stopsDue,
                       s_registered, s_opening>>
    BY <1>5 DEF S!ClosePreviewAndTell, S!room
  <2> QED
    BY <2>4, <2>5 DEF SharerTypes
<1>6. CASE S!ShutDown
  BY <1>6 DEF S!ShutDown, S!room, S!wire, SharerTypes
<1>7. CASE S!CaptureEnds
  <2>1. PICK t \in s_running :
          /\ s_running' = s_running \ {t}
          /\ s_stopsDue' = IF s_share = t THEN s_stopsDue + 1 ELSE s_stopsDue
    BY <1>7 DEF S!CaptureEnds
  <2>2. s_stopsDue' \in 0 .. s_made /\ (s_share \in s_running' => s_stopsDue' < s_made)
    BY <2>1 DEF SharerTypes
  <2> QED
    BY <1>7, <2>1, <2>2 DEF S!CaptureEnds, S!room, S!wire, SharerTypes
<1>8. CASE S!LeaveRoom \/ S!JoinRoom \/ S!StartPreview
  BY <1>8 DEF S!LeaveRoom, S!JoinRoom, S!StartPreview, S!room, S!wire, SharerTypes
<1>9. CASE S!PreviewOpened \/ S!StopPreview
  <2>1. s_preview' \in {s_preview, s_opening, 0} /\ s_opening' \in {s_opening, 0}
    BY <1>9 DEF S!PreviewOpened, S!StopPreview
  <2>2. UNCHANGED <<s_connected, s_leaving, s_starting, s_share, s_made, s_running, s_closing,
                    s_stopsDue, s_registered, s_air>>
    BY <1>9 DEF S!PreviewOpened, S!StopPreview, S!room, S!wire
  <2>3. s_preview' \in 0 .. s_made /\ s_opening' \in 0 .. s_made
    BY <2>1 DEF SharerTypes
  <2> QED
    BY <2>2, <2>3 DEF SharerTypes
<1>10. CASE S!OnWatch
  <2>1. s_registered' \in BOOLEAN
    BY <1>10, Zenon DEF S!OnWatch
  <2> QED
    BY <1>10, <2>1 DEF S!OnWatch, S!room, SharerTypes
<1>11. CASE S!OnUnwatch \/ S!ExpireWatcher \/ S!CutOff
  BY <1>11 DEF S!OnUnwatch, S!ExpireWatcher, S!CutOff, S!room, S!wire, SharerTypes
<1>12. CASE S!Hear \/ S!LoseNews
  BY <1>12 DEF S!Hear, S!LoseNews, S!sharer, S!room, SharerTypes
<1>13. CASE \/ S!LoseAsk \/ S!StartWatching \/ S!ViewerOpened \/ S!KeepAlive \/ S!StopWatching
            \/ S!DoClose \/ S!PlayerEnds \/ S!Stall \/ S!Ping
  <2>1. UNCHANGED <<s_connected, s_leaving, s_starting, s_share, s_made, s_running, s_closing,
                    s_stopsDue, s_registered, s_opening, s_preview, s_air>>
    BY <1>13 DEF S!LoseAsk, S!StartWatching, S!ViewerOpened, S!KeepAlive, S!StopWatching,
                 S!DoClose, S!PlayerEnds, S!Stall, S!Ping, S!sharer, S!room, S!wire
  <2> QED
    BY <2>1 DEF SharerTypes
<1>14. CASE UNCHANGED sVars
  BY <1>14 DEF sVars, SharerTypes
<1> QED
  BY <1>1, <1>2, <1>3, <1>4, <1>5, <1>6, <1>7, <1>8, <1>9, <1>10, <1>11, <1>12, <1>13, <1>14
     DEF S!Next

LEMMA ViewerTypesStep == SharerTypes /\ ViewerTypes /\ [Next]_all => ViewerTypes'
<1> SUFFICES ASSUME SharerTypes, ViewerTypes, S!Next \/ UNCHANGED sVars PROVE ViewerTypes'
  BY DEF Next, Others, all
<1> USE ShareBounds
<1>1. S!OneMoreClose => s_closes' \in 0 .. s_MaxViews
  BY DEF S!OneMoreClose, ViewerTypes
<1>2. S!CloseViewer => /\ s_viewer' = 0 /\ s_players' \subseteq 1 .. s_MaxViews
                      /\ s_loops' \subseteq 1 .. s_MaxViews /\ s_asks' \subseteq {"watch", "unwatch"}
  BY DEF S!CloseViewer, ViewerTypes
<1>3. CASE S!StartWatching
  BY <1>3 DEF S!StartWatching, S!wire, ViewerTypes
<1>4. CASE S!ViewerOpened
  BY <1>4 DEF S!ViewerOpened, ViewerTypes
<1>5. CASE S!KeepAlive
  BY <1>5 DEF S!KeepAlive, S!watcher, ViewerTypes
<1>6. CASE S!StopWatching \/ S!DoClose
  <2>1. s_closes' \in 0 .. s_MaxViews
    BY <1>6 DEF S!StopWatching, S!DoClose, ViewerTypes
  <2>2. S!CloseViewer /\ UNCHANGED <<s_events, s_knows, s_begun, s_views>>
    BY <1>6 DEF S!StopWatching, S!DoClose
  <2> QED
    BY <1>2, <2>1, <2>2 DEF ViewerTypes
<1>7. CASE S!PlayerEnds
  <2>1. PICK v \in s_players :
          IF v = s_viewer THEN S!CloseViewer
          ELSE s_players' = s_players \ {v} /\ UNCHANGED <<s_viewer, s_loops, s_asks>>
    BY <1>7 DEF S!PlayerEnds
  <2>2. UNCHANGED <<s_events, s_knows, s_begun, s_closes, s_views>>
    BY <1>7 DEF S!PlayerEnds
  <2>3. CASE v = s_viewer
    BY <1>2, <2>1, <2>2, <2>3 DEF ViewerTypes
  <2>4. CASE v # s_viewer
    <3>1. s_players' \subseteq 1 .. s_MaxViews
      BY <2>1, <2>4 DEF ViewerTypes
    <3> QED
      BY <2>1, <2>2, <2>4, <3>1 DEF ViewerTypes
  <2> QED
    BY <2>3, <2>4
<1>8. CASE S!Stall
  BY <1>1, <1>8 DEF S!Stall, S!wire, ViewerTypes
<1>9. CASE S!Hear
  <2>1. s_knows' \in BOOLEAN
    <3>1. s_knows' \in s_air
      BY <1>9 DEF S!Hear
    <3> QED
      BY <3>1 DEF SharerTypes
  <2> QED
    BY <1>1, <1>9, <2>1 DEF S!Hear, ViewerTypes
<1>10. CASE S!Ping
  <2>1. s_knows' \in BOOLEAN
    BY <1>10, Zenon DEF S!Ping
  <2> QED
    BY <1>10, <2>1 DEF S!Ping, S!wire, ViewerTypes
<1>11. CASE S!CutOff
  <2>1. s_events' \in 0 .. s_MaxEvents /\ s_closes' \in 0 .. s_MaxViews /\ s_loops' \subseteq 1 .. s_MaxViews
    <3>1. s_events' \in 0 .. s_MaxEvents
      BY <1>11 DEF S!CutOff, ViewerTypes
    <3>2. \/ UNCHANGED <<s_loops, s_closes>>
          \/ \E v \in s_loops : s_loops' = s_loops \ {v} /\ S!OneMoreClose
      BY <1>11 DEF S!CutOff
    <3>3. s_closes' \in 0 .. s_MaxViews
      BY <1>1, <3>2 DEF ViewerTypes
    <3>4. s_loops' \subseteq 1 .. s_MaxViews
      BY <3>2 DEF ViewerTypes
    <3> QED
      BY <3>1, <3>3, <3>4
  <2> QED
    BY <1>11, <2>1 DEF S!CutOff, ViewerTypes
<1>12. CASE S!BeginLeave
  <2>1. s_events' \in 0 .. s_MaxEvents
    BY <1>12 DEF S!BeginLeave, ViewerTypes
  <2> QED
    BY <1>12, <2>1 DEF S!BeginLeave, S!watcher, ViewerTypes
<1>13. CASE S!OnWatch \/ S!OnUnwatch \/ S!LoseAsk
  BY <1>13 DEF S!OnWatch, S!OnUnwatch, S!LoseAsk, S!watcher, ViewerTypes
<1>14. CASE \/ S!StartShare \/ S!ShareStarted \/ S!ShareFailed \/ S!StopShare \/ S!WatchdogStops
            \/ S!ClosePreviewAndTell \/ S!ShutDown \/ S!CaptureEnds \/ S!LeaveRoom \/ S!JoinRoom
            \/ S!StartPreview \/ S!PreviewOpened \/ S!StopPreview \/ S!ExpireWatcher \/ S!LoseNews
            \/ UNCHANGED sVars
  <2>1. UNCHANGED <<s_asks, s_events, s_knows, s_begun, s_viewer, s_players, s_loops, s_closes, s_views>>
    BY <1>14 DEF S!StartShare, S!ShareStarted, S!ShareFailed, S!StopShare, S!WatchdogStops,
                 S!ClosePreviewAndTell, S!ShutDown, S!CaptureEnds, S!LeaveRoom, S!JoinRoom,
                 S!StartPreview, S!PreviewOpened, S!StopPreview, S!ExpireWatcher, S!LoseNews,
                 S!wire, S!watcher, sVars
  <2> QED
    BY <2>1 DEF ViewerTypes
<1> QED
  BY <1>3, <1>4, <1>5, <1>6, <1>7, <1>8, <1>9, <1>10, <1>11, <1>12, <1>13, <1>14 DEF S!Next

-----------------------------------------------------------------------------
(* Types: the voice of a member                                            *)

SentNumbers == {V!SeqOf(k) : k \in 1 .. Len(v_sent)}

\* Beside what VoiceInv says.
SpeakerTypes ==
    /\ v_silenceHangover <= v_Hangover /\ Len(v_audioPreRoll) <= v_PreRoll
    /\ v_spoken \subseteq 1 .. v_captured

CheckTypes ==
    /\ v_seqs \in [0 .. v_Slots - 1 -> 0 .. v_Wrap - 1] /\ v_maxSeq \in 0 .. v_Wrap - 1

BufferTypes ==
    /\ v_packets \subseteq SentNumbers /\ v_played \subseteq SentNumbers
    /\ IsFiniteSet(v_packets) /\ Cardinality(v_packets) <= v_MaxBuffered

PullTypes ==
    /\ v_target \in v_Targets /\ v_concealRun \in Nat /\ v_lastSpeaking \in BOOLEAN
    /\ v_highWater \in Nat

VoiceTypes == VoiceInv /\ SpeakerTypes /\ CheckTypes /\ BufferTypes /\ PullTypes

LEMMA VoiceAssumed ==
    /\ V!VoicePathAssumption
    /\ v_Wrap \in Nat /\ v_Slots \in Nat /\ v_Hangover \in Nat /\ v_PreRoll \in Nat
    /\ v_MaxFrames \in Nat /\ v_MaxBuffered \in Nat /\ v_MaxBuffered > 0 /\ v_TrimAfter \in Nat
    /\ Newest \in Nat /\ Newest + 1 < v_Wrap /\ v_First \in Nat
<1>1. V!VoicePathAssumption
  BY MCMediaAssumption DEF MCMediaAssumption
<1>2. /\ v_Wrap \in Nat /\ v_Slots \in Nat /\ v_Hangover \in Nat /\ v_PreRoll \in Nat
      /\ v_MaxFrames \in Nat /\ v_MaxBuffered \in Nat /\ v_MaxBuffered > 0 /\ v_TrimAfter \in Nat
      /\ v_First \in Nat /\ 2 * (v_First + v_MaxFrames + 1) < v_Wrap
  BY <1>1 DEF V!VoicePathAssumption
<1> QED
  BY <1>1, <1>2 DEF Newest

LEMMA VoiceTyped == VoiceTypes => V!TypeOK
<1> SUFFICES ASSUME VoiceTypes PROVE V!TypeOK
  OBVIOUS
<1>1. 1 .. v_captured \subseteq 1 .. v_MaxFrames /\ v_captured \in 0 .. v_MaxFrames
  BY VoiceAssumed DEF VoiceTypes, VoiceInv, SpeakerInv
<1>2. v_audioPreRoll \in Seq(1 .. v_MaxFrames) /\ v_sent \in Seq(1 .. v_MaxFrames)
  BY <1>1, SeqMonotonic DEF VoiceTypes, VoiceInv, SpeakerInv
<1>3. DOMAIN v_sent = 1 .. Len(v_sent)
  BY <1>2, LenProperties
<1>4. v_net \subseteq (DOMAIN v_sent) \X {"relay", "direct"}
  BY <1>3 DEF VoiceTypes, VoiceInv, SpeakerInv
<1>5. /\ v_packets \subseteq {V!SeqOf(k) : k \in DOMAIN v_sent}
      /\ v_played \subseteq {V!SeqOf(k) : k \in DOMAIN v_sent}
      /\ V!Cardinality(v_packets) <= v_MaxBuffered
  BY <1>3, SameCardinality DEF VoiceTypes, BufferTypes, SentNumbers
<1>6. v_next \in 0 .. v_Wrap - 1
  BY VoiceAssumed DEF VoiceTypes, VoiceInv, BufferInv, Numbers
<1>7. v_silenceHangover \in 0 .. v_Hangover /\ Len(v_audioPreRoll) <= v_PreRoll
      /\ v_spoken \subseteq 1 .. v_MaxFrames
  BY <1>1, VoiceAssumed DEF VoiceTypes, VoiceInv, SpeakerInv, SpeakerTypes
<1>8. v_started \in BOOLEAN /\ v_again = {}
  BY DEF VoiceTypes, VoiceInv, BufferInv
<1> QED
  BY <1>1, <1>2, <1>4, <1>5, <1>6, <1>7, <1>8 DEF VoiceTypes, CheckTypes, PullTypes, V!TypeOK

LEMMA SomeTarget == V!Min(v_Targets) \in v_Targets
<1>1. v_Targets # {} /\ v_Targets \subseteq Nat
  BY VoiceAssumed DEF V!VoicePathAssumption
<1>2. PICK m \in v_Targets : \A t \in v_Targets : ~(<<t, m>> \in OpToRel(<, Nat))
  BY <1>1, NatLessThanWellFounded, WFMin
<1>3. \A t \in v_Targets : m <= t
  <2> TAKE t \in v_Targets
  <2>1. ~(<<t, m>> \in OpToRel(<, Nat)) /\ t \in Nat /\ m \in Nat
    BY <1>1, <1>2
  <2> QED
    BY <2>1 DEF OpToRel
<1> QED
  BY <1>3 DEF V!Min

LEMMA VoiceTypesInit == Init => VoiceTypes
<1> SUFFICES ASSUME V!Init PROVE VoiceTypes
  BY DEF Init
<1>1. VoiceInv
  BY VoiceInit, VoiceAssumed
<1>2. SpeakerTypes
  <2>1. v_silenceHangover = 0 /\ v_audioPreRoll = <<>> /\ v_spoken = {}
    BY DEF V!Init
  <2> QED
    BY <2>1, VoiceAssumed DEF SpeakerTypes
<1>3. CheckTypes
  BY VoiceAssumed DEF CheckTypes, V!Init
<1>4. BufferTypes
  <2>1. v_packets = {} /\ v_played = {}
    BY DEF V!Init
  <2>2. IsFiniteSet({}) /\ Cardinality({}) = 0
    BY FS_EmptySet
  <2> QED
    BY <2>1, <2>2, VoiceAssumed DEF BufferTypes
<1>5. PullTypes
  BY SomeTarget DEF PullTypes, V!Init
<1> QED
  BY <1>1, <1>2, <1>3, <1>4, <1>5 DEF VoiceTypes

\* What is sent is not unsent.
LEMMA SentGrows ==
    ASSUME VoiceInv, VoiceInv', v_sent' = v_sent \/ Len(v_sent) <= Len(v_sent')
    PROVE  SentNumbers \subseteq SentNumbers'
<1>1. Len(v_sent) \in Nat /\ Len(v_sent') \in Nat
  BY LenProperties DEF VoiceInv, SpeakerInv
<1>2. 1 .. Len(v_sent) \subseteq 1 .. Len(v_sent')
  BY <1>1
<1> QED
  BY <1>2 DEF SentNumbers, V!SeqOf

LEMMA TransmitGrows ==
    ASSUME VoiceInv, VoiceInv', NEW frames, V!Transmit(frames), frames \in Seq(Nat)
    PROVE  Len(v_sent) <= Len(v_sent')
<1>1. v_sent \in Seq(Nat)
  BY SeqMonotonic, 1 .. v_captured \subseteq Nat DEF VoiceInv, SpeakerInv
<1>2. v_sent' = v_sent \o frames
  BY DEF V!Transmit
<1>3. Len(v_sent') = Len(v_sent) + Len(frames) /\ Len(v_sent) \in Nat /\ Len(frames) \in Nat
  BY <1>1, <1>2, ConcatProperties, LenProperties
<1> QED
  BY <1>3

LEMMA SendTyped == VoiceTypes /\ VoiceInv' /\ V!SendAudio => VoiceTypes'
<1> SUFFICES ASSUME VoiceTypes, VoiceInv', V!SendAudio PROVE VoiceTypes'
  OBVIOUS
<1> DEFINE f == v_captured + 1
<1>1. /\ VoiceInv /\ v_captured \in Nat /\ v_captured' = f /\ f \in 1 .. f
      /\ UNCHANGED V!dedupVars /\ UNCHANGED V!jitterVars
      /\ V!Speak(f) \/ V!Pause(f)
  BY DEF V!SendAudio, VoiceTypes, VoiceInv, SpeakerInv
<1>2. /\ v_audioPreRoll \in Seq(1 .. v_captured) /\ v_audioPreRoll \in Seq(Nat)
      /\ Len(v_audioPreRoll) \in Nat /\ v_silenceHangover \in 0 .. v_Hangover
  <2>1. v_audioPreRoll \in Seq(1 .. v_captured)
    BY <1>1 DEF VoiceInv, SpeakerInv
  <2>2. v_audioPreRoll \in Seq(Nat) /\ Len(v_audioPreRoll) \in Nat
    BY <2>1, SeqMonotonic, LenProperties, 1 .. v_captured \subseteq Nat
  <2> QED
    BY <1>1, <2>1, <2>2, VoiceAssumed DEF VoiceTypes, SpeakerTypes, VoiceInv, SpeakerInv
<1>3. /\ Append(v_audioPreRoll, f) \in Seq(Nat)
      /\ Len(Append(v_audioPreRoll, f)) = Len(v_audioPreRoll) + 1
      /\ <<f>> \in Seq(Nat)
  BY <1>1, <1>2, AppendProperties
<1>4. v_sent' = v_sent \/ Len(v_sent) <= Len(v_sent')
  <2>1. V!Transmit(Append(v_audioPreRoll, f)) \/ V!Transmit(<<f>>) \/ v_sent' = v_sent
    BY <1>1 DEF V!Speak, V!Pause
  <2> QED
    BY <1>1, <1>3, <2>1, TransmitGrows
<1>5. BufferTypes'
  <2>1. SentNumbers \subseteq SentNumbers'
    BY <1>1, <1>4, SentGrows
  <2> QED
    BY <1>1, <2>1 DEF VoiceTypes, BufferTypes, V!jitterVars
<1>6. CheckTypes' /\ PullTypes'
  BY <1>1 DEF VoiceTypes, CheckTypes, PullTypes, V!dedupVars, V!jitterVars
<1>7. v_spoken' \subseteq 1 .. f
  <2>1. v_spoken' \subseteq v_spoken \cup {f}
    BY <1>1 DEF V!Speak, V!Pause
  <2>2. 1 .. v_captured \subseteq 1 .. f
    BY <1>1
  <2> QED
    BY <1>1, <2>1, <2>2 DEF VoiceTypes, SpeakerTypes
<1>8. v_silenceHangover' <= v_Hangover
  BY <1>1, <1>2, VoiceAssumed DEF V!Speak, V!Pause
<1>9. Len(v_audioPreRoll') <= v_PreRoll
  <2>1. Len(v_audioPreRoll) <= v_PreRoll
    BY DEF VoiceTypes, SpeakerTypes
  <2> DEFINE kept == Append(v_audioPreRoll, f)
  <2>2. \/ v_audioPreRoll' = <<>> \/ v_audioPreRoll' = v_audioPreRoll
        \/ v_audioPreRoll' = Tail(kept) /\ Len(kept) > v_PreRoll
        \/ v_audioPreRoll' = kept /\ ~(Len(kept) > v_PreRoll)
    BY <1>1 DEF V!Speak, V!Pause
  <2>3. Len(Tail(kept)) = Len(v_audioPreRoll)
    BY <1>2, <1>3, HeadTailProperties
  <2>4. Len(<<>>) = 0
    BY EmptySeq
  <2> HIDE DEF kept
  <2>5. Len(kept) = Len(v_audioPreRoll) + 1
    BY <1>3 DEF kept
  <2> QED
    BY <1>2, <2>1, <2>2, <2>3, <2>4, <2>5, VoiceAssumed
<1>10. SpeakerTypes'
  BY <1>1, <1>7, <1>8, <1>9 DEF SpeakerTypes
<1> QED
  BY <1>5, <1>6, <1>10 DEF VoiceTypes

LEMMA ReceiveTyped == VoiceTypes /\ VoiceInv' /\ V!Receive => VoiceTypes'
<1> SUFFICES ASSUME VoiceTypes, VoiceInv', V!Receive PROVE VoiceTypes'
  OBVIOUS
<1>1. PICK p \in v_net :
        /\ UNCHANGED V!senderVars
        /\ \/ UNCHANGED <<V!dedupVars, V!jitterVars>>
           \/ V!Remember(V!SeqOf(p[1])) /\ V!Push(V!SeqOf(p[1]))
  BY DEF V!Receive
<1> DEFINE s == V!SeqOf(p[1])
<1>2. s \in SentNumbers
  <2>1. p[1] \in 1 .. Len(v_sent)
    BY DEF VoiceTypes, VoiceInv, SpeakerInv
  <2> QED
    BY <2>1 DEF SentNumbers
<1>3. s \in 0 .. v_Wrap - 1
  <2>1. p[1] \in 1 .. Len(v_sent) /\ Len(v_sent) \in Nat
    BY LenProperties DEF VoiceTypes, VoiceInv, SpeakerInv
  <2>2. v_First + p[1] \in Nat /\ v_Wrap \in Nat \ {0}
    BY <2>1, VoiceAssumed
  <2> QED
    BY <2>2 DEF V!SeqOf
<1>4. SentNumbers' = SentNumbers
  BY <1>1 DEF SentNumbers, V!SeqOf, V!senderVars
<1> HIDE DEF s
<1>5. SpeakerTypes'
  BY <1>1 DEF VoiceTypes, SpeakerTypes, V!senderVars
<1>6. CASE UNCHANGED <<V!dedupVars, V!jitterVars>>
  BY <1>4, <1>5, <1>6 DEF VoiceTypes, CheckTypes, BufferTypes, PullTypes, V!dedupVars, V!jitterVars
<1>7. CASE V!Remember(s) /\ V!Push(s)
  <2>1. CheckTypes'
    BY <1>3, <1>7 DEF VoiceTypes, CheckTypes, V!Remember, V!dedupVars
  <2>2. PullTypes'
    BY <1>7 DEF VoiceTypes, PullTypes, V!Push
  <2> DEFINE jump == v_started /\ (V!Ahead(s, v_next) <= -v_ResyncGap \/ V!Ahead(s, v_next) > v_ResyncGap)
             kept == IF jump THEN {} ELSE v_packets
             full == V!Cardinality(kept) >= v_MaxBuffered
             first == V!MinSeq(kept)
             left == IF full THEN kept \ {first} ELSE kept
  <2>3. v_packets' = v_packets \/ v_packets' = left \cup {s}
    BY <1>7 DEF V!Push
  <2>4. v_played' = v_played
    BY <1>7 DEF V!Push
  <2>5. CASE v_packets' = v_packets
    BY <1>4, <1>5, <2>1, <2>2, <2>4, <2>5 DEF VoiceTypes, BufferTypes
  <2>6. CASE v_packets' = left \cup {s}
    <3>1. kept \subseteq v_packets
      OBVIOUS
    <3>2. IsFiniteSet(kept) /\ Cardinality(kept) \in Nat /\ Cardinality(kept) <= v_MaxBuffered
      <4>1. IsFiniteSet(v_packets) /\ Cardinality(v_packets) <= v_MaxBuffered
        BY DEF VoiceTypes, BufferTypes
      <4> HIDE DEF kept
      <4>2. /\ IsFiniteSet(kept) /\ Cardinality(kept) \in Nat /\ Cardinality(v_packets) \in Nat
            /\ Cardinality(kept) <= Cardinality(v_packets)
        BY <3>1, <4>1, FS_Subset, FS_CardinalityType
      <4> QED
        BY <4>1, <4>2, VoiceAssumed
    <3> HIDE DEF kept
    <3>3. left \subseteq kept /\ IsFiniteSet(left) /\ Cardinality(left) \in Nat
          /\ Cardinality(left) + 1 <= v_MaxBuffered
      <4>1. CASE full
        <5>1. kept # {}
          BY <3>2, <4>1, VoiceAssumed, SameCardinality, FS_EmptySet
        <5>2. kept \subseteq 1 .. Newest
          BY <3>1 DEF VoiceTypes, VoiceInv, CheckInv
        <5>3. first \in kept
          BY <5>1, <5>2, OldestPacket, VoiceAssumed
        <5> HIDE DEF first
        <5>4. IsFiniteSet(kept \ {first}) /\ Cardinality(kept \ {first}) = Cardinality(kept) - 1
          BY <3>2, <5>3, FS_RemoveElement
        <5>5. Cardinality(kept \ {first}) \in Nat
          BY <5>4, FS_CardinalityType
        <5> QED
          BY <3>2, <4>1, <5>4, <5>5, VoiceAssumed
      <4>2. CASE ~full
        <5>1. left = kept /\ ~(Cardinality(kept) >= v_MaxBuffered)
          BY <4>2, SameCardinality
        <5> QED
          BY <3>2, <5>1, VoiceAssumed
      <4> QED
        BY <4>1, <4>2
    <3> HIDE DEF left
    <3>4. IsFiniteSet(left \cup {s}) /\ Cardinality(left \cup {s}) \in Nat
          /\ (Cardinality(left \cup {s}) = Cardinality(left)
              \/ Cardinality(left \cup {s}) = Cardinality(left) + 1)
      BY <3>3, FS_AddElement, FS_CardinalityType
    <3>5. Cardinality(v_packets') <= v_MaxBuffered
      BY <2>6, <3>3, <3>4, VoiceAssumed
    <3>6. v_packets' \subseteq SentNumbers
      BY <1>2, <2>6, <3>1, <3>3 DEF VoiceTypes, BufferTypes
    <3>7. BufferTypes'
      BY <1>4, <2>4, <2>6, <3>4, <3>5, <3>6 DEF VoiceTypes, BufferTypes
    <3> QED
      BY <1>5, <2>1, <2>2, <3>7 DEF VoiceTypes
  <2> QED
    BY <2>3, <2>5, <2>6
<1> QED
  BY <1>1, <1>6, <1>7 DEF s

\* A frame that is decoded leaves the buffer, with others or not.
LEMMA FewerPackets ==
    ASSUME VoiceTypes, v_packets' \subseteq v_packets, v_played' \subseteq v_played \cup v_packets,
           UNCHANGED V!senderVars
    PROVE  BufferTypes'
<1>1. IsFiniteSet(v_packets') /\ Cardinality(v_packets') <= Cardinality(v_packets)
      /\ Cardinality(v_packets) \in Nat /\ Cardinality(v_packets') \in Nat
  BY FS_Subset, FS_CardinalityType DEF VoiceTypes, BufferTypes
<1>2. Cardinality(v_packets') <= v_MaxBuffered
  BY <1>1, VoiceAssumed DEF VoiceTypes, BufferTypes
<1>3. SentNumbers' = SentNumbers
  BY DEF SentNumbers, V!SeqOf, V!senderVars
<1> QED
  BY <1>1, <1>2, <1>3 DEF VoiceTypes, BufferTypes

LEMMA Spoken == \A s : V!Speaking(s) \in BOOLEAN
<1> TAKE s
<1> DEFINE frame == v_sent[V!PacketOf(s)]
<1>1. V!Speaking(s) = (frame \in v_spoken)
  BY DEF V!Speaking
<1> HIDE DEF frame
<1>2. CASE frame \in v_spoken
  BY <1>1, <1>2
<1>3. CASE frame \notin v_spoken
  BY <1>1, <1>3
<1> QED
  BY <1>2, <1>3

LEMMA DecodeTyped ==
    ASSUME VoiceTypes, NEW s \in v_packets, V!Decode(s), UNCHANGED <<V!senderVars, v_target>>
    PROVE  BufferTypes' /\ PullTypes'
<1>1. v_packets' \subseteq v_packets /\ v_played' = v_played \cup {s}
  BY DEF V!Decode, V!Plays
<1>2. BufferTypes'
  BY <1>1, FewerPackets
<1>3. v_lastSpeaking' = V!Speaking(s) /\ v_concealRun' = 0
  BY DEF V!Decode
<1>4. v_lastSpeaking' \in BOOLEAN
  BY <1>3, Spoken
<1>5. v_highWater' = 0 \/ v_highWater' = v_highWater + 1
  BY DEF V!Decode
<1> QED
  BY <1>2, <1>3, <1>4, <1>5 DEF VoiceTypes, PullTypes

LEMMA PullTyped == VoiceTypes /\ VoiceInv' /\ V!Pull => VoiceTypes'
<1> SUFFICES ASSUME VoiceTypes, VoiceInv', V!Pull PROVE VoiceTypes'
  OBVIOUS
<1>1. UNCHANGED <<V!senderVars, V!dedupVars, v_target>>
  BY DEF V!Pull
<1>2. SpeakerTypes' /\ CheckTypes'
  BY <1>1 DEF VoiceTypes, SpeakerTypes, CheckTypes, V!senderVars, V!dedupVars
<1>3. v_packets # {} => V!MinSeq(v_packets) \in v_packets
  BY OldestPacket, VoiceAssumed DEF VoiceTypes, VoiceInv, CheckInv
<1>4. ASSUME NEW s \in v_packets, V!Decode(s) PROVE BufferTypes' /\ PullTypes'
  BY <1>1, <1>4, DecodeTyped
<1>5. ASSUME NEW s \in v_packets, V!Resync(s) PROVE BufferTypes' /\ PullTypes'
  <2>1. v_packets' \subseteq v_packets /\ v_played' = v_played \cup {s}
    BY <1>5 DEF V!Resync, V!Plays
  <2>2. v_lastSpeaking' \in BOOLEAN
    BY <1>5, Spoken DEF V!Resync
  <2> QED
    BY <1>1, <1>5, <2>1, <2>2, FewerPackets DEF V!Resync, VoiceTypes, PullTypes
<1>6. ASSUME V!RunDry \/ V!SkipLost(v_next) PROVE BufferTypes' /\ PullTypes'
  <2>1. UNCHANGED <<v_packets, v_played, v_lastSpeaking, v_highWater>>
    BY <1>6 DEF V!RunDry, V!SkipLost
  <2>2. v_concealRun' \in {v_concealRun, 0, v_concealRun + 1}
    BY <1>6 DEF V!RunDry, V!SkipLost
  <2>3. BufferTypes'
    BY <1>1, <2>1, FewerPackets
  <2>4. v_concealRun' \in Nat
    BY <2>2 DEF VoiceTypes, PullTypes
  <2> QED
    BY <1>1, <2>1, <2>3, <2>4 DEF VoiceTypes, PullTypes
<1>7. \/ \E s \in v_packets : V!Decode(s) \/ V!Resync(s)
      \/ V!RunDry \/ V!SkipLost(v_next)
  BY <1>3 DEF V!Pull
<1>8. BufferTypes' /\ PullTypes'
  BY <1>4, <1>5, <1>6, <1>7
<1> QED
  BY <1>2, <1>8 DEF VoiceTypes

LEMMA VoiceTypesStep == VoiceTypes /\ [Next]_all => VoiceTypes'
<1> SUFFICES ASSUME VoiceTypes, V!Next \/ UNCHANGED vVars PROVE VoiceTypes'
  BY DEF Next, Others, all
<1>1. CASE UNCHANGED vVars
  <2>1. SentNumbers' = SentNumbers
    BY <1>1 DEF vVars, SentNumbers, V!SeqOf
  <2>2. UNCHANGED V!vars
    BY <1>1 DEF vVars, V!vars, V!senderVars, V!dedupVars, V!jitterVars
  <2>3. VoiceInv'
    BY <2>2, VoiceStep, VoiceAssumed DEF VoiceTypes
  <2> QED
    BY <1>1, <2>1, <2>3 DEF vVars, VoiceTypes, SpeakerTypes, CheckTypes, BufferTypes, PullTypes
<1>2. CASE V!Next
  <2>1. VoiceInv'
    BY <1>2, VoiceStep, VoiceAssumed DEF VoiceTypes
  <2> QED
    BY <1>2, <2>1, SendTyped, ReceiveTyped, PullTyped DEF V!Next
<1> QED
  BY <1>1, <1>2

-----------------------------------------------------------------------------
(* Types: the chunks of a video                                            *)

\* Of so many numbers one has just so many smaller ones.
LEMMA HasRank ==
    ASSUME NEW n \in Nat, NEW set, set \subseteq 0 .. n
    PROVE  \A k \in 0 .. Cardinality(set) - 1 : \E p \in set : Cardinality({o \in set : o < p}) = k
<1> DEFINE ranked(s) == \A k \in 0 .. Cardinality(s) - 1 :
                          \E p \in s : Cardinality({o \in s : o < p}) = k
           good == {top \in 0 .. n : \A s \in SUBSET (0 .. top) : ranked(s)}
<1>1. 0 \in good
  <2>1. ASSUME NEW s \in SUBSET (0 .. 0) PROVE ranked(s)
    <3>1. s = {} \/ s = {0}
      <4>1. \A x \in s : x = 0
        BY <2>1
      <4> QED
        BY <4>1, Zenon
    <3>2. Cardinality({}) = 0 /\ Cardinality({0}) = 1
      BY FS_EmptySet, FS_Singleton
    <3>3. CASE s = {}
      BY <3>2, <3>3
    <3>4. CASE s = {0}
      <4>1. {o \in s : o < 0} = {}
        BY <3>4
      <4> QED
        BY <3>2, <3>4, <4>1
    <3> QED
      BY <3>1, <3>3, <3>4
  <2> QED
    BY <2>1
<1>2. ASSUME NEW top \in good, top < n PROVE top + 1 \in good
  <2>1. top \in 0 .. n /\ top + 1 \in 0 .. n /\ \A s \in SUBSET (0 .. top) : ranked(s)
    BY <1>2
  <2>2. ASSUME NEW s \in SUBSET (0 .. top + 1) PROVE ranked(s)
    <3> DEFINE last == top + 1
               rest == s \ {last}
    <3>1. rest \in SUBSET (0 .. top)
      BY <2>1, <2>2
    <3>2. ranked(rest)
      BY <2>1, <3>1
    <3>3. CASE last \notin s
      <4>1. rest = s
        BY <3>3
      <4> QED
        BY <3>2, <4>1
    <3>4. CASE last \in s
      <4>1. IsFiniteSet(s)
        <5>1. IsFiniteSet(0 .. last) /\ s \subseteq 0 .. last
          BY <2>1, <2>2, FS_Interval
        <5> HIDE DEF last
        <5> QED
          BY <5>1, FS_Subset
      <4>2. Cardinality(rest) = Cardinality(s) - 1 /\ Cardinality(s) \in Nat /\ IsFiniteSet(rest)
        BY <3>4, <4>1, FS_RemoveElement, FS_CardinalityType
      <4>3. \A o \in rest : o \in Nat /\ o < last
        BY <2>1, <3>1
      <4>4. {o \in s : o < last} = rest
        <5>1. last \in Nat /\ ~(last < last)
          BY <2>1
        <5> HIDE DEF last
        <5> QED
          BY <4>3, <5>1
      <4>5. ASSUME NEW k \in 0 .. Cardinality(s) - 1
            PROVE  \E p \in s : Cardinality({o \in s : o < p}) = k
        <5>1. CASE k = Cardinality(s) - 1
          BY <3>4, <4>2, <4>4, <5>1
        <5>2. CASE k # Cardinality(s) - 1
          <6>1. k \in 0 .. Cardinality(rest) - 1
            BY <4>2, <4>5, <5>2
          <6>2. PICK p \in rest : Cardinality({o \in rest : o < p}) = k
            BY <3>2, <6>1
          <6>3. {o \in s : o < p} = {o \in rest : o < p}
            <7>1. p \in Nat /\ p < last /\ last \in Nat
              BY <2>1, <4>3, <6>2
            <7>2. ~(last < p)
              BY <7>1
            <7> HIDE DEF last
            <7> QED
              BY <7>2
          <6> QED
            BY <6>2, <6>3
        <5> QED
          BY <5>1, <5>2
      <4> QED
        BY <4>5
    <3> QED
      BY <3>3, <3>4
  <2> HIDE DEF ranked
  <2> QED
    BY <2>1, <2>2
<1> HIDE DEF good
<1>3. n \in good
  BY <1>1, <1>2, Chunks!UpTo
<1> QED
  BY <1>3 DEF good

\* What is released of a buffer are chunks of it.
LEMMA InOrderGiven ==
    ASSUME NEW r, NEW m, Buffer(r)
    PROVE  \E n \in Nat : /\ DOMAIN R!InOrder(r, m) = 1 .. n
                          /\ \A i \in 1 .. n : R!InOrder(r, m)[i] \in Given
<1> DEFINE due == {p \in r.pending : p < m}
           rank(p) == R!Cardinality({o \in due : o < p})
           place(i) == CHOOSE p \in due : rank(p) = i - 1
           size == R!Cardinality(due)
<1>1. \A set : R!Cardinality(set) = Cardinality(set)
  BY DEF R!Cardinality, Cardinality
<1>2. R!InOrder(r, m) = [i \in 1 .. size |-> place(i)]
  BY DEF R!InOrder
<1>3. due \subseteq Given /\ due \subseteq 0 .. r_MaxSeq
  BY VideoAssumed DEF Buffer, Given
<1>4. IsFiniteSet(due) /\ size \in Nat
  <2>1. IsFiniteSet(0 .. r_MaxSeq)
    BY VideoAssumed, FS_Interval
  <2>2. IsFiniteSet(due)
    BY <1>3, <2>1, FS_Subset
  <2> HIDE DEF due
  <2> QED
    BY <1>1, <2>2, FS_CardinalityType
<1> HIDE DEF due
<1>5. ASSUME NEW i \in 1 .. size PROVE place(i) \in Given
  <2>1. i - 1 \in 0 .. Cardinality(due) - 1
    BY <1>1, <1>4, <1>5
  <2>2. \E p \in due : Cardinality({o \in due : o < p}) = i - 1
    <3>1. r_MaxSeq \in Nat
      BY VideoAssumed
    <3>2. \A k \in 0 .. Cardinality(due) - 1 : \E p \in due : Cardinality({o \in due : o < p}) = k
      BY <1>3, <3>1, HasRank
    <3> QED
      BY <2>1, <3>2
  <2>3. \E p \in due : rank(p) = i - 1
    BY <1>1, <2>2
  <2> HIDE DEF rank
  <2>4. place(i) \in due
    BY <2>3
  <2> QED
    BY <1>3, <2>4
<1> HIDE DEF size, place
<1> QED
  BY <1>2, <1>4, <1>5

\* What a player queues: a chunk, and why the one before it is missing
Items == [n : Given, cut : R!Cuts]

Fits(q) ==
    \E chunks, skip, hole :
      /\ q = [chunks |-> chunks, skip |-> skip, hole |-> hole]
      /\ chunks \in Seq(Items) /\ Len(chunks) <= r_Cap
      /\ skip \in BOOLEAN /\ hole \in R!Cuts

LEMMA AddFits ==
    ASSUME NEW c \in Given, NEW q, NEW chunks \in Seq(Items), Len(chunks) < r_Cap,
           NEW skip, NEW hole \in R!Cuts, q = [chunks |-> chunks, skip |-> skip, hole |-> hole]
    PROVE  Fits(R!Add(q, c))
<1> DEFINE item == [n |-> c, cut |-> hole]
           added == Append(chunks, item)
<1>1. item \in Items
  BY DEF Items
<1>2. added \in Seq(Items) /\ Len(added) = Len(chunks) + 1 /\ Len(chunks) \in Nat
  <2> HIDE DEF item
  <2> QED
    BY <1>1, AppendProperties, LenProperties
<1>3. Len(added) <= r_Cap
  BY <1>2, VideoAssumed
<1>4. R!Add(q, c) = [chunks |-> added, skip |-> FALSE, hole |-> "none"]
  BY WholeIs DEF R!Add
<1> HIDE DEF added
<1> QED
  BY <1>2, <1>3, <1>4 DEF Fits, R!Cuts

LEMMA PutFits ==
    ASSUME NEW c \in Given, NEW q, Fits(q)
    PROVE  Fits(R!Put(q, c))
<1>1. PICK chunks, skip, hole :
        /\ q = [chunks |-> chunks, skip |-> skip, hole |-> hole]
        /\ chunks \in Seq(Items) /\ Len(chunks) <= r_Cap
        /\ skip \in BOOLEAN /\ hole \in R!Cuts
  BY DEF Fits
<1>2. q.chunks = chunks /\ q.skip = skip /\ q.hole = hole
  BY <1>1, WholeIs
<1>3. CASE q.skip /\ c \notin r_keys
  <2>1. R!Put(q, c) = [chunks |-> chunks, skip |-> skip, hole |-> "thrown"]
    BY <1>2, <1>3 DEF R!Put, R!Throw
  <2> QED
    BY <1>1, <2>1 DEF Fits, R!Cuts
<1>4. CASE ~(q.skip /\ c \notin r_keys) /\ Len(q.chunks) < r_Cap
  <2>1. R!Put(q, c) = R!Add(q, c)
    BY <1>4 DEF R!Put
  <2>2. Len(chunks) < r_Cap
    BY <1>2, <1>4
  <2> QED
    BY <1>1, <2>1, <2>2, AddFits
<1>5. CASE ~(q.skip /\ c \notin r_keys) /\ ~(Len(q.chunks) < r_Cap)
  <2>1. R!Put(q, c) = IF c \in r_keys THEN R!Add(R!GiveUp(q, c), c) ELSE R!GiveUp(q, c)
    BY <1>5 DEF R!Put
  <2> DEFINE waits == c \notin r_keys
  <2>2. R!GiveUp(q, c) = [chunks |-> <<>>, skip |-> waits, hole |-> "thrown"]
    BY DEF R!GiveUp
  <2>3. waits \in BOOLEAN /\ <<>> \in Seq(Items) /\ Len(<<>>) = 0 /\ 0 < r_Cap
    <3>1. waits \in BOOLEAN
      <4>1. CASE c \in r_keys
        BY <4>1
      <4>2. CASE c \notin r_keys
        BY <4>2
      <4> QED
        BY <4>1, <4>2
    <3> QED
      BY <3>1, VideoAssumed
  <2> DEFINE none == R!GiveUp(q, c)
  <2>4. none = [chunks |-> <<>>, skip |-> waits, hole |-> "thrown"]
    BY <2>2
  <2>5. r_Cap \in Nat
    BY VideoAssumed
  <2> HIDE DEF waits, none
  <2>6. Fits(none)
    <3>1. Len(<<>>) <= r_Cap /\ "thrown" \in R!Cuts
      BY <2>5 DEF R!Cuts
    <3> QED
      BY <2>3, <2>4, <3>1, Zenon DEF Fits
  <2>7. Fits(R!GiveUp(q, c))
    BY <2>6 DEF none
  <2>8. Fits(R!Add(R!GiveUp(q, c), c))
    BY <2>2, <2>3, AddFits DEF R!Cuts
  <2> QED
    BY <2>1, <2>7, <2>8
<1> QED
  BY <1>3, <1>4, <1>5

LEMMA DispatchFits ==
    ASSUME NEW n \in Nat, NEW chunks, DOMAIN chunks = 1 .. n,
           \A i \in 1 .. n : chunks[i] \in Given,
           r_queue \in Seq(Items), Len(r_queue) <= r_Cap,
           r_skipToKey \in BOOLEAN, r_hole \in R!Cuts, R!Dispatch(chunks)
    PROVE  /\ r_queue' \in Seq(Items) /\ Len(r_queue') <= r_Cap
           /\ r_skipToKey' \in BOOLEAN /\ r_hole' \in R!Cuts
<1> DEFINE q == [chunks |-> r_queue, skip |-> r_skipToKey, hole |-> r_hole]
           result == R!FoldLeft(R!Put, q, chunks)
<1>1. Fits(q)
  BY DEF Fits
<1>2. r_queue' = result.chunks /\ r_skipToKey' = result.skip /\ r_hole' = result.hole
  BY DEF R!Dispatch
<1> HIDE DEF q
<1>3. Fits(result)
  <2>1. PICK after : Chunks!StepByStep(after, n, q, chunks) /\ Chunks!FoldLeft(Put, q, chunks) = after[n]
    BY Chunks!FoldStepByStep
  <2> DEFINE good == {k \in 0 .. n : Fits(after[k])}
  <2>2. 0 \in good
    BY <1>1, <2>1 DEF Chunks!StepByStep
  <2>3. ASSUME NEW k \in good, k < n PROVE k + 1 \in good
    <3>1. k \in 0 .. n /\ k + 1 \in 1 .. n /\ k + 1 \in 0 .. n /\ Fits(after[k])
      BY <2>3
    <3>2. after[k + 1] = R!Put(after[k], chunks[k + 1])
      BY <2>1, <2>3, <3>1 DEF Chunks!StepByStep, Put
    <3>3. Fits(after[k + 1])
      BY <3>1, <3>2, PutFits
    <3> QED
      BY <3>1, <3>3
  <2> HIDE DEF good
  <2>4. n \in good
    BY <2>2, <2>3, Chunks!UpTo
  <2> QED
    BY <2>1, <2>4, SameFold DEF good
<1> HIDE DEF result
<1>4. PICK some, skip, hole :
        /\ result = [chunks |-> some, skip |-> skip, hole |-> hole]
        /\ some \in Seq(Items) /\ Len(some) <= r_Cap
        /\ skip \in BOOLEAN /\ hole \in R!Cuts
  BY <1>3 DEF Fits
<1> QED
  BY <1>2, <1>4, WholeIs

\* Every chunk asked for is a record of how long and how often
Missing(r) == \A s \in DOMAIN r.missing : r.missing[s] \in R!Miss

TxTypes ==
    /\ r_keys \subseteq Given /\ r_lastKey \in r_keys \cup {0}
    /\ r_ring \in [0 .. r_Slots - 1 -> 0 .. r_MaxSeq] /\ r_watching \in BOOLEAN

PlayerTypes ==
    /\ r_queue \in Seq(Items) /\ Len(r_queue) <= r_Cap
    /\ r_skipToKey \in BOOLEAN /\ r_hole \in R!Cuts
    /\ r_hand \in Items \cup {R!None} /\ r_fed \in 0 .. r_MaxSeq

PumpTypes ==
    /\ r_gone \in BOOLEAN /\ r_oldPump \in {"ended", "waits", "holds"}
    /\ r_reopens \in 0 .. r_MaxReopens

VideoTypes == OrderInv /\ TxTypes /\ Missing(r_rx) /\ PlayerTypes /\ PumpTypes

LEMMA VideoTyped == VideoTypes => R!TypeOK
<1> SUFFICES ASSUME VideoTypes PROVE R!TypeOK
  OBVIOUS
<1> USE VideoAssumed DEF VideoTypes
<1>1. Given = R!Chunks /\ Items = R!Item
  BY DEF Given, R!Chunks, Items, R!Item
<1>2. /\ r_seq \in 0 .. r_MaxSeq /\ r_replay \in Seq(R!Chunks) /\ r_retx \in Seq(R!Chunks)
      /\ r_live \in Seq([n : R!Chunks, free : BOOLEAN])
      /\ r_net \subseteq R!Chunks /\ r_nacks \subseteq R!Chunks
  BY <1>1 DEF OrderInv, ChunksInv
<1>3. /\ r_rx.started \in BOOLEAN /\ r_rx.next \in 1 .. r_MaxSeq + 1 /\ r_rx.high \in 0 .. r_MaxSeq
      /\ r_rx.pending \subseteq R!Chunks
  BY DEF OrderInv, Buffer, R!Chunks
<1>4. r_released \in 0 .. r_MaxSeq
  <2>1. r_released \in Nat /\ (r_released < r_rx.next \/ r_released = 0)
    BY DEF OrderInv, Buffer
  <2> QED
    BY <1>3, <2>1
<1>5. \A s \in DOMAIN r_rx.missing : r_rx.missing[s] \in R!Miss
  BY DEF Missing
<1>6. /\ r_keys \subseteq R!Chunks /\ r_lastKey \in r_keys \cup {0}
      /\ r_ring \in [0 .. r_Slots - 1 -> 0 .. r_MaxSeq] /\ r_watching \in BOOLEAN
  BY <1>1 DEF TxTypes
<1>7. /\ r_queue \in Seq(R!Item) /\ Len(r_queue) <= r_Cap
      /\ r_skipToKey \in BOOLEAN /\ r_hole \in R!Cuts
      /\ r_hand \in R!Item \cup {R!None} /\ r_fed \in 0 .. r_MaxSeq
  BY <1>1 DEF PlayerTypes
<1>8. /\ r_gone \in BOOLEAN /\ r_oldPump \in {"ended", "waits", "holds"}
      /\ r_reopens \in 0 .. r_MaxReopens
  BY DEF PumpTypes
<1> QED
  BY <1>2, <1>3, <1>4, <1>5, <1>6, <1>7, <1>8, Zenon DEF R!TypeOK

LEMMA VideoTypesInit == Init => VideoTypes
<1> SUFFICES ASSUME R!Init PROVE VideoTypes
  BY DEF Init
<1>1. OrderInv
  BY OrderInit
<1>2. TxTypes
  <2>1. r_keys = {} /\ r_lastKey = 0 /\ r_watching = FALSE /\ r_ring = [i \in 0 .. r_Slots - 1 |-> 0]
    BY DEF R!Init
  <2>2. r_watching \in BOOLEAN
    BY <2>1, Zenon
  <2> QED
    BY <2>1, <2>2, VideoAssumed DEF TxTypes
<1>3. Missing(r_rx)
  <2>1. r_rx.missing = <<>>
    BY DEF R!Init, R!NewReorder
  <2> QED
    BY <2>1 DEF Missing
<1>4. PlayerTypes
  <2>1. <<>> \in Seq(Items) /\ Len(<<>>) = 0
    OBVIOUS
  <2>2. /\ r_queue = <<>> /\ r_skipToKey = FALSE /\ r_hole = "none" /\ r_hand = R!None
        /\ r_fed = 0
    BY DEF R!Init
  <2>3. r_skipToKey \in BOOLEAN
    BY <2>2, Zenon
  <2> QED
    BY <2>1, <2>2, <2>3, VideoAssumed DEF PlayerTypes, R!Cuts
<1>5. PumpTypes
  BY VideoAssumed DEF R!Init, PumpTypes
<1> QED
  BY <1>1, <1>2, <1>3, <1>4, <1>5 DEF VideoTypes

LEMMA NewMiss == [age |-> 0, nacks |-> 0, since |-> 0] \in R!Miss
  BY VideoAssumed DEF R!Miss

LEMMA OlderMiss == ASSUME NEW m \in R!Miss PROVE R!Older(m) \in R!Miss
<1> DEFINE age == IF m.age < r_MaxWait THEN m.age + 1 ELSE m.age
           since == IF m.since < r_Retry THEN m.since + 1 ELSE m.since
<1>1. m.age \in 0 .. r_MaxWait /\ m.since \in 0 .. r_Retry
  BY DEF R!Miss
<1>2. age \in 0 .. r_MaxWait /\ since \in 0 .. r_Retry
  BY <1>1, VideoAssumed
<1>3. R!Older(m) = [m EXCEPT !.age = age, !.since = since]
  BY DEF R!Older, R!Miss
<1> HIDE DEF age, since
<1> QED
  BY <1>2, <1>3 DEF R!Miss

LEMMA AskedMiss ==
    ASSUME NEW m \in R!Miss, R!Due(m)
    PROVE  R!Asked(m) \in R!Miss
<1> DEFINE nacks == m.nacks + 1
<1>1. nacks \in 0 .. r_MaxNacks /\ 0 \in 0 .. r_Retry
  BY VideoAssumed DEF R!Due, R!Miss
<1>2. R!Asked(m) = [m EXCEPT !.nacks = nacks, !.since = 0]
  BY DEF R!Asked, R!Miss
<1> HIDE DEF nacks
<1> QED
  BY <1>1, <1>2 DEF R!Miss

LEMMA ReleaseKeepsMissing ==
    ASSUME NEW r, Buffer(r), Missing(r), NEW m, NEW left, left = R!ReleaseUpTo(r, m)
    PROVE  Missing(left)
<1>1. /\ left.missing = [s \in {s \in DOMAIN r.missing : s >= m} |-> r.missing[s]]
  BY DEF R!ReleaseUpTo, Buffer
<1> QED
  BY <1>1 DEF Missing

LEMMA StoreKeepsMissing ==
    ASSUME Buffer(r_rx), Missing(r_rx), NEW s, NEW r, r = R!Store(r_rx, s)
    PROVE  Missing(r)
<1> DEFINE at == IF ~r_rx.started \/ s > r_rx.next + r_MaxGap THEN R!StartAt(s) ELSE r_rx
           gap == (at.high + 1)..(s - 1)
           lacking == (DOMAIN at.missing \ {s}) \cup gap
           fresh == [age |-> 0, nacks |-> 0, since |-> 0]
<1>1. DOMAIN at = {"started", "next", "high", "pending", "missing"} /\ Missing(at)
  <2>1. CASE at = R!StartAt(s)
    <3>1. DOMAIN at = {"started", "next", "high", "pending", "missing"} /\ at.missing = <<>>
      BY <2>1 DEF R!StartAt
    <3> HIDE DEF at
    <3> QED
      BY <3>1 DEF Missing
  <2>2. CASE at = r_rx
    BY <2>2 DEF Buffer
  <2> QED
    BY <2>1, <2>2
<1>2. r.missing = [g \in lacking |-> IF g \in gap THEN fresh ELSE at.missing[g]]
  BY <1>1 DEF R!Store
<1>3. fresh \in R!Miss
  BY NewMiss
<1> HIDE DEF at, gap, fresh
<1>4. ASSUME NEW g \in lacking PROVE r.missing[g] \in R!Miss
  <2>1. CASE g \in gap
    BY <1>2, <1>3, <2>1
  <2>2. CASE g \notin gap
    BY <1>1, <1>2, <2>2 DEF Missing
  <2> QED
    BY <2>1, <2>2
<1> HIDE DEF lacking
<1> QED
  BY <1>2, <1>4 DEF Missing

\* What the viewer releases is put into the queue.
LEMMA DispatchTyped ==
    ASSUME PlayerTypes, NEW r, Buffer(r), NEW m, R!Dispatch(R!InOrder(r, m))
    PROVE  PlayerTypes'
<1>1. PICK n \in Nat : /\ DOMAIN R!InOrder(r, m) = 1 .. n
                       /\ \A i \in 1 .. n : R!InOrder(r, m)[i] \in Given
  BY InOrderGiven
<1>2. /\ r_queue' \in Seq(Items) /\ Len(r_queue') <= r_Cap
      /\ r_skipToKey' \in BOOLEAN /\ r_hole' \in R!Cuts
  BY <1>1, DispatchFits DEF PlayerTypes
<1>3. UNCHANGED <<r_hand, r_fed>>
  BY DEF R!Dispatch
<1> QED
  BY <1>2, <1>3 DEF PlayerTypes

LEMMA CaptureTyped == VideoTypes /\ R!Capture => TxTypes'
<1> SUFFICES ASSUME VideoTypes, R!Capture PROVE TxTypes'
  OBVIOUS
<1> DEFINE n == r_seq + 1
<1>1. n \in Given /\ n % r_Slots \in 0 .. r_Slots - 1 /\ n \in 0 .. r_MaxSeq
  <2>1. r_seq \in 0 .. r_MaxSeq /\ r_seq < r_MaxSeq
    BY DEF VideoTypes, OrderInv, ChunksInv, R!Capture
  <2> QED
    BY <2>1, VideoAssumed DEF Given
<1>2. /\ r_ring' = [r_ring EXCEPT ![n % r_Slots] = n]
      /\ \/ r_keys' = r_keys \cup {n} /\ r_lastKey' = n
         \/ r_keys' = r_keys /\ r_lastKey' = r_lastKey
      /\ UNCHANGED r_watching
  BY DEF R!Capture
<1> HIDE DEF n
<1>3. r_ring' \in [0 .. r_Slots - 1 -> 0 .. r_MaxSeq]
  BY <1>1, <1>2 DEF VideoTypes, TxTypes
<1>4. r_keys' \subseteq Given /\ r_lastKey' \in r_keys' \cup {0}
  BY <1>1, <1>2 DEF VideoTypes, TxTypes
<1> QED
  BY <1>2, <1>3, <1>4 DEF VideoTypes, TxTypes

LEMMA PumpTypesStep == PumpTypes /\ (R!Next \/ UNCHANGED rVars) => PumpTypes'
<1> SUFFICES ASSUME PumpTypes, R!Next \/ UNCHANGED rVars PROVE PumpTypes'
  OBVIOUS
<1> USE DEF R!player, R!players
<1>1. CASE R!Exit \/ R!Reopen
  <2>1. r_reopens' = r_reopens + 1 /\ r_reopens < r_MaxReopens /\ r_oldPump' = "waits"
        /\ r_gone' \in BOOLEAN
    BY <1>1 DEF R!Exit, R!Reopen, R!Replaced
  <2> QED
    BY <2>1, VideoAssumed DEF PumpTypes
<1>2. CASE R!FallBack \/ R!OldPumpTakes \/ R!OldPumpCatchesUp \/ R!OldPumpWritesOrEnds
  <2>1. /\ r_reopens' = r_reopens /\ r_oldPump' \in {"ended", "waits", "holds", r_oldPump}
        /\ r_gone' \in {FALSE, r_gone}
    BY <1>2 DEF R!FallBack, R!Replaced, R!OldPumpTakes, R!OldPumpCatchesUp, R!OldPumpWritesOrEnds
  <2> QED
    BY <2>1 DEF PumpTypes
<1>3. CASE R!OnData \/ R!Loop
  <2>1. UNCHANGED <<r_gone, r_oldPump, r_reopens>>
    BY <1>3 DEF R!OnData, R!Loop, R!Dispatch
  <2> QED
    BY <2>1 DEF PumpTypes
<1>4. CASE \/ R!Capture \/ R!OnWatch \/ R!EnqueueReplay \/ R!ExpireWatcher \/ R!OnNack
           \/ R!LoseNack \/ R!SendRetx \/ R!SendLive \/ R!DropStale \/ R!LoseChunk
           \/ R!Take \/ R!Write \/ R!CatchUp \/ UNCHANGED rVars
  <2>1. UNCHANGED <<r_gone, r_oldPump, r_reopens>>
    BY <1>4 DEF R!Capture, R!OnWatch, R!EnqueueReplay, R!ExpireWatcher, R!OnNack, R!LoseNack,
                R!SendRetx, R!SendLive, R!DropStale, R!LoseChunk, R!Take, R!Write, R!CatchUp, rVars
  <2> QED
    BY <2>1 DEF PumpTypes
<1> QED
  BY <1>1, <1>2, <1>3, <1>4 DEF R!Next

LEMMA VideoTypesStep == VideoTypes /\ [Next]_all => VideoTypes'
<1> SUFFICES ASSUME VideoTypes, R!Next \/ UNCHANGED rVars PROVE VideoTypes'
  BY DEF Next, Others, all
<1>1. OrderInv' /\ PumpTypes'
  <2>1. [R!Next]_(R!vars)
    BY DEF rVars, R!vars, R!tx, R!pacer, R!player, R!players
  <2>2. PumpTypes'
    BY PumpTypesStep DEF VideoTypes
  <2> QED
    BY <2>1, <2>2, OrderStep, VideoAssumed DEF VideoTypes
<1> USE DEF R!tx, R!pacer, R!player
<1>2. CASE R!Capture
  <2>1. TxTypes'
    BY <1>2, CaptureTyped
  <2>2. UNCHANGED <<r_rx, r_queue, r_skipToKey, r_hole, r_hand, r_fed>>
    BY <1>2 DEF R!Capture
  <2> QED
    BY <1>1, <2>1, <2>2 DEF VideoTypes, Missing, PlayerTypes
<1>3. CASE \/ R!OnWatch \/ R!EnqueueReplay \/ R!ExpireWatcher \/ R!OnNack \/ R!LoseNack
           \/ R!SendRetx \/ R!SendLive \/ R!DropStale \/ R!LoseChunk \/ UNCHANGED rVars
           \/ R!OldPumpWritesOrEnds
  <2>1. /\ UNCHANGED <<r_keys, r_lastKey, r_ring, r_rx, r_queue, r_skipToKey, r_hole, r_hand, r_fed>>
        /\ r_watching' \in {TRUE, FALSE, r_watching}
    BY <1>3 DEF R!OnWatch, R!EnqueueReplay, R!ExpireWatcher, R!OnNack, R!LoseNack, R!SendRetx,
                R!SendLive, R!DropStale, R!LoseChunk, R!OldPumpWritesOrEnds, rVars
  <2>2. r_watching' \in BOOLEAN
    BY <2>1 DEF VideoTypes, TxTypes
  <2> QED
    BY <1>1, <2>1, <2>2 DEF VideoTypes, TxTypes, Missing, PlayerTypes
<1>4. CASE R!OnData
  <2>1. PICK s \in r_net :
          IF R!TooLate(r_rx, s) \/ s \in r_rx.pending
          THEN UNCHANGED <<r_rx, R!player>>
          ELSE /\ r_rx' = R!ReleaseUpTo(R!Store(r_rx, s), R!Drain(R!Store(r_rx, s)))
               /\ R!Dispatch(R!InOrder(R!Store(r_rx, s), R!Drain(R!Store(r_rx, s))))
    BY <1>4 DEF R!OnData
  <2>2. TxTypes' /\ s \in Given
    <3>1. UNCHANGED <<r_keys, r_lastKey, r_ring, r_watching>>
      BY <1>4 DEF R!OnData
    <3>2. s \in Given
      BY DEF VideoTypes, OrderInv, ChunksInv
    <3> QED
      BY <3>1, <3>2 DEF VideoTypes, TxTypes
  <2>3. CASE UNCHANGED <<r_rx, R!player>>
    <3>1. UNCHANGED <<r_rx, r_queue, r_skipToKey, r_hole, r_hand, r_fed>>
      BY <2>3
    <3> QED
      BY <1>1, <2>2, <3>1 DEF VideoTypes, Missing, PlayerTypes
  <2>4. ASSUME NEW r, NEW m, r = R!Store(r_rx, s), m = R!Drain(r), ~R!TooLate(r_rx, s),
               r_rx' = R!ReleaseUpTo(r, m), R!Dispatch(R!InOrder(r, m))
        PROVE  VideoTypes'
    <3>1. Buffer(r_rx) /\ Missing(r_rx) /\ PlayerTypes
      BY DEF VideoTypes, OrderInv
    <3>2. Buffer(r)
      BY <2>2, <2>4, <3>1, StoreKeepsBuffer, VideoAssumed
    <3>3. Missing(r)
      BY <2>4, <3>1, StoreKeepsMissing
    <3>4. PlayerTypes'
      BY <2>4, <3>1, <3>2, DispatchTyped
    <3> DEFINE left == r_rx'
    <3>5. Missing(left)
      <4>1. left = R!ReleaseUpTo(r, m)
        BY <2>4
      <4> HIDE DEF left
      <4> QED
        BY <3>2, <3>3, <4>1, ReleaseKeepsMissing
    <3>6. Missing(r_rx)'
      BY <3>5 DEF Missing
    <3> QED
      BY <1>1, <2>2, <3>4, <3>6 DEF VideoTypes
  <2> QED
    BY <2>1, <2>3, <2>4
<1>5. CASE R!Loop
  <2> DEFINE r == [r_rx EXCEPT !.missing = [s \in DOMAIN @ |-> R!Older(@[s])]]
             m == R!Skip(r)
             left == R!ReleaseUpTo(r, m)
             due == {s \in DOMAIN left.missing : R!Due(left.missing[s])}
  <2>1. Buffer(r_rx) /\ Missing(r_rx) /\ PlayerTypes
    BY DEF VideoTypes, OrderInv
  <2>2. Buffer(r) /\ Missing(r)
    <3>1. /\ DOMAIN r = DOMAIN r_rx /\ r.started = r_rx.started /\ r.next = r_rx.next
          /\ r.high = r_rx.high /\ r.pending = r_rx.pending
          /\ r.missing = [s \in DOMAIN r_rx.missing |-> R!Older(r_rx.missing[s])]
      BY <2>1 DEF Buffer
    <3> HIDE DEF r
    <3>2. Buffer(r)
      BY <2>1, <3>1 DEF Buffer
    <3>3. \A s \in DOMAIN r_rx.missing : R!Older(r_rx.missing[s]) \in R!Miss
      BY <2>1, OlderMiss DEF Missing
    <3> QED
      BY <3>1, <3>2, <3>3 DEF Missing
  <2>3. /\ R!Dispatch(R!InOrder(r, m)) /\ r_rx' = R!Ask(left, due)
        /\ UNCHANGED <<r_keys, r_lastKey, r_ring, r_watching>>
    BY <1>5 DEF R!Loop
  <2> HIDE DEF r
  <2>4. PlayerTypes'
    BY <2>1, <2>2, <2>3, DispatchTyped
  <2>5. m \in r.next .. r.high + 1
    BY <2>2, StopsInside
  <2> HIDE DEF m
  <2>6. Buffer(left) /\ Missing(left)
    BY <2>2, <2>5, ReleaseKeepsBuffer, ReleaseKeepsMissing
  <2> HIDE DEF left
  <2>7. r_rx'.missing = [s \in DOMAIN left.missing |->
                           IF s \in due THEN R!Asked(left.missing[s]) ELSE left.missing[s]]
    BY <2>3, <2>6 DEF R!Ask, Buffer
  <2>8. ASSUME NEW s \in DOMAIN left.missing PROVE r_rx'.missing[s] \in R!Miss
    <3>1. left.missing[s] \in R!Miss /\ (s \in due => R!Due(left.missing[s]))
      BY <2>6 DEF Missing
    <3>2. CASE s \in due
      <4> DEFINE old == left.missing[s]
      <4>1. r_rx'.missing[s] = R!Asked(old)
        BY <2>7, <3>2
      <4>2. old \in R!Miss /\ R!Due(old)
        BY <3>1, <3>2
      <4> HIDE DEF old
      <4> QED
        BY <4>1, <4>2, AskedMiss
    <3>3. CASE s \notin due
      BY <2>7, <3>1, <3>3
    <3> QED
      BY <3>2, <3>3
  <2> HIDE DEF due
  <2>9. Missing(r_rx)'
    BY <2>7, <2>8 DEF Missing
  <2> QED
    BY <1>1, <2>3, <2>4, <2>9 DEF VideoTypes, TxTypes
<1>6. CASE R!Take
  <2>1. /\ UNCHANGED <<r_keys, r_lastKey, r_ring, r_watching, r_rx, r_skipToKey, r_hole, r_fed>>
        /\ r_queue # <<>> /\ r_hand' = Head(r_queue) /\ r_queue' = Tail(r_queue)
    BY <1>6 DEF R!Take
  <2>2. r_queue \in Seq(Items) /\ Len(r_queue) <= r_Cap
    BY DEF VideoTypes, PlayerTypes
  <2>3. /\ r_queue' \in Seq(Items) /\ r_hand' \in Items /\ Len(r_queue') = Len(r_queue) - 1
        /\ Len(r_queue) \in Nat
    BY <2>1, <2>2, HeadTailProperties, LenProperties
  <2>4. Len(r_queue') <= r_Cap
    BY <2>2, <2>3, VideoAssumed
  <2> QED
    BY <1>1, <2>1, <2>3, <2>4 DEF VideoTypes, TxTypes, Missing, PlayerTypes
<1>7. CASE R!Write \/ R!Exit
  <2>1. /\ UNCHANGED <<r_keys, r_lastKey, r_ring, r_watching, r_rx, r_queue, r_skipToKey, r_hole>>
        /\ r_hand' = R!None /\ (r_fed' = r_fed \/ (r_hand # R!None /\ r_fed' = r_hand.n))
    BY <1>7 DEF R!Write, R!Exit
  <2>2. r_fed' \in 0 .. r_MaxSeq
    <3>1. CASE r_fed' = r_fed
      BY <3>1 DEF VideoTypes, PlayerTypes
    <3>2. CASE r_hand # R!None /\ r_fed' = r_hand.n
      <4>1. r_hand \in Items
        BY <3>2 DEF VideoTypes, PlayerTypes
      <4>2. r_hand.n \in Given
        BY <4>1 DEF Items
      <4> QED
        BY <3>2, <4>2, VideoAssumed DEF Given
    <3> QED
      BY <2>1, <3>1, <3>2
  <2> QED
    BY <1>1, <2>1, <2>2 DEF VideoTypes, TxTypes, Missing, PlayerTypes
<1>8. CASE R!CatchUp \/ R!OldPumpCatchesUp
  <2>1. /\ UNCHANGED <<r_keys, r_lastKey, r_ring, r_watching, r_rx, r_fed>>
        /\ r_hand' \in {r_hand, R!None} /\ r_queue' = <<>>
        /\ r_skipToKey' = TRUE /\ r_hole' = "thrown"
    BY <1>8 DEF R!CatchUp, R!OldPumpCatchesUp
  <2>2. <<>> \in Seq(Items) /\ Len(<<>>) = 0
    OBVIOUS
  <2>3. PlayerTypes'
    BY <2>1, <2>2, VideoAssumed DEF VideoTypes, PlayerTypes, R!Cuts
  <2> QED
    BY <1>1, <2>1, <2>3 DEF VideoTypes, TxTypes, Missing
<1>9. CASE R!FallBack \/ R!Reopen
  <2>1. /\ UNCHANGED <<r_keys, r_lastKey, r_ring, r_watching>>
        /\ r_queue' = R!WithoutOneBefore(r_queue) /\ r_hole' = "thrown"
        /\ r_hand' = R!None /\ r_skipToKey' = TRUE /\ r_fed' = 0
        /\ r_rx' = [r_rx EXCEPT !.started = FALSE, !.pending = {}, !.missing = <<>>]
    BY <1>9 DEF R!FallBack, R!Reopen, R!Replaced
  <2>2. r_rx'.missing = <<>>
    BY <2>1 DEF VideoTypes, OrderInv, Buffer
  <2>3. Missing(r_rx)'
    BY <2>2 DEF Missing
  <2>4. r_queue' \in Seq(Items) /\ Len(r_queue') = Len(r_queue)
    <3>1. r_queue \in Seq([n : Given, cut : R!Cuts])
      BY DEF VideoTypes, PlayerTypes, Items
    <3>2. r_queue' = R!WithoutOneBefore(r_queue)
      BY <2>1
    <3> QED
      BY <3>1, <3>2, WithoutOneKeeps DEF Items
  <2>5. PlayerTypes'
    BY <2>1, <2>4, VideoAssumed DEF VideoTypes, PlayerTypes, R!Cuts
  <2> QED
    BY <1>1, <2>1, <2>3, <2>5 DEF VideoTypes, TxTypes
<1>10. CASE R!OldPumpTakes
  <2>1. /\ UNCHANGED <<r_keys, r_lastKey, r_ring, r_watching, r_rx, r_skipToKey, r_hand, r_fed>>
        /\ r_queue # <<>> /\ r_queue' = R!WithoutOneBefore(Tail(r_queue))
        /\ r_hole' \in {r_hole, R!After(r_hole)}
    BY <1>10 DEF R!OldPumpTakes
  <2>2. r_queue \in Seq([n : Given, cut : R!Cuts]) /\ Len(r_queue) <= r_Cap
    BY DEF VideoTypes, PlayerTypes, Items
  <2> DEFINE rest == Tail(r_queue)
  <2>3. /\ rest \in Seq([n : Given, cut : R!Cuts]) /\ Len(rest) = Len(r_queue) - 1
        /\ Len(r_queue) \in Nat
    BY <2>1, <2>2, HeadTailProperties, LenProperties
  <2>4. r_queue' = R!WithoutOneBefore(rest)
    BY <2>1
  <2> HIDE DEF rest
  <2>5. r_queue' \in Seq(Items) /\ Len(r_queue') = Len(rest)
    BY <2>3, <2>4, WithoutOneKeeps DEF Items
  <2>6. Len(r_queue') <= r_Cap
    BY <2>2, <2>3, <2>5, VideoAssumed
  <2>7. r_hole' \in R!Cuts
    BY <2>1 DEF VideoTypes, PlayerTypes, R!After, R!Cuts
  <2>8. PlayerTypes'
    BY <2>1, <2>5, <2>6, <2>7 DEF VideoTypes, PlayerTypes
  <2> QED
    BY <1>1, <2>1, <2>8 DEF VideoTypes, TxTypes, Missing
<1> QED
  BY <1>2, <1>3, <1>4, <1>5, <1>6, <1>7, <1>8, <1>9, <1>10 DEF R!Next

-----------------------------------------------------------------------------
(* Types: every component                                                  *)

MediaTypes ==
    /\ VoiceTypes /\ SwitchTypes /\ SourceTypes /\ KeyTypes /\ VideoTypes /\ QueueTypes
    /\ DeviceInv /\ StreamInv /\ OwnedInv /\ DeviceBounds
    /\ ShareInv /\ SharerTypes /\ ViewerTypes
    /\ EncoderInv

\* Every component of MCMedia keeps to the states the code can be in, whatever is lost, closed,
\* unplugged, muted or asked for again meanwhile: among others no queue, ring or buffer outgrows
\* its limit (trySendSignal, dispatchLocked, Push), no number leaves the range it wraps in
\* (SendAudio), and every stream, watcher, share and encoder referred to is one that was made.
THEOREM MediaStaysTyped == Spec => []TypeOK
<1>1. Init => MediaTypes
  <2>1. Init => VoiceTypes /\ SwitchTypes /\ SourceTypes /\ KeyTypes /\ VideoTypes /\ QueueTypes
    BY VoiceTypesInit, SwitchTypesInit, SourceTypesInit, KeyTypesInit, VideoTypesInit, QueueTypesInit
  <2>2. Init => DeviceInv /\ StreamInv /\ OwnedInv /\ DeviceBounds
    BY DeviceInit, StreamInit, OwnedInit, DeviceBoundsInit
  <2>3. Init => ShareInv /\ SharerTypes /\ ViewerTypes /\ EncoderInv
    BY ShareInit, ShareTypesInit, EncoderInit
  <2> QED
    BY <2>1, <2>2, <2>3 DEF MediaTypes
<1>2. MediaTypes /\ [Next]_all => MediaTypes'
  <2> SUFFICES ASSUME MediaTypes, [Next]_all PROVE MediaTypes'
    OBVIOUS
  <2>1. VoiceTypes' /\ SwitchTypes' /\ SourceTypes' /\ KeyTypes' /\ VideoTypes' /\ QueueTypes'
    BY VoiceTypesStep, SwitchTypesStep, SourceTypesStep, KeyTypesStep, VideoTypesStep, QueueTypesStep
    DEF MediaTypes
  <2>2. DeviceInv' /\ StreamInv' /\ OwnedInv' /\ DeviceBounds'
    BY DeviceStep, StreamStep, OwnedStep, DeviceBoundsStep DEF MediaTypes
  <2>3. ShareInv' /\ SharerTypes' /\ ViewerTypes' /\ EncoderInv'
    BY ShareStep, SharerTypesStep, ViewerTypesStep, EncoderStep DEF MediaTypes
  <2> QED
    BY <2>1, <2>2, <2>3 DEF MediaTypes
<1>3. MediaTypes => TypeOK
  BY VoiceTyped, SwitchTyped, SourceTyped, KeyTyped, VideoTyped, QueueTyped, DeviceTyped, ShareTyped
  DEF MediaTypes, TypeOK, EncoderInv
<1> QED
  BY <1>1, <1>2, <1>3, PTL DEF Spec
=============================================================================
