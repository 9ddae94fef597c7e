------------------------------ MODULE AppProofs ------------------------------
(***************************************************************************)
(* Theorems about the components of MCApp, for every value of the          *)
(* constants it leaves open and every order of the steps of each.          *)
(***************************************************************************)
EXTENDS MCApp, Integers, FiniteSetTheorems, SequenceTheorems, WellFoundedInduction, TLAPS

-----------------------------------------------------------------------------
(* The fields of the relay dialog                                          *)

\* A selection may lie anywhere, but has an end when it has a beginning.
AddressInv ==
    /\ r_length \in [R!Fields -> R!Lengths]
    /\ r_Cursor \in [R!Fields -> R!Lengths]
    /\ r_active \in 0 .. 4
    /\ r_selStart \in Int /\ r_selEnd \in Int
    /\ r_selStart >= -1 /\ r_selEnd >= -1
    /\ r_selStart # -1 => r_selEnd # -1
    /\ R!CursorsStayInside

\* What is left of a text when a range is deleted is not longer than it was,
\* and the cursor is put inside.
LEMMA CutDown ==
    ASSUME AddressInv, NEW f \in R!Fields, R!HasSelection(f)
    PROVE  /\ R!Deleted(f).n \in 0 .. r_length[f]
           /\ R!Deleted(f).at \in 0 .. R!Deleted(f).n
<1> DEFINE n == r_length[f]
           from == R!Lower(R!Lower(r_selStart, r_selEnd), n)
           to == R!Lower(R!Upper(r_selStart, r_selEnd), n)
<1>1. n \in Nat /\ r_selStart \in Nat /\ r_selEnd \in Nat
  BY MCAppAssumption DEF R!RelayDialogAssumption, AddressInv, R!Lengths, R!HasSelection
<1>2. R!Deleted(f).n = n - (to - from) /\ R!Deleted(f).at = from
  BY DEF R!Deleted
<1>3. from \in 0 .. to /\ to \in 0 .. n
  BY <1>1 DEF R!Lower, R!Upper
<1> HIDE DEF n, from, to
<1>4. n - (to - from) \in 0 .. n /\ from \in 0 .. (n - (to - from))
  BY <1>1, <1>3
<1> QED
  BY <1>2, <1>4 DEF n

LEMMA AddressInit == Init => AddressInv
<1> SUFFICES ASSUME R!Init PROVE AddressInv
  BY DEF Init
<1> QED
  BY MCAppAssumption
     DEF R!RelayDialogAssumption, R!Init, AddressInv, R!Fields, R!Lengths, R!CursorsStayInside

LEMMA AddressStep == AddressInv /\ [Next]_all => AddressInv'
<1> SUFFICES ASSUME AddressInv, [Next]_all PROVE AddressInv'
  OBVIOUS
<1> USE MCAppAssumption
    DEF R!RelayDialogAssumption, AddressInv, R!CursorsStayInside, R!Lengths, R!Fields
<1>1. CASE UNCHANGED rVars
  BY <1>1 DEF rVars
<1>2. CASE R!Open
  BY <1>2 DEF R!Open
<1>3. CASE R!Close \/ R!Move
  BY <1>3 DEF R!Close, R!Move, R!Act, R!ClearSelection, R!selection, R!texts
<1>4. CASE R!MoveCursor
  BY <1>4 DEF R!MoveCursor, R!Act, R!ClearSelection
<1>5. CASE R!SelectAll
  BY <1>5 DEF R!SelectAll, R!Act
<1>6. CASE R!Click
  BY <1>6 DEF R!Click, R!Act
<1>7. CASE R!Insert
  <2>1. PICK f \in R!Fields, n \in 1 .. r_MaxLen, typed \in BOOLEAN :
          LET gone == R!HasSelection(f)
              base == IF gone THEN R!Deleted(f).n ELSE r_length[f]
              at == IF gone THEN R!Deleted(f).at ELSE r_Cursor[f]
          IN  /\ base + n <= r_MaxLen
              /\ typed => n = 1 /\ f = r_active
              /\ r_length' = [r_length EXCEPT ![f] = base + n]
              /\ r_Cursor' = [r_Cursor EXCEPT ![f] = at + n]
              /\ r_active' = f
              /\ IF typed /\ ~gone THEN UNCHANGED R!selection ELSE R!ClearSelection
    BY <1>7 DEF R!Insert
  <2> DEFINE base == IF R!HasSelection(f) THEN R!Deleted(f).n ELSE r_length[f]
             at == IF R!HasSelection(f) THEN R!Deleted(f).at ELSE r_Cursor[f]
  <2>2. base \in Nat /\ at \in 0 .. base
    BY CutDown
  <2>3. /\ base + n <= r_MaxLen
        /\ r_length' = [r_length EXCEPT ![f] = base + n]
        /\ r_Cursor' = [r_Cursor EXCEPT ![f] = at + n]
        /\ r_active' = f
        /\ UNCHANGED R!selection \/ R!ClearSelection
    BY <2>1
  <2> HIDE DEF base, at
  <2> QED
    BY <2>2, <2>3 DEF R!selection, R!ClearSelection
<1>8. CASE R!Delete
  <2>1. CASE R!HasSelection(r_active)
    <3>1. /\ r_active \in R!Fields
          /\ r_length' = [r_length EXCEPT ![r_active] = R!Deleted(r_active).n]
          /\ r_Cursor' = [r_Cursor EXCEPT ![r_active] = R!Deleted(r_active).at]
          /\ R!ClearSelection /\ UNCHANGED r_active
      BY <1>8, <2>1 DEF R!Delete
    <3>2. /\ R!Deleted(r_active).n \in 0 .. r_length[r_active]
          /\ R!Deleted(r_active).at \in 0 .. R!Deleted(r_active).n
      BY <2>1, <3>1, CutDown
    <3> QED
      BY <3>1, <3>2 DEF R!ClearSelection
  <2>2. CASE ~R!HasSelection(r_active)
    BY <1>8, <2>2 DEF R!Delete, R!selection, R!Lower, R!Upper
  <2> QED
    BY <2>1, <2>2
<1>9. CASE R!Cut
  <2>1. CASE R!HasSelection(r_active)
    <3>1. /\ r_active \in R!Fields
          /\ r_length' = [r_length EXCEPT ![r_active] = R!Deleted(r_active).n]
          /\ r_Cursor' = [r_Cursor EXCEPT ![r_active] = R!Deleted(r_active).at]
          /\ R!ClearSelection /\ UNCHANGED r_active
      BY <1>9, <2>1 DEF R!Cut
    <3>2. /\ R!Deleted(r_active).n \in 0 .. r_length[r_active]
          /\ R!Deleted(r_active).at \in 0 .. R!Deleted(r_active).n
      BY <2>1, <3>1, CutDown
    <3> QED
      BY <3>1, <3>2 DEF R!ClearSelection
  <2>2. CASE ~R!HasSelection(r_active)
    BY <1>9, <2>2 DEF R!Cut, R!SetValue, R!selection
  <2> QED
    BY <2>1, <2>2
<1>10. CASE R!Clear
  BY <1>10 DEF R!Clear, R!SetValue, R!ClearSelection
<1>11. CASE R!Save
  BY <1>11 DEF R!Save, R!ClearSelection
<1>12. R!Next \/ UNCHANGED rVars
  BY DEF Next, Others, all
<1> QED
  BY <1>1, <1>2, <1>3, <1>4, <1>5, <1>6, <1>7, <1>8, <1>9, <1>10, <1>11, <1>12 DEF R!Next

-----------------------------------------------------------------------------
(* The chat line                                                           *)

\* While no line of the history is shown, the draft is in the line; while
\* one is, it is kept aside.
LineInv ==
    /\ i_chatHistory \in Seq(i_Texts)
    /\ i_value \in i_Texts \cup {I!None}
    /\ i_savedCurrentChat \in i_Texts \cup {I!None}
    /\ i_historyIndex \in 0 .. Len(i_chatHistory)
    /\ ~i_refocused => i_draft = IF I!AtDraft THEN i_value ELSE i_savedCurrentChat

LEMMA LineInit == Init => LineInv
<1> SUFFICES ASSUME I!Init PROVE LineInv
  BY DEF Init
<1>1. /\ i_chatHistory = <<>> /\ i_historyIndex = 0
      /\ i_value = I!None /\ i_draft = I!None /\ i_savedCurrentChat = I!None
  BY DEF I!Init
<1>2. i_chatHistory \in Seq(i_Texts) /\ Len(i_chatHistory) = 0
  BY <1>1, EmptySeq
<1> QED
  BY <1>1, <1>2 DEF LineInv, I!AtDraft

LEMMA LineStep == LineInv /\ [Next]_all => LineInv'
<1> SUFFICES ASSUME LineInv, [Next]_all PROVE LineInv'
  OBVIOUS
<1> USE DEF LineInv, I!AtDraft
<1>1. CASE UNCHANGED iVars
  BY <1>1 DEF iVars
<1>2. CASE I!Focus
  <2>1. /\ i_historyIndex' = Len(i_chatHistory) /\ i_chatHistory' = i_chatHistory
        /\ i_savedCurrentChat' = I!None
        /\ i_refocused' = (i_refocused \/ i_historyIndex # Len(i_chatHistory))
    BY <1>2 DEF I!Focus
  <2>2. \E pasted \in {i_value} \cup i_Texts :
          i_value' = pasted /\ i_draft' = IF pasted = i_value THEN i_draft ELSE pasted
    BY <1>2 DEF I!Focus
  <2>3. ~i_refocused' => ~i_refocused /\ i_historyIndex = Len(i_chatHistory)
    BY <2>1, Zenon
  <2> QED
    BY <2>1, <2>2, <2>3
<1>3. CASE I!Unfocus \/ I!Arrives
  BY <1>3 DEF I!Unfocus, I!Arrives, I!Act
<1>4. CASE I!Type
  BY <1>4 DEF I!Type, I!Act
<1>5. CASE I!HistoryUp
  BY <1>5 DEF I!HistoryUp, I!Act
<1>6. CASE I!HistoryDown
  BY <1>6 DEF I!HistoryDown, I!Act
<1>7. CASE I!SendCurrentChat
  <2> DEFINE said == Append(i_chatHistory, i_value)
  <2>1. i_value \in i_Texts
    BY <1>7 DEF I!SendCurrentChat
  <2>2. said \in Seq(i_Texts) /\ Len(said) = Len(i_chatHistory) + 1
    BY <2>1, AppendProperties
  <2>3. i_chatHistory' = IF Len(said) > i_MaxHistory
                         THEN SubSeq(said, Len(said) - i_Kept + 1, Len(said)) ELSE said
    BY <1>7 DEF I!SendCurrentChat
  <2>4. i_chatHistory' \in Seq(i_Texts)
    <3> HIDE DEF said
    <3>1. CASE Len(said) > i_MaxHistory
      <4>1. /\ Len(said) - i_Kept + 1 \in 1 .. Len(said) + 1
            /\ Len(said) \in Len(said) - i_Kept .. Len(said)
        BY <2>2, <3>1, MCAppAssumption DEF I!ChatInputAssumption
      <4> QED
        BY <2>2, <2>3, <3>1, <4>1, SubSeqProperties
    <3>2. CASE ~(Len(said) > i_MaxHistory)
      BY <2>2, <2>3, <3>2
    <3> QED
      BY <3>1, <3>2
  <2>5. /\ i_historyIndex' = Len(i_chatHistory')
        /\ i_value' = I!None /\ i_draft' = I!None /\ i_savedCurrentChat' = I!None
    BY <1>7 DEF I!SendCurrentChat
  <2> QED
    BY <2>4, <2>5
<1>8. I!Next \/ UNCHANGED iVars
  BY DEF Next, Others, all
<1> QED
  BY <1>1, <1>2, <1>3, <1>4, <1>5, <1>6, <1>7, <1>8 DEF I!Next

\* No cursor leaves its text, where typing would end the program, and who
\* browses the lines sent before finds the draft again.
THEOREM TypedTextStaysKept == Spec => []TypedTextIsKept
<1>1. AddressInv /\ LineInv => TypedTextIsKept
  BY DEF AddressInv, LineInv, TypedTextIsKept, I!DraftComesBack
<1> QED
  BY <1>1, AddressInit, AddressStep, LineInit, LineStep, PTL DEF Spec

-----------------------------------------------------------------------------
(* The settings and their file                                             *)

SettingsTypes ==
    /\ s_file \in S!Files
    /\ s_running \in BOOLEAN /\ s_plugged \in BOOLEAN
    /\ s_torn \in BOOLEAN /\ s_roomed \in BOOLEAN /\ s_unplugged \in BOOLEAN
    /\ s_audio \in {0, 1} /\ s_chat \in {0, 1} /\ s_nick \in {0, 1}
    /\ s_device \in {"default", "headset"} /\ s_want \in {"default", "headset"}
    /\ s_saved \in [audio : {0, 1}, device : {"default", "headset"}, chat : {0, 1}]
    /\ s_chosen \in S!Config
    /\ s_writer \in [S!Writers -> [at : {"idle", "loaded", "emptied"}, cfg : S!Config]]

\* What the file holds once the write under way is over
Kept ==
    IF S!Quiet THEN s_file
    ELSE IF s_writer["loop"] # S!Idle THEN s_writer["loop"].cfg ELSE s_writer["nick"].cfg

\* The file will hold what counts as saved; what is set is what was chosen,
\* or has yet to be written; between two runs the file holds the choices.
KeptIsRight ==
    /\ s_writer["loop"] = S!Idle \/ s_writer["nick"] = S!Idle
    /\ Kept \in S!Config
    /\ Kept.nick = s_chosen.nick
    /\ s_running =>
         /\ Kept.audio = s_saved.audio /\ Kept.chat = s_saved.chat
         /\ s_audio = s_chosen.audio
         /\ s_roomed \/ s_chat = s_chosen.chat
         /\ s_unplugged \/ (s_device = s_chosen.device /\ Kept.device = s_saved.device)
    /\ ~s_running =>
         /\ Kept.audio = s_chosen.audio
         /\ s_roomed \/ Kept.chat = s_chosen.chat
         /\ s_unplugged \/ Kept.device = s_chosen.device

SettingsInv ==
    /\ SettingsTypes
    /\ ~s_running => S!Quiet
    /\ s_plugged \/ s_unplugged
    /\ s_running /\ s_plugged => s_device = s_want
    /\ ~s_torn => KeptIsRight

\* A file of settings can be told from one that was emptied.
LEMMA NotEmpty == \A cfg \in S!Config : cfg # S!Empty
<1> SUFFICES ASSUME NEW cfg \in S!Config, cfg = S!Empty PROVE FALSE
  OBVIOUS
<1>1. DOMAIN cfg = {"audio", "device", "chat", "nick"}
  BY DEF S!Config
<1>2. DOMAIN S!Empty = {"empty"}
  BY DEF S!Empty
<1> QED
  BY <1>1, <1>2

LEMMA SettingsInit == Init => SettingsInv
<1> SUFFICES ASSUME S!Init PROVE SettingsInv
  BY DEF Init
<1> USE DEF S!Init, S!Defaults, S!Idle, S!Config, S!Writers
<1>1. SettingsTypes /\ ~s_running /\ s_plugged
  BY DEF SettingsTypes, S!Snapshot, S!Files
<1>2. S!Quiet
  BY DEF S!Quiet
<1>3. KeptIsRight
  BY <1>1, <1>2 DEF KeptIsRight, Kept
<1> QED
  BY <1>1, <1>2, <1>3 DEF SettingsInv

\* Nothing is being written: the file is what counts.
LEMMA KeptWhenQuiet ==
    ASSUME SettingsInv, ~s_torn, S!Quiet
    PROVE  /\ Kept = s_file /\ s_file \in S!Config
           /\ S!LoadAppConfig = s_file
BY NotEmpty DEF SettingsInv, KeptIsRight, Kept, S!LoadAppConfig

\* A step that neither writes nor changes what is written keeps what the file
\* will hold.
LEMMA KeptStays ==
    ASSUME UNCHANGED <<s_file, s_writer>>
    PROVE  Kept' = Kept /\ S!Quiet' = S!Quiet
BY DEF Kept, S!Quiet

\* A write begins while no other is under way: the file will hold what it
\* was given.
LEMMA KeptWhenBegun ==
    ASSUME SettingsInv, NEW w \in S!Writers, NEW cfg \in S!Config, S!Begin(w, cfg)
    PROVE  /\ s_writer' \in [S!Writers -> [at : {"idle", "loaded", "emptied"}, cfg : S!Config]]
           /\ s_torn' \in BOOLEAN
           /\ ~s_torn' => /\ ~s_torn /\ S!Quiet /\ Kept' = cfg
                          /\ s_writer'["loop"] = S!Idle \/ s_writer'["nick"] = S!Idle
<1> USE DEF S!Writers
<1>1. /\ s_writer[w] = S!Idle
      /\ s_writer' = [s_writer EXCEPT ![w] = [at |-> "loaded", cfg |-> cfg]]
      /\ s_torn' = (s_torn \/ \E v \in S!Writers \ {w} : s_writer[v] # S!Idle)
  BY DEF S!Begin
<1>2. s_writer \in [S!Writers -> [at : {"idle", "loaded", "emptied"}, cfg : S!Config]]
  BY DEF SettingsInv, SettingsTypes
<1>3. s_writer' \in [S!Writers -> [at : {"idle", "loaded", "emptied"}, cfg : S!Config]]
  BY <1>1, <1>2
<1>4. s_torn' \in BOOLEAN
  BY <1>1, Zenon
<1>5. ASSUME ~s_torn' PROVE ~s_torn /\ \A v \in S!Writers \ {w} : s_writer[v] = S!Idle
  BY <1>1, <1>5, Zenon
<1>6. ASSUME ~s_torn'
      PROVE  /\ S!Quiet /\ Kept' = cfg
             /\ s_writer'["loop"] = S!Idle \/ s_writer'["nick"] = S!Idle
  <2>1. S!Quiet
    BY <1>1, <1>5, <1>6 DEF S!Quiet
  <2>2. s_writer'[w].cfg = cfg /\ s_writer'[w] # S!Idle
    BY <1>1, <1>2 DEF S!Idle
  <2>3. \A v \in S!Writers \ {w} : s_writer'[v] = S!Idle
    BY <1>1, <1>2, <1>5, <1>6
  <2>4. w = "loop" \/ w = "nick"
    OBVIOUS
  <2> QED
    BY <2>1, <2>2, <2>3, <2>4 DEF Kept, S!Quiet
<1> QED
  BY <1>3, <1>4, <1>5, <1>6

LEMMA SettingsStep == SettingsInv /\ [Next]_all => SettingsInv'
<1> SUFFICES ASSUME SettingsInv, [Next]_all PROVE SettingsInv'
  OBVIOUS
<1> USE DEF SettingsTypes
<1>1. CASE UNCHANGED sVars
  BY <1>1, KeptStays DEF sVars, SettingsInv, KeptIsRight
<1>2. CASE S!Start
  <2>1. /\ ~s_running /\ s_running' = TRUE /\ S!Quiet
        /\ UNCHANGED <<s_file, s_plugged, s_writer, s_chosen, s_torn, s_roomed, s_unplugged>>
    BY <1>2 DEF S!Start, SettingsInv
  <2> DEFINE cfg == S!LoadAppConfig
  <2>2. /\ s_audio' = cfg.audio /\ s_chat' = cfg.chat /\ s_nick' = cfg.nick
        /\ s_want' = cfg.device
        /\ s_device' = IF cfg.device = "headset" /\ ~s_plugged THEN "default" ELSE cfg.device
        /\ s_saved' = [audio |-> s_audio', device |-> s_device', chat |-> s_chat']
    BY <1>2 DEF S!Start
  <2>3. cfg \in S!Config
    BY DEF S!LoadAppConfig, SettingsInv, S!Files, S!Config, S!Defaults
  <2>4. ~s_torn => KeptIsRight'
    BY <2>1, <2>2, KeptStays, KeptWhenQuiet DEF SettingsInv, KeptIsRight, S!Config
  <2> QED
    BY <2>1, <2>2, <2>3, <2>4, KeptStays DEF SettingsInv, S!Config
<1>3. CASE S!CleanExit
  <2>1. ~s_running' /\ s_running' \in BOOLEAN
    BY <1>3, Zenon DEF S!CleanExit
  <2>2. /\ s_running /\ S!Quiet /\ s_saved = S!Snapshot
        /\ UNCHANGED <<s_file, S!settings, s_plugged, s_saved, s_writer, s_chosen, s_torn,
                       s_roomed, s_unplugged>>
    BY <1>3 DEF S!CleanExit
  <2>3. S!Quiet' /\ Kept' = Kept
    BY <2>2, KeptStays
  <2> QED
    BY <2>1, <2>2, <2>3 DEF S!settings, S!Snapshot, SettingsInv, KeptIsRight
<1>4. CASE S!Crash
  <2>1. ~s_running' /\ s_running' \in BOOLEAN
    BY <1>4, Zenon DEF S!Crash
  <2>2. s_torn' = (s_torn \/ ~S!Quiet \/ s_saved # S!Snapshot)
    BY <1>4 DEF S!Crash
  <2>3. s_torn' \in BOOLEAN /\ (~s_torn' => ~s_torn /\ S!Quiet /\ s_saved = S!Snapshot)
    BY <2>2, Zenon
  <2>4. /\ s_running
        /\ s_writer' = [w \in S!Writers |-> S!Idle]
        /\ UNCHANGED <<s_file, S!settings, s_plugged, s_saved, s_chosen, s_roomed, s_unplugged>>
    BY <1>4 DEF S!Crash
  <2>5. S!Quiet' /\ Kept' = s_file
    BY <2>4 DEF S!Quiet, Kept
  <2>6. s_writer' \in [S!Writers -> [at : {"idle", "loaded", "emptied"}, cfg : S!Config]]
    BY <2>4 DEF S!Idle, S!Defaults, S!Config
  <2>7. ~s_torn' => KeptIsRight'
    <3> SUFFICES ASSUME ~s_torn' PROVE KeptIsRight'
      OBVIOUS
    <3>1. KeptIsRight /\ Kept = s_file /\ s_file \in S!Config
      BY <2>3, KeptWhenQuiet DEF SettingsInv
    <3>2. s_writer'["loop"] = S!Idle
      BY <2>4 DEF S!Writers
    <3> QED
      BY <2>1, <2>3, <2>4, <2>5, <3>1, <3>2
         DEF S!settings, S!Snapshot, KeptIsRight, SettingsInv
  <2> QED
    BY <2>1, <2>3, <2>4, <2>5, <2>6, <2>7 DEF S!settings, SettingsInv
<1>5. CASE S!ChangeAudio
  BY <1>5, KeptStays DEF S!ChangeAudio, SettingsInv, KeptIsRight, S!Config
<1>6. CASE S!ResizeChat
  <2>1. ~s_roomed' /\ s_roomed' \in BOOLEAN
    BY <1>6, Zenon DEF S!ResizeChat
  <2>2. /\ s_running /\ s_chat' = 1 - s_chat /\ s_chosen' = [s_chosen EXCEPT !.chat = s_chat']
        /\ UNCHANGED <<s_file, s_running, s_audio, s_device, s_nick, s_want, s_plugged, s_saved,
                       s_writer, s_torn, s_unplugged>>
    BY <1>6 DEF S!ResizeChat
  <2> QED
    BY <2>1, <2>2, KeptStays DEF SettingsInv, KeptIsRight, S!Config
<1>7. CASE S!PickDevice
  BY <1>7, KeptStays DEF S!PickDevice, SettingsInv, KeptIsRight, S!Config
<1>8. CASE S!Plug
  BY <1>8, KeptStays DEF S!Plug, SettingsInv, KeptIsRight, S!Config
<1>9. CASE S!EnterRoom
  BY <1>9, KeptStays DEF S!EnterRoom, SettingsInv, KeptIsRight, S!Config
<1>10. CASE S!PersistSettings
  <2> DEFINE cfg == [S!LoadAppConfig EXCEPT !.audio = s_audio, !.device = s_device, !.chat = s_chat]
  <2>1. /\ s_running /\ s_saved' = S!Snapshot /\ S!Begin("loop", cfg)
        /\ s_unplugged' = (s_unplugged /\ ~S!Regained)
        /\ UNCHANGED <<s_file, s_running, S!settings, s_plugged, s_chosen, s_roomed>>
    BY <1>10 DEF S!PersistSettings
  <2>2. S!LoadAppConfig \in S!Config
    BY DEF S!LoadAppConfig, SettingsInv, S!Files, S!Config, S!Defaults
  <2>3. /\ cfg \in S!Config
        /\ cfg.audio = s_audio /\ cfg.device = s_device /\ cfg.chat = s_chat
        /\ cfg.nick = S!LoadAppConfig.nick
    BY <2>2 DEF S!Config, SettingsInv
  <2> HIDE DEF cfg
  <2>4. /\ s_writer' \in [S!Writers -> [at : {"idle", "loaded", "emptied"}, cfg : S!Config]]
        /\ s_torn' \in BOOLEAN
        /\ ~s_torn' => /\ ~s_torn /\ S!Quiet /\ Kept' = cfg
                       /\ s_writer'["loop"] = S!Idle \/ s_writer'["nick"] = S!Idle
    BY <2>1, <2>3, KeptWhenBegun DEF S!Writers
  <2>5. /\ s_unplugged' \in BOOLEAN
        /\ ~s_unplugged' => ~s_unplugged \/ (s_plugged /\ s_device = s_chosen.device)
    BY <2>1, Zenon DEF S!Regained
  <2>6. ~s_torn' => KeptIsRight'
    <3> SUFFICES ASSUME ~s_torn' PROVE KeptIsRight'
      OBVIOUS
    <3>1. S!LoadAppConfig.nick = s_chosen.nick /\ KeptIsRight
      BY <2>4, KeptWhenQuiet DEF SettingsInv, KeptIsRight
    <3>2. /\ s_saved'.audio = s_audio /\ s_saved'.chat = s_chat /\ s_saved'.device = s_device
      BY <2>1 DEF S!Snapshot
    <3> QED
      BY <2>1, <2>3, <2>4, <2>5, <3>1, <3>2 DEF KeptIsRight, S!settings
  <2>7. s_plugged' \/ s_unplugged'
    BY <2>1 DEF SettingsInv, S!Regained
  <2> QED
    BY <2>1, <2>4, <2>5, <2>6, <2>7 DEF S!settings, S!Snapshot, SettingsInv
<1>11. CASE S!ChangeNick
  <2> DEFINE cfg == [S!LoadAppConfig EXCEPT !.nick = s_nick']
  <2>1. /\ s_running /\ s_nick' = 1 - s_nick
        /\ s_chosen' = [s_chosen EXCEPT !.nick = s_nick']
        /\ S!Begin("nick", cfg)
        /\ UNCHANGED <<s_file, s_running, s_audio, s_device, s_chat, s_want, s_plugged, s_saved,
                       s_roomed, s_unplugged>>
    BY <1>11 DEF S!ChangeNick
  <2>2. S!LoadAppConfig \in S!Config
    BY DEF S!LoadAppConfig, SettingsInv, S!Files, S!Config, S!Defaults
  <2>3. s_nick' \in {0, 1}
    BY <2>1 DEF SettingsInv
  <2>4. /\ cfg \in S!Config /\ cfg.nick = s_nick'
        /\ cfg.audio = S!LoadAppConfig.audio /\ cfg.device = S!LoadAppConfig.device
        /\ cfg.chat = S!LoadAppConfig.chat
    BY <2>2, <2>3 DEF S!Config
  <2> HIDE DEF cfg
  <2>5. /\ s_writer' \in [S!Writers -> [at : {"idle", "loaded", "emptied"}, cfg : S!Config]]
        /\ s_torn' \in BOOLEAN
        /\ ~s_torn' => /\ ~s_torn /\ S!Quiet /\ Kept' = cfg
                       /\ s_writer'["loop"] = S!Idle \/ s_writer'["nick"] = S!Idle
    BY <2>1, <2>4, KeptWhenBegun DEF S!Writers
  <2>6. /\ s_chosen' \in S!Config /\ s_chosen'.nick = s_nick'
        /\ s_chosen'.audio = s_chosen.audio /\ s_chosen'.device = s_chosen.device
        /\ s_chosen'.chat = s_chosen.chat
    BY <2>1, <2>3 DEF SettingsInv, S!Config
  <2>7. ~s_torn' => KeptIsRight'
    <3> SUFFICES ASSUME ~s_torn' PROVE KeptIsRight'
      OBVIOUS
    <3>1. S!LoadAppConfig = Kept /\ KeptIsRight
      BY <2>5, KeptWhenQuiet DEF SettingsInv
    <3> QED
      BY <2>1, <2>4, <2>5, <2>6, <3>1 DEF KeptIsRight
  <2> QED
    BY <2>1, <2>3, <2>5, <2>6, <2>7 DEF SettingsInv
<1>12. ASSUME NEW w \in S!Writers, S!Truncate(w) PROVE SettingsInv'
  <2>1. /\ s_running /\ s_writer[w].at = "loaded" /\ s_file' = S!Empty
        /\ s_writer' = [s_writer EXCEPT ![w].at = "emptied"]
        /\ UNCHANGED <<s_running, S!settings, s_plugged, s_saved, s_chosen, s_torn, s_roomed,
                       s_unplugged>>
    BY <1>12 DEF S!Truncate
  <2>2. /\ s_writer' \in [S!Writers -> [at : {"idle", "loaded", "emptied"}, cfg : S!Config]]
        /\ s_writer'[w].cfg = s_writer[w].cfg /\ s_writer'[w].at = "emptied"
        /\ \A v \in S!Writers \ {w} : s_writer'[v] = s_writer[v]
    BY <2>1 DEF SettingsInv
  <2>3. s_writer[w] # S!Idle /\ s_writer'[w] # S!Idle
    BY <2>1, <2>2 DEF S!Idle
  <2>4. ~s_torn => Kept' = Kept /\ (s_writer'["loop"] = S!Idle \/ s_writer'["nick"] = S!Idle)
    BY <2>2, <2>3 DEF Kept, S!Quiet, S!Writers, SettingsInv, KeptIsRight
  <2>5. s_file' \in S!Files
    BY <2>1 DEF S!Files
  <2> QED
    BY <2>1, <2>2, <2>4, <2>5 DEF S!settings, SettingsInv, KeptIsRight
<1>13. ASSUME NEW w \in S!Writers, S!Write(w) PROVE SettingsInv'
  <2>1. /\ s_running /\ s_writer[w].at = "emptied" /\ s_file' = s_writer[w].cfg
        /\ s_writer' = [s_writer EXCEPT ![w] = S!Idle]
        /\ UNCHANGED <<s_running, S!settings, s_plugged, s_saved, s_chosen, s_torn, s_roomed,
                       s_unplugged>>
    BY <1>13 DEF S!Write
  <2>2. S!Idle \in [at : {"idle", "loaded", "emptied"}, cfg : S!Config]
    BY DEF S!Idle, S!Defaults, S!Config
  <2>3. /\ s_writer' \in [S!Writers -> [at : {"idle", "loaded", "emptied"}, cfg : S!Config]]
        /\ s_writer'[w] = S!Idle
        /\ \A v \in S!Writers \ {w} : s_writer'[v] = s_writer[v]
    BY <2>1, <2>2 DEF SettingsInv
  <2>4. s_writer[w] # S!Idle
    BY <2>1 DEF S!Idle
  <2>5. ~s_torn => Kept' = Kept /\ s_writer'["loop"] = S!Idle
    BY <2>1, <2>3, <2>4 DEF Kept, S!Quiet, S!Writers, SettingsInv, KeptIsRight
  <2>6. s_file' \in S!Files
    BY <2>1 DEF S!Files, SettingsInv
  <2> QED
    BY <2>1, <2>3, <2>5, <2>6 DEF S!settings, SettingsInv, KeptIsRight
<1>14. S!Next \/ UNCHANGED sVars
  BY DEF Next, Others, all
<1> QED
  BY <1>1, <1>2, <1>3, <1>4, <1>5, <1>6, <1>7, <1>8, <1>9, <1>10, <1>11, <1>12, <1>13, <1>14
     DEF S!Next

\* What the user chose is in the file once nothing is left to write, with the
\* exceptions the property names.
THEOREM ChoicesComeToBeSaved == Spec => []ChoicesAreSaved
<1>1. SettingsInv => ChoicesAreSaved
  <2> SUFFICES ASSUME SettingsInv, S!Quiet, ~s_torn, s_running => s_saved = S!Snapshot
               PROVE  S!ChoicesAreSaved
    BY DEF ChoicesAreSaved, S!ChoicesAreSaved
  <2>1. Kept = s_file /\ s_file # S!Empty /\ KeptIsRight
    BY KeptWhenQuiet, NotEmpty DEF SettingsInv
  <2> QED
    BY <2>1 DEF S!ChoicesAreSaved, KeptIsRight, S!Snapshot, SettingsInv, SettingsTypes
<1> QED
  BY <1>1, SettingsInit, SettingsStep, PTL DEF Spec

-----------------------------------------------------------------------------
(* Invite links                                                            *)

LinkTypes ==
    /\ l_at \in [l_Procs -> {"unused", "started", "sending", "alone", "deaf", "binding", "open",
                             "ended"}]
    /\ l_link \in [l_Procs -> l_Links \cup {L!None}]
    /\ l_env \in [l_Procs -> SUBSET {"terminal", "moved"}]
    /\ l_wire \in [l_Procs -> {"none", "sent", "taken", "ok"}]
    /\ l_invites \in [l_Procs -> Seq(l_Links)]
    /\ l_starts \in [l_Links -> Nat]
    /\ \A p \in l_Procs : l_at[p] = "unused" => l_link[p] = L!None /\ l_wire[p] = "none"

Live(p) == l_at[p] \notin {"unused", "ended"}

\* What the processes of one link have set in their environments
Marks(l) == UNION {l_env[p] : p \in {q \in l_Procs : l_link[q] = l}}

\* A link has one process at a time, which knows what all before it have
\* done, and every process before it but the first has done something new.
OneProcess ==
    /\ \A p \in l_Procs : l_link[p] \in l_Links => l_starts[l_link[p]] > 0
    /\ \A p, q \in l_Procs : Live(p) /\ l_link[p] \in l_Links /\ l_link[q] = l_link[p] =>
         /\ l_env[q] \subseteq l_env[p]
         /\ Live(q) => q = p
    /\ L!FewProcesses

LEMMA MarksAreFew ==
    \A marks \in SUBSET {"terminal", "moved"} : IsFiniteSet(marks) /\ Cardinality(marks) \in Nat
<1>1. IsFiniteSet({} \cup {"terminal"})
  BY FS_EmptySet, FS_AddElement
<1>2. IsFiniteSet(({} \cup {"terminal"}) \cup {"moved"})
  BY <1>1, FS_AddElement
<1>3. ({} \cup {"terminal"}) \cup {"moved"} = {"terminal", "moved"}
  OBVIOUS
<1> QED
  BY <1>2, <1>3, FS_Subset, FS_CardinalityType

LEMMA SameCardinality == \A set : L!Cardinality(set) = Cardinality(set)
BY DEF L!Cardinality, Cardinality

LEMMA FewIs ==
    L!FewProcesses <=> \A l \in l_Links : l_starts[l] <= 1 + Cardinality(Marks(l))
BY SameCardinality DEF L!FewProcesses, Marks

LEMMA FewIsNext ==
    L!FewProcesses' <=> \A l \in l_Links : l_starts'[l] <= 1 + Cardinality(Marks(l)')
BY SameCardinality DEF L!FewProcesses, Marks

\* A step that starts no process keeps all that.
LEMMA NoStart ==
    ASSUME LinkTypes, OneProcess,
           UNCHANGED <<l_link, l_env, l_starts>>,
           \A p \in l_Procs : Live(p)' => Live(p)
    PROVE  OneProcess'
<1>1. \A l : Marks(l)' = Marks(l)
  BY DEF Marks
<1>2. L!FewProcesses'
  BY <1>1, FewIs, FewIsNext DEF OneProcess
<1> QED
  BY <1>2 DEF OneProcess

\* The user opens the app, or a link for the first time.
LEMMA FirstStart ==
    ASSUME LinkTypes, OneProcess, NEW p \in l_Procs, L!Open(p)
    PROVE  LinkTypes' /\ OneProcess'
<1>1. PICK l \in l_Links \cup {L!None}, w \in SUBSET {"tty", "wayland"} :
        /\ L!Start(p, l, {}, w)
        /\ l \in l_Links => l_starts[l] = 0
  <2>1. CASE \E w \in {{"tty"}, {"tty", "wayland"}} : L!Start(p, L!None, {}, w)
    BY <2>1, MCAppAssumption DEF L!InviteLinksAssumption
  <2>2. CASE \E l \in l_Links : l_starts[l] = 0 /\ L!Start(p, l, {}, {})
    BY <2>2
  <2> QED
    BY <2>1, <2>2 DEF L!Open
<1>2. /\ l_at[p] = "unused"
      /\ l_link' = [l_link EXCEPT ![p] = l] /\ l_env' = [l_env EXCEPT ![p] = {}]
      /\ l_starts' = IF l \in l_Links THEN [l_starts EXCEPT ![l] = @ + 1] ELSE l_starts
  BY <1>1 DEF L!Start
<1>3. /\ l_at' = [l_at EXCEPT ![p] = "started"]
      /\ UNCHANGED <<l_wire, l_invites>>
  BY DEF L!Open, L!Step, L!Sending
<1>4. LinkTypes'
  BY <1>2, <1>3 DEF LinkTypes
<1>5. L!None \notin l_Links
  BY MCAppAssumption DEF L!InviteLinksAssumption
<1>6. \A q \in l_Procs \ {p} : l_link'[q] = l_link[q] /\ l_env'[q] = l_env[q] /\ (Live(q)' <=> Live(q))
  BY <1>2, <1>3 DEF LinkTypes, Live
<1>7. l_link[p] = L!None /\ l_link'[p] = l /\ l_env'[p] = {}
  BY <1>2 DEF LinkTypes
<1>8. \A q \in l_Procs : l \in l_Links => l_link[q] # l
  BY <1>1 DEF OneProcess, LinkTypes
<1>9. \A k \in l_Links : l_starts'[k] = IF k = l THEN 1 ELSE l_starts[k]
  BY <1>1, <1>2 DEF LinkTypes
<1>10. \A k \in l_Links \ {l} : Marks(k)' = Marks(k)
  BY <1>5, <1>6, <1>7 DEF Marks
<1>11. L!FewProcesses'
  <2> SUFFICES ASSUME NEW k \in l_Links PROVE l_starts'[k] <= 1 + Cardinality(Marks(k)')
    BY FewIsNext
  <2>1. CASE k = l
    <3>1. Marks(k)' \subseteq {"terminal", "moved"}
      BY <1>4 DEF Marks, LinkTypes
    <3>2. Cardinality(Marks(k)') \in Nat
      BY <3>1, MarksAreFew
    <3> QED
      BY <1>9, <2>1, <3>2
  <2>2. CASE k # l
    BY <1>9, <1>10, <2>2, FewIs DEF OneProcess
  <2> QED
    BY <2>1, <2>2
<1>12. \A q \in l_Procs : l_link'[q] \in l_Links => l_starts'[l_link'[q]] > 0
  <2>1. \A k \in l_Links : l_starts[k] > 0 \/ k = l => l_starts'[k] > 0
    BY <1>9
  <2> QED
    BY <1>6, <1>7, <2>1 DEF OneProcess
<1>13. \A q, r \in l_Procs : Live(q)' /\ l_link'[q] \in l_Links /\ l_link'[r] = l_link'[q] =>
         /\ l_env'[r] \subseteq l_env'[q]
         /\ Live(r)' => r = q
  BY <1>5, <1>6, <1>7, <1>8 DEF OneProcess
<1> QED
  BY <1>4, <1>11, <1>12, <1>13 DEF OneProcess

\* A process starts the one that takes its place, for something not done yet.
LEMMA NextStart ==
    ASSUME LinkTypes, OneProcess, NEW p \in l_Procs, Live(p), l_at[p] = "alone",
           NEW v \in {"terminal", "moved"}, v \notin l_env[p],
           NEW windows, L!Succeed(p, v, windows)
    PROVE  LinkTypes' /\ OneProcess'
<1>1. PICK q \in l_Procs, w \in windows :
        /\ L!Start(q, l_link[p], l_env[p] \cup {v}, w)
        /\ l_at' = [l_at EXCEPT ![p] = "ended", ![q] = "started"]
        /\ UNCHANGED <<l_wire, l_invites>>
  BY DEF L!Succeed, L!Sending
<1>2. PICK l : l_link[p] = l
  OBVIOUS
<1>3. /\ l_at[q] = "unused"
      /\ l_link' = [l_link EXCEPT ![q] = l] /\ l_env' = [l_env EXCEPT ![q] = l_env[p] \cup {v}]
      /\ l_starts' = IF l \in l_Links THEN [l_starts EXCEPT ![l] = @ + 1] ELSE l_starts
  BY <1>1, <1>2 DEF L!Start
<1>4. q # p
  BY <1>3
<1>5. LinkTypes'
  <2>1. /\ l_link' \in [l_Procs -> l_Links \cup {L!None}]
        /\ l_env' \in [l_Procs -> SUBSET {"terminal", "moved"}]
        /\ l_starts' \in [l_Links -> Nat]
    BY <1>3, <1>2 DEF LinkTypes
  <2>2. l_at' \in [l_Procs -> {"unused", "started", "sending", "alone", "deaf", "binding",
                              "open", "ended"}]
    BY <1>1 DEF LinkTypes
  <2>3. \A r \in l_Procs \ {q} : l_link'[r] = l_link[r] /\ (l_at'[r] = "unused" => l_at[r] = "unused")
    BY <1>1, <1>3, <1>4 DEF LinkTypes
  <2>4. l_at'[q] = "started"
    BY <1>1 DEF LinkTypes
  <2> QED
    BY <1>1, <2>1, <2>2, <2>3, <2>4 DEF LinkTypes
<1>6. L!None \notin l_Links
  BY MCAppAssumption DEF L!InviteLinksAssumption
<1>7. /\ \A r \in l_Procs \ {q} : l_link'[r] = l_link[r] /\ l_env'[r] = l_env[r]
      /\ \A r \in l_Procs \ {p, q} : Live(r)' <=> Live(r)
      /\ ~Live(p)'
  BY <1>1, <1>3 DEF LinkTypes, Live
<1>8. l_link[q] = L!None /\ l_link'[q] = l /\ l_env'[q] = l_env[p] \cup {v}
  BY <1>3 DEF LinkTypes
<1>9. \A k \in l_Links : l_starts'[k] = IF k = l THEN l_starts[k] + 1 ELSE l_starts[k]
  BY <1>3 DEF LinkTypes
<1>10. \A k \in l_Links \ {l} : Marks(k)' = Marks(k)
  BY <1>6, <1>7, <1>8 DEF Marks
<1>11. ASSUME l \in l_Links PROVE Marks(l) = l_env[p] /\ Marks(l)' = Marks(l) \cup {v}
  <2>1. \A r \in l_Procs : l_link[r] = l => l_env[r] \subseteq l_env[p]
    BY <1>2, <1>11 DEF OneProcess
  <2>2. Marks(l) = l_env[p]
    BY <1>2, <2>1 DEF Marks
  <2>3. \A r \in l_Procs : l_link'[r] = l => r = q \/ (l_link[r] = l /\ l_env'[r] = l_env[r])
    BY <1>7
  <2>4. \A r \in l_Procs : l_link'[r] = l => l_env'[r] \subseteq l_env[p] \cup {v}
    BY <1>8, <2>1, <2>3
  <2>5. Marks(l)' = l_env[p] \cup {v}
    <3>1. Marks(l)' \subseteq l_env[p] \cup {v}
      BY <2>4 DEF Marks
    <3>2. q \in {r \in l_Procs : l_link'[r] = l}
      BY <1>8
    <3>3. l_env'[q] \subseteq Marks(l)'
      BY <3>2 DEF Marks
    <3> QED
      BY <1>8, <3>1, <3>3
  <2> QED
    BY <2>2, <2>5
<1>12. L!FewProcesses'
  <2> SUFFICES ASSUME NEW k \in l_Links PROVE l_starts'[k] <= 1 + Cardinality(Marks(k)')
    BY FewIsNext
  <2>1. CASE k = l
    <3>1. Marks(k)' = Marks(k) \cup {v} /\ v \notin Marks(k)
      BY <1>11, <2>1
    <3>2. Marks(k) \subseteq {"terminal", "moved"}
      BY DEF Marks, LinkTypes
    <3>3. Cardinality(Marks(k)') = Cardinality(Marks(k)) + 1 /\ Cardinality(Marks(k)) \in Nat
      BY <3>1, <3>2, MarksAreFew, FS_AddElement
    <3>4. l_starts'[k] = l_starts[k] + 1
      BY <1>9, <2>1
    <3>5. l_starts[k] <= 1 + Cardinality(Marks(k)) /\ l_starts[k] \in Nat
      BY FewIs DEF OneProcess, LinkTypes
    <3> QED
      BY <3>3, <3>4, <3>5
  <2>2. CASE k # l
    BY <1>9, <1>10, <2>2, FewIs DEF OneProcess
  <2> QED
    BY <2>1, <2>2
<1>13. \A r \in l_Procs : l_link'[r] \in l_Links => l_starts'[l_link'[r]] > 0
  <2>1. \A k \in l_Links : l_starts[k] > 0 => l_starts'[k] > 0
    <3> SUFFICES ASSUME NEW k \in l_Links, l_starts[k] > 0 PROVE l_starts'[k] > 0
      OBVIOUS
    <3>1. l_starts[k] \in Nat /\ (l_starts'[k] = l_starts[k] + 1 \/ l_starts'[k] = l_starts[k])
      BY <1>9 DEF LinkTypes
    <3> QED
      BY <3>1
  <2> QED
    BY <1>7, <1>8, <1>2, <2>1 DEF OneProcess
<1>14. \A r, t \in l_Procs : Live(r)' /\ l_link'[r] \in l_Links /\ l_link'[t] = l_link'[r] =>
         /\ l_env'[t] \subseteq l_env'[r]
         /\ Live(t)' => t = r
  <2> SUFFICES ASSUME NEW r \in l_Procs, NEW t \in l_Procs, Live(r)', l_link'[r] \in l_Links,
                      l_link'[t] = l_link'[r]
               PROVE  l_env'[t] \subseteq l_env'[r] /\ (Live(t)' => t = r)
    OBVIOUS
  <2>1. r # p
    BY <1>7
  <2>2. CASE r = q
    <3>1. CASE t = q
      BY <2>2, <3>1
    <3>2. CASE t # q
      <4>1. l_link[t] = l /\ l_env'[t] = l_env[t]
        BY <1>7, <1>8, <2>2, <3>2
      <4>2. l_env[t] \subseteq l_env[p] /\ (Live(t) => t = p)
        BY <1>8, <1>2, <2>2, <4>1 DEF OneProcess
      <4> QED
        BY <1>7, <1>8, <2>2, <3>2, <4>1, <4>2
    <3> QED
      BY <3>1, <3>2
  <2>3. CASE r # q
    <3>1. Live(r) /\ l_link[r] = l_link'[r] /\ l_env[r] = l_env'[r]
      BY <1>7, <2>1, <2>3
    <3>2. l_link[r] # l
      BY <1>2, <2>1, <3>1 DEF OneProcess
    <3>3. t # q
      BY <1>8, <3>1, <3>2
    <3>4. l_link[t] = l_link[r] /\ l_env'[t] = l_env[t] /\ t # p
      BY <1>7, <1>2, <3>1, <3>2, <3>3
    <3> QED
      BY <1>7, <3>1, <3>3, <3>4 DEF OneProcess
  <2> QED
    BY <2>2, <2>3
<1> QED
  BY <1>5, <1>12, <1>13, <1>14 DEF OneProcess

\* The user was asked about a link, or it is lost, or waits in an open app.
Known(l) ==
    \/ l \in l_asked \cup l_lost
    \/ \E p \in L!Apps : \E i \in DOMAIN l_invites[p] : l_invites[p][i] = l

\* Only a link that was taken is answered, so its process may end.
Taken ==
    /\ \A p \in l_Procs : l_at[p] = "open" /\ l_link[p] # L!None => l_link[p] \in l_asked
    /\ \A p \in l_Procs : l_wire[p] # "none" => l_link[p] # L!None
    /\ \A p \in l_Procs : l_wire[p] \in {"taken", "ok"} => Known(l_link[p])
    /\ \A l \in l_Links : l_starts[l] > 0 =>
         Known(l) \/ \E p \in l_Procs : l_link[p] = l /\ Live(p)

LinksInv == LinkTypes /\ OneProcess /\ Taken

LEMMA LinksInit == Init => LinksInv
<1> SUFFICES ASSUME L!Init PROVE LinksInv
  BY DEF Init
<1>1. /\ l_at = [p \in l_Procs |-> "unused"] /\ l_link = [p \in l_Procs |-> L!None]
      /\ l_env = [p \in l_Procs |-> {}] /\ l_wire = [p \in l_Procs |-> "none"]
      /\ l_invites = [p \in l_Procs |-> <<>>] /\ l_starts = [l \in l_Links |-> 0]
  BY DEF L!Init
<1>2. LinkTypes
  <2>1. <<>> \in Seq(l_Links)
    BY EmptySeq
  <2> QED
    BY <1>1, <2>1 DEF LinkTypes
<1>3. L!None \notin l_Links
  BY MCAppAssumption DEF L!InviteLinksAssumption
<1>4. L!FewProcesses
  <2> SUFFICES ASSUME NEW l \in l_Links PROVE l_starts[l] <= 1 + Cardinality(Marks(l))
    BY FewIs
  <2>1. Marks(l) \subseteq {"terminal", "moved"}
    BY <1>2 DEF Marks, LinkTypes
  <2>2. Cardinality(Marks(l)) \in Nat
    BY <2>1, MarksAreFew
  <2> QED
    BY <1>1, <2>2
<1>5. OneProcess /\ Taken
  BY <1>1, <1>3, <1>4 DEF OneProcess, Taken, Live
<1> QED
  BY <1>2, <1>5 DEF LinksInv

\* What is asked about and lost stays so, and a queue keeps its links, but for
\* what those steps say that take some out.
LEMMA KnownStays ==
    ASSUME l_asked \subseteq l_asked', l_lost \subseteq l_lost',
           \A p \in L!Apps : p \in L!Apps' /\ l_invites'[p] = l_invites[p]
    PROVE  \A l : Known(l) => Known(l)'
BY DEF Known

LEMMA TakenStays ==
    ASSUME LinksInv, UNCHANGED <<l_link, l_starts>>, l_asked \subseteq l_asked',
           \A l : Known(l) => Known(l)',
           \A p \in l_Procs : l_at'[p] = "open" =>
             l_at[p] = "open" \/ l_link[p] \in l_asked' \cup {L!None},
           \A p \in l_Procs : l_wire'[p] # "none" => l_wire[p] # "none" \/ l_link[p] # L!None,
           \A p \in l_Procs : l_wire'[p] \in {"taken", "ok"} =>
             l_wire[p] \in {"taken", "ok"} \/ Known(l_link[p])',
           \A p \in l_Procs : Live(p) => Live(p)' \/ l_link[p] = L!None \/ Known(l_link[p])'
    PROVE  Taken'
<1>1. ASSUME NEW p \in l_Procs, l_wire'[p] \in {"taken", "ok"}
      PROVE  Known(l_link[p])'
  <2>1. CASE Known(l_link[p])'
    BY <2>1
  <2>2. CASE l_wire[p] \in {"taken", "ok"}
    <3>1. PICK k : l_link[p] = k
      OBVIOUS
    <3>2. Known(k)'
      BY <2>2, <3>1 DEF LinksInv, Taken
    <3> QED
      BY <3>1, <3>2 DEF Known
  <2> QED
    BY <1>1, <2>1, <2>2
<1>2. ASSUME NEW l \in l_Links, l_starts[l] > 0
      PROVE  Known(l)' \/ \E p \in l_Procs : l_link'[p] = l /\ Live(p)'
  <2>1. CASE Known(l)
    BY <2>1
  <2>2. CASE ~Known(l)
    <3>1. PICK p \in l_Procs : l_link[p] = l /\ Live(p)
      BY <1>2, <2>2 DEF LinksInv, Taken
    <3>2. l # L!None
      BY MCAppAssumption DEF L!InviteLinksAssumption
    <3> QED
      BY <3>1, <3>2
  <2> QED
    BY <2>1, <2>2
<1> QED
  BY <1>1, <1>2 DEF LinksInv, Taken

\* A process starts: what was known stays known, and the link has a process.
LEMMA TakenStarts ==
    ASSUME LinksInv, LinkTypes', NEW q \in l_Procs, NEW l \in l_Links \cup {L!None},
           l_at[q] = "unused", Live(q)', l_at'[q] # "open",
           l_link' = [l_link EXCEPT ![q] = l],
           l_starts' = IF l \in l_Links THEN [l_starts EXCEPT ![l] = @ + 1] ELSE l_starts,
           \A p \in l_Procs : Live(p) => Live(p)' \/ l_link[p] = l,
           \A p \in l_Procs : l_at'[p] = "open" <=> l_at[p] = "open",
           UNCHANGED <<l_wire, l_invites, l_asked, l_lost>>
    PROVE  Taken'
<1>1. \A k : Known(k)' <=> Known(k)
  BY DEF Known, L!Apps
<1>2. l_wire[q] = "none" /\ l_link[q] = L!None
  BY DEF LinksInv, LinkTypes
<1>3. \A p \in l_Procs \ {q} : l_link'[p] = l_link[p]
  BY DEF LinksInv, LinkTypes
<1>4. l_link'[q] = l
  BY DEF LinksInv, LinkTypes
<1>5. ASSUME NEW k \in l_Links, l_starts'[k] > 0
      PROVE  Known(k)' \/ \E p \in l_Procs : l_link'[p] = k /\ Live(p)'
  <2>1. CASE k = l
    BY <1>4, <2>1
  <2>2. CASE k # l
    <3>1. l_starts'[k] = l_starts[k]
      BY <2>2 DEF LinksInv, LinkTypes
    <3>2. Known(k) \/ \E p \in l_Procs : l_link[p] = k /\ Live(p)
      BY <1>5, <3>1 DEF LinksInv, Taken
    <3>3. L!None \notin l_Links
      BY MCAppAssumption DEF L!InviteLinksAssumption
    <3> QED
      BY <1>1, <1>2, <1>3, <2>2, <3>2, <3>3
  <2> QED
    BY <2>1, <2>2
<1>6. \A p \in l_Procs : l_at'[p] = "open" /\ l_link'[p] # L!None => l_link'[p] \in l_asked'
  BY <1>3 DEF LinksInv, Taken
<1>7. \A p \in l_Procs : l_wire'[p] # "none" => l_link'[p] # L!None
  BY <1>2, <1>3 DEF LinksInv, Taken
<1>8. ASSUME NEW p \in l_Procs, l_wire'[p] \in {"taken", "ok"}
      PROVE  Known(l_link[p])'
  <2>1. p # q
    BY <1>2, <1>8
  <2>2. PICK k : l_link[p] = k /\ l_link'[p] = k
    BY <1>3, <2>1
  <2>3. Known(k)'
    BY <1>1, <1>8, <2>2 DEF LinksInv, Taken
  <2> QED
    BY <2>2, <2>3 DEF Known
<1> QED
  BY <1>5, <1>6, <1>7, <1>8 DEF Taken

LEMMA LinksStep == LinksInv /\ [Next]_all => LinksInv'
<1> SUFFICES ASSUME LinksInv, [Next]_all PROVE LinksInv'
  OBVIOUS
<1>1. LinkTypes /\ OneProcess /\ Taken
  BY DEF LinksInv
<1> USE DEF L!Step, L!Sockets, L!Sending, L!Past
<1>2. CASE UNCHANGED lVars
  <2>1. LinkTypes' /\ OneProcess'
    BY <1>1, <1>2, NoStart DEF lVars, LinkTypes, Live
  <2>2. Taken'
    BY <1>2 DEF lVars, LinksInv, Taken, Known, L!Apps, Live
  <2> QED
    BY <2>1, <2>2 DEF LinksInv
<1>3. ASSUME NEW p \in l_Procs, L!Open(p) PROVE LinksInv'
  <2>1. LinkTypes' /\ OneProcess'
    BY <1>1, <1>3, FirstStart
  <2>2. PICK l \in l_Links \cup {L!None} :
          /\ l_at[p] = "unused"
          /\ l_link' = [l_link EXCEPT ![p] = l]
          /\ l_starts' = IF l \in l_Links THEN [l_starts EXCEPT ![l] = @ + 1] ELSE l_starts
    BY <1>3 DEF L!Open, L!Start
  <2>3. /\ l_at' = [l_at EXCEPT ![p] = "started"]
        /\ UNCHANGED <<l_wire, l_invites, l_asked, l_lost>>
    BY <1>3 DEF L!Open
  <2>4. /\ Live(p)' /\ l_at'[p] # "open"
        /\ \A q \in l_Procs : Live(q) => Live(q)'
        /\ \A q \in l_Procs : l_at'[q] = "open" <=> l_at[q] = "open"
    BY <1>1, <2>2, <2>3 DEF LinkTypes, Live
  <2> QED
    BY <2>1, <2>2, <2>3, <2>4, TakenStarts DEF LinksInv
<1>4. ASSUME NEW p \in l_Procs, L!RelaunchForDragAndDrop(p) \/ L!OpenInUserTerminal(p)
      PROVE  LinksInv'
  <2>1. PICK v \in {"terminal", "moved"}, windows \in {{{"tty", "wayland"}}, {{}, {"tty"}, {"tty", "wayland"}}} :
          l_at[p] = "alone" /\ v \notin l_env[p] /\ L!Succeed(p, v, windows)
    BY <1>4 DEF L!RelaunchForDragAndDrop, L!OpenInUserTerminal, L!NeedsX11Relaunch, L!MayOpenTerminal
  <2>2. Live(p)
    BY <2>1 DEF Live
  <2>3. LinkTypes' /\ OneProcess'
    BY <1>1, <2>1, <2>2, NextStart
  <2>4. PICK q \in l_Procs :
          /\ l_at[q] = "unused"
          /\ l_link' = [l_link EXCEPT ![q] = l_link[p]]
          /\ l_starts' = IF l_link[p] \in l_Links THEN [l_starts EXCEPT ![l_link[p]] = @ + 1]
                         ELSE l_starts
          /\ l_at' = [l_at EXCEPT ![p] = "ended", ![q] = "started"]
    BY <2>1 DEF L!Succeed, L!Start
  <2>5. UNCHANGED <<l_wire, l_invites, l_asked, l_lost>>
    BY <2>1 DEF L!Succeed
  <2>6. PICK l \in l_Links \cup {L!None} : l_link[p] = l
    BY <1>1 DEF LinkTypes
  <2>7. /\ Live(q)' /\ l_at'[q] # "open"
        /\ \A r \in l_Procs : Live(r) => Live(r)' \/ l_link[r] = l
        /\ \A r \in l_Procs : l_at'[r] = "open" <=> l_at[r] = "open"
    BY <1>1, <2>1, <2>4, <2>6 DEF LinkTypes, Live
  <2> QED
    BY <2>3, <2>4, <2>5, <2>6, <2>7, TakenStarts DEF LinksInv
<1>5. ASSUME NEW p \in l_Procs, L!ForwardInvite(p) PROVE LinksInv'
  <2>1. /\ l_at[p] = "started"
        /\ \/ /\ l_link[p] # L!None /\ l_at' = [l_at EXCEPT ![p] = "sending"]
              /\ l_wire' = [l_wire EXCEPT ![p] = "sent"]
           \/ l_at' = [l_at EXCEPT ![p] = "alone"] /\ UNCHANGED l_wire
        /\ UNCHANGED <<l_link, l_env, l_invites, l_asked, l_lost, l_starts>>
    BY <1>5 DEF L!ForwardInvite
  <2>2. LinkTypes' /\ \A q \in l_Procs : Live(q)' <=> Live(q)
    BY <1>1, <2>1 DEF LinkTypes, Live
  <2>3. \A q \in l_Procs : l_at'[q] = "open" <=> l_at[q] = "open"
    BY <1>1, <2>1 DEF LinkTypes
  <2>4. \A l : Known(l) => Known(l)'
    BY <2>1, <2>3, KnownStays DEF L!Apps
  <2>5. \A q \in l_Procs : l_wire'[q] # l_wire[q] => l_wire'[q] = "sent" /\ l_link[q] # L!None
    BY <1>1, <2>1 DEF LinkTypes
  <2>6. Taken'
    BY <2>1, <2>2, <2>3, <2>4, <2>5, TakenStays
  <2> QED
    BY <1>1, <2>1, <2>2, <2>6, NoStart DEF LinksInv
<1>6. ASSUME NEW p \in l_Procs, L!ServeInvite(p) PROVE LinksInv'
  <2>1. /\ l_wire[p] = "sent" /\ l_peer[p] \in L!Apps
        /\ l_wire' = [l_wire EXCEPT ![p] = "taken"]
        /\ UNCHANGED <<l_at, l_link, l_env, l_asked, l_starts>>
    BY <1>6 DEF L!ServeInvite
  <2>2. PICK l : l = l_link[p]
    OBVIOUS
  <2>3. PICK q \in L!Apps : q = l_peer[p] /\ l = l_link[p]
    BY <2>2, <2>1
  <2>4. \/ l_invites' = [l_invites EXCEPT ![q] = Append(l_invites[q], l)] /\ UNCHANGED l_lost
        \/ l_lost' = l_lost \cup {l} /\ UNCHANGED l_invites
    BY <1>6, <2>3 DEF L!ServeInvite
  <2>5. l \in l_Links /\ l_invites[q] \in Seq(l_Links) /\ q \in l_Procs
    BY <1>1, <2>1, <2>3 DEF LinkTypes, Taken, L!Apps
  <2>6. /\ Append(l_invites[q], l) \in Seq(l_Links)
        /\ Len(Append(l_invites[q], l)) = Len(l_invites[q]) + 1
        /\ \A i \in 1 .. Len(l_invites[q]) : Append(l_invites[q], l)[i] = l_invites[q][i]
        /\ Append(l_invites[q], l)[Len(l_invites[q]) + 1] = l
    BY <2>5, AppendProperties
  <2>7. /\ DOMAIN l_invites[q] = 1 .. Len(l_invites[q])
        /\ DOMAIN Append(l_invites[q], l) = 1 .. Len(l_invites[q]) + 1
        /\ Len(l_invites[q]) \in Nat
    BY <2>5, <2>6, LenProperties
  <2>8. l_invites' \in [l_Procs -> Seq(l_Links)]
    BY <1>1, <2>4, <2>6 DEF LinkTypes
  <2>9. L!Apps' = L!Apps
    BY <2>1 DEF L!Apps
  <2>10. Known(l)' /\ \A k : Known(k) => Known(k)'
    <3>1. CASE l_lost' = l_lost \cup {l} /\ UNCHANGED l_invites
      BY <2>1, <2>9, <3>1 DEF Known
    <3>2. CASE l_invites' = [l_invites EXCEPT ![q] = Append(l_invites[q], l)] /\ UNCHANGED l_lost
      <4>1. /\ l_invites'[q] = Append(l_invites[q], l)
            /\ \A r \in l_Procs \ {q} : l_invites'[r] = l_invites[r]
        BY <1>1, <2>5, <3>2 DEF LinkTypes
      <4>2. \A r \in L!Apps : \A i \in DOMAIN l_invites[r] :
              i \in DOMAIN l_invites'[r] /\ l_invites'[r][i] = l_invites[r][i]
        BY <2>6, <2>7, <4>1 DEF L!Apps
      <4>3. Len(l_invites[q]) + 1 \in DOMAIN l_invites'[q] /\ l_invites'[q][Len(l_invites[q]) + 1] = l
        BY <2>6, <2>7, <4>1
      <4>4. \A k : Known(k) => Known(k)'
        BY <2>1, <2>9, <3>2, <4>2 DEF Known
      <4>5. Known(l)'
        BY <2>3, <2>9, <4>3 DEF Known
      <4> QED
        BY <4>4, <4>5
    <3> QED
      BY <2>4, <3>1, <3>2
  <2>11. Known(l_link[p])'
    BY <2>1, <2>3, <2>10 DEF Known
  <2>12. /\ \A r \in l_Procs \ {p} : l_wire'[r] = l_wire[r]
         /\ l_wire' \in [l_Procs -> {"none", "sent", "taken", "ok"}]
    BY <1>1, <2>1 DEF LinkTypes
  <2>13. LinkTypes' /\ \A r \in l_Procs : Live(r)' <=> Live(r)
    BY <1>1, <2>1, <2>8, <2>12 DEF LinkTypes, Live
  <2>14. Taken'
    BY <2>1, <2>10, <2>11, <2>12, <2>13, TakenStays
  <2> QED
    BY <1>1, <2>1, <2>13, <2>14, NoStart DEF LinksInv
<1>7. ASSUME NEW p \in l_Procs, L!Answer(p) PROVE LinksInv'
  <2>1. /\ l_wire[p] = "taken" /\ l_wire' = [l_wire EXCEPT ![p] = "ok"]
        /\ UNCHANGED <<l_at, l_link, l_env, l_invites, l_asked, l_lost, l_starts>>
    BY <1>7 DEF L!Answer
  <2>2. \A q \in l_Procs : l_wire'[q] # l_wire[q] => l_wire[q] = "taken" /\ l_wire'[q] = "ok"
    BY <1>1, <2>1 DEF LinkTypes
  <2>3. LinkTypes' /\ \A q \in l_Procs : Live(q)' <=> Live(q)
    BY <1>1, <2>1 DEF LinkTypes, Live
  <2>4. \A l : Known(l) => Known(l)'
    BY <2>1, KnownStays DEF L!Apps
  <2>5. Taken'
    BY <2>1, <2>2, <2>3, <2>4, TakenStays
  <2> QED
    BY <1>1, <2>1, <2>3, <2>5, NoStart DEF LinksInv
<1>8. ASSUME NEW p \in l_Procs, L!Forwarded(p) PROVE LinksInv'
  <2>1. /\ l_at[p] = "sending" /\ l_wire[p] = "ok" /\ l_at' = [l_at EXCEPT ![p] = "ended"]
        /\ UNCHANGED <<l_link, l_env, l_wire, l_invites, l_asked, l_lost, l_starts>>
    BY <1>8 DEF L!Forwarded, L!Handed
  <2>2. LinkTypes' /\ \A q \in l_Procs : Live(q)' => Live(q)
    BY <1>1, <2>1 DEF LinkTypes, Live
  <2>3. \A q \in l_Procs : l_at'[q] = "open" <=> l_at[q] = "open"
    BY <1>1, <2>1 DEF LinkTypes
  <2>4. \A l : Known(l) => Known(l)'
    BY <2>1, <2>3, KnownStays DEF L!Apps
  <2>5. \A q \in l_Procs : Live(q) => Live(q)' \/ q = p
    BY <1>1, <2>1 DEF LinkTypes, Live
  <2>6. Known(l_link[p])'
    <3>1. PICK k : l_link[p] = k
      OBVIOUS
    <3>2. Known(k)'
      BY <1>1, <2>1, <2>4, <3>1 DEF Taken
    <3> QED
      BY <2>1, <3>1, <3>2 DEF Known
  <2>7. Taken'
    BY <2>1, <2>3, <2>4, <2>5, <2>6, TakenStays
  <2> QED
    BY <1>1, <2>1, <2>2, <2>7, NoStart DEF LinksInv
<1>9. ASSUME NEW p \in l_Procs, L!NoAnswer(p) \/ L!StartApp(p) PROVE LinksInv'
  <2>1. /\ l_at[p] \in {"sending", "alone"}
        /\ \E step \in {"alone", "deaf", "binding"} : l_at' = [l_at EXCEPT ![p] = step]
        /\ UNCHANGED <<l_link, l_env, l_wire, l_invites, l_asked, l_lost, l_starts>>
    BY <1>9 DEF L!NoAnswer, L!StartApp
  <2>2. LinkTypes' /\ \A q \in l_Procs : Live(q)' <=> Live(q)
    BY <1>1, <2>1 DEF LinkTypes, Live
  <2>3. \A q \in l_Procs : l_at'[q] = "open" <=> l_at[q] = "open"
    BY <1>1, <2>1 DEF LinkTypes
  <2>4. \A l : Known(l) => Known(l)'
    BY <2>1, <2>3, KnownStays DEF L!Apps
  <2>5. Taken'
    BY <2>1, <2>2, <2>3, <2>4, TakenStays
  <2> QED
    BY <1>1, <2>1, <2>2, <2>5, NoStart DEF LinksInv
<1>10. ASSUME NEW p \in l_Procs, L!NoTerminal(p) PROVE LinksInv'
  <2>1. /\ l_at[p] = "alone" /\ l_at' = [l_at EXCEPT ![p] = "ended"]
        /\ l_lost' = l_lost \cup ({l_link[p]} \ {L!None})
        /\ UNCHANGED <<l_link, l_env, l_wire, l_invites, l_asked, l_starts>>
    BY <1>10 DEF L!NoTerminal
  <2>2. LinkTypes' /\ \A q \in l_Procs : Live(q)' => Live(q)
    BY <1>1, <2>1 DEF LinkTypes, Live
  <2>3. \A q \in l_Procs : l_at'[q] = "open" <=> l_at[q] = "open"
    BY <1>1, <2>1 DEF LinkTypes
  <2>4. \A l : Known(l) => Known(l)'
    BY <2>1, <2>3, KnownStays DEF L!Apps
  <2>5. \A q \in l_Procs : Live(q) => Live(q)' \/ q = p
    BY <1>1, <2>1 DEF LinkTypes, Live
  <2>6. l_link[p] = L!None \/ Known(l_link[p])'
    BY <2>1 DEF Known
  <2>7. Taken'
    BY <2>1, <2>3, <2>4, <2>5, <2>6, TakenStays
  <2> QED
    BY <1>1, <2>1, <2>2, <2>7, NoStart DEF LinksInv
<1>11. ASSUME NEW p \in l_Procs, L!Run(p) PROVE LinksInv'
  <2>1. /\ l_at[p] \in {"deaf", "binding"} /\ l_at' = [l_at EXCEPT ![p] = "open"]
        /\ l_asked' = l_asked \cup ({l_link[p]} \ {L!None})
        /\ UNCHANGED <<l_link, l_env, l_wire, l_invites, l_lost, l_starts>>
    BY <1>11 DEF L!Run
  <2>2. LinkTypes' /\ \A q \in l_Procs : Live(q)' <=> Live(q)
    BY <1>1, <2>1 DEF LinkTypes, Live
  <2>3. \A q \in l_Procs : /\ l_at[q] = "open" => l_at'[q] = "open"
                           /\ l_at'[q] = "open" => l_at[q] = "open" \/ q = p
    BY <1>1, <2>1 DEF LinkTypes
  <2>4. \A l : Known(l) => Known(l)'
    BY <2>1, <2>3, KnownStays DEF L!Apps
  <2>5. l_link[p] \in l_asked' \cup {L!None}
    BY <2>1
  <2>6. Taken'
    BY <2>1, <2>2, <2>3, <2>4, <2>5, TakenStays
  <2> QED
    BY <1>1, <2>1, <2>2, <2>6, NoStart DEF LinksInv
<1>12. ASSUME NEW p \in l_Procs, L!ReceiveInvite(p) PROVE LinksInv'
  <2>1. /\ p \in L!Apps /\ l_invites[p] # <<>>
        /\ l_asked' = l_asked \cup {Head(l_invites[p])}
        /\ l_invites' = [l_invites EXCEPT ![p] = Tail(l_invites[p])]
        /\ UNCHANGED <<l_at, l_link, l_env, l_wire, l_lost, l_starts>>
    BY <1>12 DEF L!ReceiveInvite
  <2>2. l_invites[p] \in Seq(l_Links)
    BY <1>1 DEF LinkTypes
  <2>3. /\ Tail(l_invites[p]) \in Seq(l_Links)
        /\ Len(Tail(l_invites[p])) = Len(l_invites[p]) - 1
        /\ \A i \in 1 .. Len(Tail(l_invites[p])) : Tail(l_invites[p])[i] = l_invites[p][i + 1]
    BY <2>1, <2>2, HeadTailProperties
  <2>4. /\ DOMAIN l_invites[p] = 1 .. Len(l_invites[p]) /\ Len(l_invites[p]) \in Nat
        /\ DOMAIN Tail(l_invites[p]) = 1 .. Len(l_invites[p]) - 1
    BY <2>2, <2>3, LenProperties
  <2>5. LinkTypes' /\ \A q \in l_Procs : Live(q)' <=> Live(q)
    BY <1>1, <2>1, <2>3 DEF LinkTypes, Live
  <2>6. Head(l_invites[p]) = l_invites[p][1]
    BY <2>2
  <2>7. \A l : Known(l) => Known(l)'
    <3> SUFFICES ASSUME NEW l, NEW q \in L!Apps, NEW i \in DOMAIN l_invites[q], l_invites[q][i] = l
                 PROVE  Known(l)'
      BY <2>1 DEF Known
    <3>1. L!Apps' = L!Apps /\ q \in l_Procs
      BY <2>1 DEF L!Apps
    <3>2. CASE q = p
      <4>1. CASE i = 1
        BY <2>1, <2>6, <3>2, <4>1 DEF Known
      <4>2. CASE i # 1
        <5>1. i - 1 \in 1 .. Len(Tail(l_invites[p])) /\ Tail(l_invites[p])[i - 1] = l_invites[p][i]
          BY <2>3, <2>4, <3>2, <4>2
        <5>2. l_invites'[p] = Tail(l_invites[p])
          BY <1>1, <2>1 DEF LinkTypes
        <5>3. i - 1 \in DOMAIN l_invites'[p] /\ l_invites'[p][i - 1] = l
          BY <2>3, <2>4, <3>2, <5>1, <5>2
        <5> QED
          BY <3>1, <3>2, <5>3 DEF Known
      <4> QED
        BY <4>1, <4>2
    <3>3. CASE q # p
      <4>1. l_invites'[q] = l_invites[q]
        BY <1>1, <2>1, <3>1, <3>3 DEF LinkTypes
      <4> QED
        BY <3>1, <4>1 DEF Known
    <3> QED
      BY <3>2, <3>3
  <2>8. Taken'
    BY <2>1, <2>5, <2>7, TakenStays
  <2> QED
    BY <1>1, <2>1, <2>5, <2>8, NoStart DEF LinksInv
<1>13. ASSUME NEW p \in l_Procs, L!CleanExit(p) PROVE LinksInv'
  <2>1. /\ l_at[p] = "open" /\ l_at' = [l_at EXCEPT ![p] = "ended"]
        /\ l_lost' = l_lost \cup {l_invites[p][i] : i \in DOMAIN l_invites[p]}
        /\ l_invites' = [l_invites EXCEPT ![p] = <<>>]
        /\ UNCHANGED <<l_link, l_env, l_wire, l_asked, l_starts>>
    BY <1>13 DEF L!CleanExit, L!Apps
  <2>2. <<>> \in Seq(l_Links)
    BY EmptySeq
  <2>3. LinkTypes' /\ \A q \in l_Procs : Live(q)' => Live(q)
    BY <1>1, <2>1, <2>2 DEF LinkTypes, Live
  <2>4. \A q \in l_Procs \ {p} : l_at'[q] = l_at[q] /\ l_invites'[q] = l_invites[q]
    BY <1>1, <2>1 DEF LinkTypes
  <2>5. \A l : Known(l) => Known(l)'
    <3> SUFFICES ASSUME NEW l, NEW q \in L!Apps, NEW i \in DOMAIN l_invites[q], l_invites[q][i] = l
                 PROVE  Known(l)'
      BY <2>1 DEF Known
    <3>1. CASE q = p
      BY <2>1, <3>1 DEF Known
    <3>2. CASE q # p
      BY <2>4, <3>2 DEF Known, L!Apps
    <3> QED
      BY <3>1, <3>2
  <2>6. ~Live(p)' /\ l_at'[p] # "open"
    BY <1>1, <2>1 DEF LinkTypes, Live
  <2>7. l_link[p] = L!None \/ Known(l_link[p])'
    BY <1>1, <2>1 DEF Taken, Known
  <2>8. \A q \in l_Procs : Live(q) => Live(q)' \/ q = p
    BY <2>4 DEF Live
  <2>9. Taken'
    BY <2>1, <2>4, <2>5, <2>6, <2>7, <2>8, TakenStays
  <2> QED
    BY <1>1, <2>1, <2>3, <2>9, NoStart DEF LinksInv
<1>14. L!Next \/ UNCHANGED lVars
  BY DEF Next, Others, all
<1> QED
  BY <1>2, <1>3, <1>4, <1>5, <1>6, <1>7, <1>8, <1>9, <1>10, <1>11, <1>12, <1>13, <1>14 DEF L!Next

\* A link that was opened is asked about or on its way, and processes do not
\* multiply.
THEOREM LinksStayTaken == Spec => []LinkIsTaken
<1>1. LinksInv => LinkIsTaken
  BY DEF LinksInv, OneProcess, Taken, Known, Live, LinkIsTaken, L!LinkIsTaken
<1> QED
  BY <1>1, LinksInit, LinksStep, PTL DEF Spec

-----------------------------------------------------------------------------
(* The clipboard                                                           *)

ConnRecords ==
    [by : B!Protocols \cup {"none"}, text : Nat, state : {"unused", "new", "served", "closed"}]

ClipTypes ==
    /\ b_owner \in B!Conns \cup {B!Tool, B!Other, B!Nobody}
    /\ b_held \in Nat /\ b_last \in Nat /\ b_copies \in Nat
    /\ b_conn \in [B!Conns -> ConnRecords]
    /\ b_told \subseteq B!Conns
    /\ b_kept \in [B!Protocols -> B!Conns \cup {0}]
    /\ b_copy = [text |-> b_copy.text, conn |-> b_copy.conn, ways |-> b_copy.ways]
    /\ b_copy.text \in Nat /\ b_copy.conn \in B!Conns \cup {0}
    /\ \A a \in b_asks : a = [of |-> a.of, text |-> a.text, got |-> a.got] /\ a.of \in B!Conns
    /\ b_read = [ways |-> b_read.ways, from |-> b_read.from, text |-> b_read.text,
                 got |-> b_read.got]

Alive(c) == b_conn[c].state \in {"new", "served"}

\* The connection that has the clipboard is open and has not been told
\* otherwise; the one of the copy under way is not confirmed yet, while those
\* kept are; what went well last is what the clipboard has, or what it had
\* before the copy under way took it.
OwnersAreRight ==
    /\ b_owner \in B!Conns => Alive(b_owner) /\ b_held = b_conn[b_owner].text /\ b_owner \notin b_told
    /\ \A c \in b_told : b_conn[c].state # "unused"
    /\ \A p \in B!Protocols : b_kept[p] # 0 => b_conn[b_kept[p]].state \in {"served", "closed"}
    /\ b_copy.conn # 0 =>
         /\ b_conn[b_copy.conn].state = "new" /\ b_conn[b_copy.conn].by \in B!Protocols
         /\ b_conn[b_copy.conn].text = b_copy.text
         /\ b_copy.ways # <<>> /\ Head(b_copy.ways) \in B!Protocols
    /\ b_last # 0 =>
         IF b_copy.conn # 0 THEN b_owner = b_copy.conn
         ELSE /\ b_held = b_last
              /\ b_owner = B!Tool \/ (b_owner \in B!Conns /\ b_conn[b_owner].state = "served")

\* Who was asked for the clipboard still has the text it was asked for, or
\* has been closed.
ReadersAreRight ==
    /\ \A a \in b_asks :
         /\ b_conn[a.of].state # "unused"
         /\ Alive(a.of) => b_conn[a.of].text = a.text
         /\ a.got \in {0, a.text}
    /\ b_read.from \in B!Conns =>
         /\ b_conn[b_read.from].state # "unused"
         /\ Alive(b_read.from) => b_conn[b_read.from].text = b_read.text
    /\ b_read.ways # <<>> => b_read.got = 0
    /\ b_read.got \in {0, b_read.text}

ClipInv == ClipTypes /\ OwnersAreRight /\ ReadersAreRight

LEMMA ClipInit == Init => ClipInv
<1> SUFFICES ASSUME B!Init PROVE ClipInv
  BY DEF Init
<1> USE MCAppAssumption
    DEF B!ClipboardAssumption, B!Init, B!Conns, B!Nobody, B!Protocols, B!NoCopy, B!NoRead
<1>1. ClipTypes
  BY DEF ClipTypes, ConnRecords, B!Unused, B!Tool, B!Other
<1>2. OwnersAreRight /\ ReadersAreRight
  BY DEF OwnersAreRight, ReadersAreRight
<1> QED
  BY <1>1, <1>2 DEF ClipInv

\* Connections that are not used for the first time, and do not change their
\* text while they are alive, leave the readers right.
LEMMA ReadersStay ==
    ASSUME ClipInv, UNCHANGED <<b_asks, b_read>>,
           \A c \in B!Conns :
             /\ b_conn[c].state # "unused" => b_conn'[c].state # "unused"
             /\ b_conn[c].state # "unused" /\ Alive(c)' => Alive(c) /\ b_conn'[c].text = b_conn[c].text
    PROVE  ReadersAreRight'
BY DEF ClipInv, ClipTypes, ReadersAreRight

LEMMA ClipStep == ClipInv /\ [Next]_all => ClipInv'
<1> SUFFICES ASSUME ClipInv, [Next]_all PROVE ClipInv'
  OBVIOUS
<1>1. ClipTypes /\ OwnersAreRight /\ ReadersAreRight
  BY DEF ClipInv
<1> USE MCAppAssumption DEF B!ClipboardAssumption, B!Nobody
<1>2. CASE UNCHANGED bVars
  BY <1>1, <1>2 DEF bVars, ClipInv, ClipTypes, OwnersAreRight, ReadersAreRight, Alive
<1>3. CASE B!CopyToClipboard
  <2>1. /\ b_copy = B!NoCopy
        /\ b_copies' = b_copies + 1
        /\ b_copy' = [text |-> b_copies + 1, conn |-> 0, ways |-> B!Ways]
        /\ UNCHANGED <<b_owner, b_held, b_conn, b_told, b_kept, b_asks, b_last, b_read>>
    BY <1>3 DEF B!CopyToClipboard
  <2>2. ClipTypes'
    BY <1>1, <2>1 DEF ClipTypes
  <2>3. OwnersAreRight'
    BY <1>1, <2>1 DEF OwnersAreRight, Alive, B!NoCopy
  <2> QED
    BY <1>1, <2>1, <2>2, <2>3, ReadersStay DEF ClipInv, Alive
<1>4. CASE B!WayFails
  <2>1. /\ b_copy.conn = 0
        /\ b_copy' = [b_copy EXCEPT !.conn = 0, !.ways = Tail(@)]
        /\ UNCHANGED <<b_owner, b_held, b_conn, b_told, b_kept, b_asks, b_copies, b_last, b_read>>
    BY <1>4 DEF B!WayFails, B!NextWay
  <2>2. b_copy' = [text |-> b_copy.text, conn |-> 0, ways |-> Tail(b_copy.ways)]
    BY <1>1, <2>1 DEF ClipTypes
  <2>3. ClipTypes'
    BY <1>1, <2>1, <2>2 DEF ClipTypes
  <2>4. OwnersAreRight'
    BY <1>1, <2>1, <2>2 DEF OwnersAreRight, Alive
  <2> QED
    BY <1>1, <2>1, <2>3, <2>4, ReadersStay DEF ClipInv, Alive
<1>5. CASE B!SetSelection
  <2>1. PICK c \in B!Conns :
          /\ b_copy.ways # <<>> /\ b_copy.conn = 0 /\ Head(b_copy.ways) \in b_Reachable
          /\ b_conn[c] = B!Unused
          /\ b_conn' = [b_conn EXCEPT ![c] = [by |-> Head(b_copy.ways), text |-> b_copy.text,
                                              state |-> "new"]]
          /\ b_copy' = [b_copy EXCEPT !.conn = c]
          /\ B!Take(c, b_copy.text)
          /\ UNCHANGED <<b_kept, b_asks, b_copies, b_last, b_read>>
    BY <1>5 DEF B!SetSelection
  <2>2. b_owner' = c /\ b_held' = b_copy.text
    BY <2>1 DEF B!Take
  <2>3. b_told' = IF b_owner \in B!Conns THEN b_told \cup {b_owner} ELSE b_told
    BY <2>1 DEF B!Take
  <2>4. b_copy' = [text |-> b_copy.text, conn |-> c, ways |-> b_copy.ways]
    BY <1>1, <2>1 DEF ClipTypes
  <2>5. /\ b_conn' \in [B!Conns -> ConnRecords]
        /\ b_conn'[c] = [by |-> Head(b_copy.ways), text |-> b_copy.text, state |-> "new"]
        /\ \A d \in B!Conns \ {c} : b_conn'[d] = b_conn[d]
    BY <1>1, <2>1 DEF ClipTypes, ConnRecords
  <2>6. b_conn[c].state = "unused" /\ c # 0
    BY <2>1 DEF B!Unused, B!Conns
  <2>7. ClipTypes'
    BY <1>1, <2>1, <2>2, <2>3, <2>4, <2>5 DEF ClipTypes
  <2>8. \A d \in B!Conns : b_conn[d].state # "unused" => b_conn'[d] = b_conn[d]
    BY <2>5, <2>6
  <2>9. b_owner \in B!Conns => b_conn[b_owner].state # "unused"
    BY <1>1 DEF OwnersAreRight, Alive
  <2>10. \A d \in b_told' : d \in B!Conns /\ d # c /\ b_conn'[d].state # "unused"
    BY <1>1, <2>3, <2>6, <2>8, <2>9 DEF ClipTypes, OwnersAreRight
  <2>11. \A p \in B!Protocols : b_kept'[p] # 0 => b_conn'[b_kept'[p]].state \in {"served", "closed"}
    BY <1>1, <2>1, <2>8 DEF ClipTypes, OwnersAreRight
  <2>12. OwnersAreRight'
    BY <2>1, <2>2, <2>4, <2>5, <2>6, <2>10, <2>11 DEF OwnersAreRight, Alive
  <2> QED
    BY <2>1, <2>7, <2>8, <2>12, ReadersStay DEF ClipInv, Alive
<1>6. CASE B!Unconfirmed
  <2>1. PICK c \in B!Conns : b_copy.conn = c
    BY <1>1, <1>6 DEF B!Unconfirmed, ClipTypes
  <2>2. /\ b_conn' = [b_conn EXCEPT ![c].state = "closed"]
        /\ b_told' = b_told \ {c}
        /\ b_copy' = [b_copy EXCEPT !.conn = 0, !.ways = Tail(@)] /\ b_last' = 0
        /\ UNCHANGED <<b_kept, b_asks, b_copies, b_read>>
    BY <1>6, <2>1 DEF B!Unconfirmed, B!Close, B!NextWay
  <2>3. IF b_owner = c THEN b_owner' = 0 /\ b_held' = 0 ELSE UNCHANGED <<b_owner, b_held>>
    BY <1>6, <2>1 DEF B!Unconfirmed, B!Close
  <2>4. b_copy' = [text |-> b_copy.text, conn |-> 0, ways |-> Tail(b_copy.ways)]
    BY <1>1, <2>2 DEF ClipTypes
  <2>5. /\ b_conn' \in [B!Conns -> ConnRecords]
        /\ b_conn'[c].state = "closed"
        /\ \A d \in B!Conns \ {c} : b_conn'[d] = b_conn[d]
    BY <1>1, <2>2 DEF ClipTypes, ConnRecords
  <2>6. 0 \notin B!Conns
    BY DEF B!Conns
  <2>7. ClipTypes'
    <3>1. b_owner' \in B!Conns \cup {B!Tool, B!Other, B!Nobody} /\ b_held' \in Nat
      BY <1>1, <2>3 DEF ClipTypes, B!Nobody
    <3>2. b_last' \in Nat /\ b_told' \subseteq B!Conns
      BY <1>1, <2>2 DEF ClipTypes
    <3>3. b_copy'.conn = 0 /\ b_copy'.text = b_copy.text
      BY <2>4
    <3>4. UNCHANGED <<b_kept, b_asks, b_copies, b_read>>
      BY <2>2
    <3> QED
      BY <1>1, <2>4, <2>5, <3>1, <3>2, <3>3, <3>4 DEF ClipTypes
  <2>8. OwnersAreRight'
    BY <1>1, <2>2, <2>3, <2>4, <2>5, <2>6 DEF ClipTypes, OwnersAreRight, Alive
  <2> QED
    BY <2>2, <2>5, <2>7, <2>8, ReadersStay DEF ClipInv, Alive
<1>7. CASE B!Confirmed
  <2>1. PICK c \in B!Conns : b_copy.conn = c
    BY <1>1, <1>7 DEF B!Confirmed, ClipTypes
  <2>2. PICK p \in B!Protocols : b_conn[c].by = p
    BY <1>1, <2>1 DEF OwnersAreRight, B!Conns
  <2>3. /\ IF b_kept[p] # 0
           THEN B!Close(b_kept[p], [b_conn EXCEPT ![c].state = "served"])
           ELSE b_conn' = [b_conn EXCEPT ![c].state = "served"] /\ UNCHANGED <<b_owner, b_held, b_told>>
        /\ b_kept' = [b_kept EXCEPT ![p] = c]
        /\ b_copy' = B!NoCopy
        /\ b_last' = IF b_owner = c THEN b_copy.text ELSE b_last
        /\ UNCHANGED <<b_asks, b_copies, b_read>>
    BY <1>7, <2>1, <2>2 DEF B!Confirmed, B!Before
  <2>4. /\ b_conn[c].state = "new" /\ b_conn[c].text = b_copy.text
        /\ c # 0
    BY <1>1, <2>1 DEF OwnersAreRight, B!Conns
  <2>5. b_last' # 0 => b_owner = c /\ b_last' = b_conn[c].text
    BY <1>1, <2>1, <2>3, <2>4 DEF OwnersAreRight
  <2>6. \A d \in B!Conns : d = b_kept[p] => d # c /\ b_conn[d].state \in {"served", "closed"}
    BY <1>1, <2>4 DEF OwnersAreRight, B!Conns
  <2>7. /\ b_conn' \in [B!Conns -> ConnRecords]
        /\ b_conn'[c].state = "served" /\ b_conn'[c].text = b_conn[c].text
        /\ \A d \in B!Conns \ {c} :
             b_conn'[d] = b_conn[d] \/ (d = b_kept[p] /\ b_conn'[d].state = "closed")
        /\ b_told' \subseteq b_told
        /\ \/ UNCHANGED <<b_owner, b_held>> /\ (b_owner = b_kept[p] => b_kept[p] = 0)
           \/ b_owner = b_kept[p] /\ b_kept[p] # 0 /\ b_owner' = 0 /\ b_held' = 0
    <3>1. CASE b_kept[p] = 0
      <4>1. b_conn' = [b_conn EXCEPT ![c].state = "served"] /\ UNCHANGED <<b_owner, b_held, b_told>>
        BY <2>3, <3>1
      <4> QED
        BY <1>1, <3>1, <4>1 DEF ClipTypes, ConnRecords
    <3>2. CASE b_kept[p] # 0
      <4>1. PICK e \in B!Conns : e = b_kept[p]
        BY <1>1, <3>2 DEF ClipTypes
      <4>2. /\ b_conn' = [[b_conn EXCEPT ![c].state = "served"] EXCEPT ![e].state = "closed"]
            /\ b_told' = b_told \ {e}
        BY <2>3, <3>2, <4>1 DEF B!Close
      <4>3. IF b_owner = e THEN b_owner' = 0 /\ b_held' = 0 ELSE UNCHANGED <<b_owner, b_held>>
        BY <2>3, <3>2, <4>1 DEF B!Close
      <4>4. e # c
        BY <2>6, <4>1
      <4>5. /\ b_conn' \in [B!Conns -> ConnRecords]
            /\ b_conn'[c].state = "served" /\ b_conn'[c].text = b_conn[c].text
            /\ b_conn'[e].state = "closed"
            /\ \A d \in B!Conns \ {c, e} : b_conn'[d] = b_conn[d]
        BY <1>1, <4>2, <4>4 DEF ClipTypes, ConnRecords
      <4> QED
        BY <3>2, <4>1, <4>2, <4>3, <4>5
    <3> QED
      BY <3>1, <3>2
  <2>8. b_kept' \in [B!Protocols -> B!Conns \cup {0}] /\ b_kept'[p] = c
        /\ \A q \in B!Protocols \ {p} : b_kept'[q] = b_kept[q]
    BY <1>1, <2>3 DEF ClipTypes
  <2>9. b_last' \in Nat
    BY <1>1, <2>3 DEF ClipTypes
  <2>10. b_copy' = [text |-> 0, conn |-> 0, ways |-> <<>>]
    BY <2>3 DEF B!NoCopy
  <2>11. /\ b_owner' \in B!Conns \cup {B!Tool, B!Other, B!Nobody} /\ b_held' \in Nat
         /\ b_told' \subseteq B!Conns
    BY <1>1, <2>7 DEF ClipTypes
  <2>12. ClipTypes'
    BY <1>1, <2>3, <2>7, <2>8, <2>9, <2>10, <2>11 DEF ClipTypes
  <2>13. 0 \notin B!Conns
    BY DEF B!Conns
  <2>14. b_owner' \in B!Conns =>
           b_owner' = b_owner /\ b_held' = b_held /\ (b_owner = c \/ b_conn'[b_owner] = b_conn[b_owner])
    BY <2>7, <2>13
  <2>15. b_owner' \in B!Conns =>
           Alive(b_owner)' /\ b_held' = b_conn'[b_owner'].text /\ b_owner' \notin b_told'
    BY <1>1, <2>7, <2>14 DEF OwnersAreRight, Alive
  <2>16. \A d \in b_told' : b_conn'[d].state # "unused"
    BY <1>1, <2>7 DEF ClipTypes, OwnersAreRight
  <2>17. \A q \in B!Protocols : b_kept'[q] # 0 => b_conn'[b_kept'[q]].state \in {"served", "closed"}
    <3> SUFFICES ASSUME NEW q \in B!Protocols, b_kept'[q] # 0
                 PROVE  b_conn'[b_kept'[q]].state \in {"served", "closed"}
      OBVIOUS
    <3>1. CASE q = p
      BY <2>7, <2>8, <3>1
    <3>2. CASE q # p
      <4>1. b_kept'[q] = b_kept[q] /\ b_kept[q] \in B!Conns
        BY <1>1, <2>8, <3>2 DEF ClipTypes
      <4>2. b_conn[b_kept[q]].state \in {"served", "closed"}
        BY <1>1, <4>1, <2>13 DEF OwnersAreRight
      <4> QED
        BY <2>7, <4>1, <4>2
    <3> QED
      BY <3>1, <3>2
  <2>18. b_last' # 0 =>
           b_held' = b_last' /\ b_owner' \in B!Conns /\ b_conn'[b_owner'].state = "served"
    <3> SUFFICES ASSUME b_last' # 0
                 PROVE  b_held' = b_last' /\ b_owner' \in B!Conns /\ b_conn'[b_owner'].state = "served"
      OBVIOUS
    <3>1. b_owner = c /\ b_last' = b_conn[c].text
      BY <2>5
    <3>2. b_owner' = b_owner /\ b_held' = b_held
      BY <2>6, <2>7, <3>1
    <3>3. b_held = b_conn[c].text
      BY <1>1, <3>1 DEF OwnersAreRight
    <3> QED
      BY <2>7, <3>1, <3>2, <3>3
  <2>19. OwnersAreRight'
    BY <2>10, <2>15, <2>16, <2>17, <2>18 DEF OwnersAreRight, Alive
  <2>20. \A d \in B!Conns :
           /\ b_conn[d].state # "unused" => b_conn'[d].state # "unused"
           /\ b_conn[d].state # "unused" /\ Alive(d)' => Alive(d) /\ b_conn'[d].text = b_conn[d].text
    BY <2>4, <2>7 DEF Alive
  <2> QED
    BY <2>3, <2>12, <2>19, <2>20, ReadersStay DEF ClipInv
<1>8. CASE B!UseTool
  <2>1. /\ b_copy.ways # <<>> /\ Head(b_copy.ways) \notin B!Protocols
        /\ b_owner' = B!Tool /\ b_held' = b_copy.text
        /\ b_last' = b_copy.text /\ b_copy' = B!NoCopy
        /\ UNCHANGED <<b_conn, b_kept, b_asks, b_copies, b_read>>
    BY <1>8 DEF B!UseTool, B!Take
  <2>2. b_told' = IF b_owner \in B!Conns THEN b_told \cup {b_owner} ELSE b_told
    BY <1>8 DEF B!UseTool, B!Take
  <2>3. B!Tool \notin B!Conns
    BY DEF B!Tool, B!Conns
  <2>4. b_copy' = [text |-> 0, conn |-> 0, ways |-> <<>>]
    BY <2>1 DEF B!NoCopy
  <2>5. ClipTypes'
    BY <1>1, <2>1, <2>2, <2>4 DEF ClipTypes
  <2>6. OwnersAreRight'
    BY <1>1, <2>1, <2>2, <2>3, <2>4 DEF OwnersAreRight, Alive
  <2> QED
    BY <2>1, <2>5, <2>6, ReadersStay DEF ClipInv, Alive
<1>9. CASE B!NoWay
  <2>1. /\ b_copy.ways = <<>> /\ b_copy' = B!NoCopy
        /\ UNCHANGED <<b_owner, b_held, b_conn, b_told, b_kept, b_asks, b_copies, b_last, b_read>>
    BY <1>9 DEF B!NoWay
  <2>2. b_copy' = [text |-> 0, conn |-> 0, ways |-> <<>>]
    BY <2>1 DEF B!NoCopy
  <2>3. b_copy.conn = 0
    BY <1>1, <2>1 DEF OwnersAreRight
  <2>4. ClipTypes'
    BY <1>1, <2>1, <2>2 DEF ClipTypes
  <2>5. OwnersAreRight'
    BY <1>1, <2>1, <2>2, <2>3 DEF OwnersAreRight, Alive
  <2> QED
    BY <2>1, <2>4, <2>5, ReadersStay DEF ClipInv, Alive
<1>10. CASE B!OtherCopies
  <2>1. /\ b_copies' = b_copies + 1
        /\ b_owner' = B!Other /\ b_held' = b_copies + 1 /\ b_last' = 0
        /\ UNCHANGED <<b_conn, b_kept, b_copy, b_asks, b_read>>
    BY <1>10 DEF B!OtherCopies, B!Take
  <2>2. b_told' = IF b_owner \in B!Conns THEN b_told \cup {b_owner} ELSE b_told
    BY <1>10 DEF B!OtherCopies, B!Take
  <2>3. B!Other \notin B!Conns
    BY DEF B!Other, B!Conns
  <2>4. ClipTypes'
    BY <1>1, <2>1, <2>2 DEF ClipTypes
  <2>5. OwnersAreRight'
    BY <1>1, <2>1, <2>2, <2>3 DEF OwnersAreRight, Alive
  <2> QED
    BY <2>1, <2>4, <2>5, ReadersStay DEF ClipInv, Alive
<1>11. CASE B!Paste \/ B!Serve
  <2>1. UNCHANGED <<b_owner, b_held, b_conn, b_told, b_kept, b_copy, b_copies, b_last, b_read>>
    BY <1>11 DEF B!Paste, B!Serve
  <2>2. ASSUME B!Paste PROVE b_owner \in B!Conns /\ b_asks' = b_asks \cup {[of |-> b_owner, text |-> b_held, got |-> 0]}
    BY <2>2 DEF B!Paste
  <2>3. ASSUME NEW a \in b_asks', B!Paste
        PROVE  /\ a = [of |-> a.of, text |-> a.text, got |-> a.got] /\ a.of \in B!Conns
               /\ b_conn[a.of].state # "unused"
               /\ Alive(a.of) => b_conn[a.of].text = a.text
               /\ a.got \in {0, a.text}
    BY <1>1, <2>2, <2>3 DEF ClipTypes, ReadersAreRight, OwnersAreRight, Alive
  <2>4. ASSUME NEW a \in b_asks', B!Serve
        PROVE  /\ a = [of |-> a.of, text |-> a.text, got |-> a.got] /\ a.of \in B!Conns
               /\ b_conn[a.of].state # "unused"
               /\ Alive(a.of) => b_conn[a.of].text = a.text
               /\ a.got \in {0, a.text}
    <3>1. PICK e \in b_asks :
            /\ b_conn[e.of].state = "served"
            /\ b_asks' = (b_asks \ {e}) \cup {[e EXCEPT !.got = b_conn[e.of].text]}
      BY <2>4 DEF B!Serve
    <3>2. /\ e = [of |-> e.of, text |-> e.text, got |-> e.got] /\ e.of \in B!Conns
          /\ b_conn[e.of].text = e.text
      BY <1>1, <3>1 DEF ClipTypes, ReadersAreRight, Alive
    <3>3. [e EXCEPT !.got = b_conn[e.of].text] = [of |-> e.of, text |-> e.text, got |-> e.text]
      BY <3>2
    <3>4. CASE a \in b_asks
      BY <1>1, <3>4 DEF ClipTypes, ReadersAreRight
    <3>5. CASE a = [of |-> e.of, text |-> e.text, got |-> e.text]
      BY <3>1, <3>2, <3>5
    <3> QED
      BY <3>1, <3>3, <3>4, <3>5
  <2>5. ClipTypes'
    BY <1>1, <1>11, <2>1, <2>3, <2>4 DEF ClipTypes
  <2>6. OwnersAreRight'
    BY <1>1, <2>1 DEF OwnersAreRight, Alive
  <2>7. ReadersAreRight'
    BY <1>1, <1>11, <2>1, <2>3, <2>4 DEF ReadersAreRight, Alive
  <2> QED
    BY <2>5, <2>6, <2>7 DEF ClipInv
<1>12. CASE B!StartRead \/ B!Request \/ B!Receive \/ B!ReadFails
  <2>1. UNCHANGED <<b_owner, b_held, b_conn, b_told, b_kept, b_copy, b_asks, b_copies, b_last>>
    BY <1>12 DEF B!StartRead, B!Request, B!Receive, B!ReadFails
  <2> DEFINE Right(r) ==
        /\ r = [ways |-> r.ways, from |-> r.from, text |-> r.text, got |-> r.got]
        /\ r.from \in B!Conns =>
             b_conn[r.from].state # "unused" /\ (Alive(r.from) => b_conn[r.from].text = r.text)
        /\ r.ways # <<>> => r.got = 0
        /\ r.got \in {0, r.text}
  <2>2. Right(b_read)
    BY <1>1 DEF ClipTypes, ReadersAreRight
  <2>3. 0 \notin B!Conns
    BY DEF B!Conns
  <2>4. ASSUME NEW ways PROVE Right([B!NoRead EXCEPT !.ways = ways])
    <3>1. [B!NoRead EXCEPT !.ways = ways] = [ways |-> ways, from |-> 0, text |-> 0, got |-> 0]
      BY DEF B!NoRead
    <3> QED
      BY <2>3, <3>1
  <2>5. CASE B!StartRead \/ B!ReadFails
    <3>1. Right(b_read')
      BY <2>4, <2>5 DEF B!StartRead, B!ReadFails
    <3> QED
      BY <1>1, <2>1, <3>1 DEF ClipInv, ClipTypes, OwnersAreRight, ReadersAreRight, Alive
  <2>6. CASE B!Request
    <3>1. /\ b_read.ways # <<>>
          /\ \/ /\ b_owner # 0
                /\ b_read' = [ways |-> b_read.ways, from |-> b_owner, text |-> b_held, got |-> b_read.got]
             \/ b_read' = [ways |-> <<>>, from |-> b_read.from, text |-> b_read.text, got |-> b_read.got]
      BY <2>2, <2>6 DEF B!Request
    <3>2. b_owner \in B!Conns => Alive(b_owner) /\ b_held = b_conn[b_owner].text
      BY <1>1 DEF OwnersAreRight
    <3>3. Right(b_read')
      BY <2>2, <3>1, <3>2 DEF Alive
    <3> QED
      BY <1>1, <2>1, <3>3 DEF ClipInv, ClipTypes, OwnersAreRight, ReadersAreRight, Alive
  <2>7. CASE B!Receive
    <3>1. /\ b_read.from \in B!Conns => b_conn[b_read.from].state = "served"
          /\ b_read' = [b_read EXCEPT !.ways = <<>>, !.from = 0,
                          !.got = IF b_read.from \in B!Conns THEN b_conn[b_read.from].text
                                  ELSE b_read.text]
      BY <2>7 DEF B!Receive
    <3>2. b_read.from \in B!Conns => b_conn[b_read.from].text = b_read.text
      BY <2>2, <3>1 DEF Alive
    <3>3. b_read' = [ways |-> <<>>, from |-> 0, text |-> b_read.text, got |-> b_read.text]
      BY <2>2, <3>1, <3>2
    <3>4. Right(b_read')
      BY <2>3, <3>3
    <3> QED
      BY <1>1, <2>1, <3>4 DEF ClipInv, ClipTypes, OwnersAreRight, ReadersAreRight, Alive
  <2> QED
    BY <1>12, <2>5, <2>6, <2>7
<1>13. CASE B!Exit
  <2>1. /\ b_conn' = [c \in B!Conns |-> IF b_conn[c] = B!Unused THEN B!Unused
                                        ELSE [b_conn[c] EXCEPT !.state = "closed"]]
        /\ b_told' = {} /\ b_copy' = B!NoCopy /\ b_last' = 0 /\ b_read' = B!NoRead
        /\ UNCHANGED <<b_kept, b_asks, b_copies>>
    BY <1>13 DEF B!Exit
  <2>2. IF b_owner \in B!Conns THEN b_owner' = 0 /\ b_held' = 0 ELSE UNCHANGED <<b_owner, b_held>>
    BY <1>13 DEF B!Exit
  <2>3. /\ b_conn' \in [B!Conns -> ConnRecords]
        /\ \A c \in B!Conns : b_conn[c].state # "unused" => b_conn'[c].state = "closed"
        /\ \A c \in B!Conns : ~Alive(c)'
    <3>1. B!Unused \in ConnRecords /\ B!Unused.state = "unused"
      BY DEF B!Unused, ConnRecords
    <3>2. \A r \in ConnRecords : [r EXCEPT !.state = "closed"] \in ConnRecords
                                 /\ [r EXCEPT !.state = "closed"].state = "closed"
      BY DEF ConnRecords
    <3> QED
      BY <1>1, <2>1, <3>1, <3>2 DEF ClipTypes, Alive
  <2>4. 0 \notin B!Conns
    BY DEF B!Conns
  <2>5. /\ b_copy' = [text |-> 0, conn |-> 0, ways |-> <<>>]
        /\ b_read' = [ways |-> <<>>, from |-> 0, text |-> 0, got |-> 0]
    BY <2>1 DEF B!NoCopy, B!NoRead
  <2>6. ClipTypes'
    BY <1>1, <2>1, <2>2, <2>3, <2>5 DEF ClipTypes
  <2>7. OwnersAreRight'
    BY <1>1, <2>1, <2>2, <2>3, <2>4, <2>5 DEF ClipTypes, OwnersAreRight
  <2>8. ReadersAreRight'
    BY <1>1, <2>1, <2>3, <2>4, <2>5 DEF ClipTypes, ReadersAreRight
  <2> QED
    BY <2>6, <2>7, <2>8 DEF ClipInv
<1>14. ASSUME NEW c \in B!Conns, B!Lost(c) PROVE ClipInv'
  <2>1. /\ b_kept' = B!Forgets(c)
        /\ UNCHANGED <<b_copy, b_asks, b_copies, b_last, b_read>>
    BY <1>14 DEF B!Lost
  <2>2. /\ b_kept' \in [B!Protocols -> B!Conns \cup {0}]
        /\ \A p \in B!Protocols : b_kept'[p] \in {b_kept[p], 0}
    BY <1>1, <2>1 DEF ClipTypes, B!Forgets
  <2>3. /\ b_conn' \in [B!Conns -> ConnRecords]
        /\ b_conn'[c].state = "closed" /\ b_conn[c].state \in {"served", "closed"}
        /\ \A d \in B!Conns \ {c} : b_conn'[d] = b_conn[d]
        /\ b_told' \subseteq b_told
        /\ UNCHANGED <<b_owner, b_held>> /\ b_owner # c
    <3>1. CASE B!Cancelled(c) /\ B!Close(c, [b_conn EXCEPT ![c].text = 0])
      <4>1. /\ c \in b_told /\ b_conn[c].state = "served"
            /\ b_conn' = [[b_conn EXCEPT ![c].text = 0] EXCEPT ![c].state = "closed"]
            /\ b_told' = b_told \ {c}
        BY <3>1 DEF B!Cancelled, B!Close
      <4>2. b_owner # c
        BY <1>1, <4>1 DEF OwnersAreRight
      <4>3. UNCHANGED <<b_owner, b_held>>
        BY <3>1, <4>2 DEF B!Close
      <4> QED
        BY <1>1, <4>1, <4>2, <4>3 DEF ClipTypes, ConnRecords
    <3>2. CASE /\ b_conn[c].state = "closed" /\ b_conn[c].text # 0
               /\ b_conn' = [b_conn EXCEPT ![c].text = 0] /\ UNCHANGED <<b_owner, b_held, b_told>>
      <4>1. b_owner # c
        BY <1>1, <3>2 DEF OwnersAreRight, Alive
      <4> QED
        BY <1>1, <3>2, <4>1 DEF ClipTypes, ConnRecords
    <3> QED
      BY <1>14, <3>1, <3>2 DEF B!Lost
  <2>4. ClipTypes'
    BY <1>1, <2>1, <2>2, <2>3 DEF ClipTypes
  <2>5. b_owner' \in B!Conns =>
          Alive(b_owner)' /\ b_held' = b_conn'[b_owner'].text /\ b_owner' \notin b_told'
    BY <1>1, <2>3 DEF OwnersAreRight, Alive
  <2>6. \A d \in b_told' : b_conn'[d].state # "unused"
    BY <1>1, <2>3 DEF ClipTypes, OwnersAreRight
  <2>7. \A p \in B!Protocols : b_kept'[p] # 0 => b_conn'[b_kept'[p]].state \in {"served", "closed"}
    BY <1>1, <2>2, <2>3 DEF ClipTypes, OwnersAreRight
  <2>8. b_copy.conn # c
    BY <1>1, <2>3 DEF OwnersAreRight, B!Conns
  <2>9. b_copy'.conn # 0 => b_conn'[b_copy'.conn] = b_conn[b_copy.conn]
    BY <1>1, <2>1, <2>3, <2>8 DEF ClipTypes
  <2>10. OwnersAreRight'
    BY <1>1, <2>1, <2>3, <2>5, <2>6, <2>7, <2>9 DEF OwnersAreRight
  <2> QED
    BY <2>1, <2>3, <2>4, <2>10, ReadersStay DEF ClipInv, Alive
<1>15. B!Next \/ UNCHANGED bVars
  BY DEF Next, Others, all
<1> QED
  BY <1>2, <1>3, <1>4, <1>5, <1>6, <1>7, <1>8, <1>9, <1>10, <1>11, <1>12, <1>13, <1>14, <1>15
     DEF B!Next

\* A paste gets what was copied last, from a connection that is served.
THEOREM CopiedTextStaysPasted == Spec => []CopiedTextIsPasted
<1>1. ClipInv => CopiedTextIsPasted
  BY DEF ClipInv, OwnersAreRight, ReadersAreRight, CopiedTextIsPasted, B!CopiedTextIsPasted, B!NoCopy
<1> QED
  BY <1>1, ClipInit, ClipStep, PTL DEF Spec

-----------------------------------------------------------------------------
(* The updater                                                             *)

UpdateSteps == {"off", "asleep", "found", "fetched", "cleared", "aside", "direct",
                "writing", "installed", "done"}

UpdateTypes ==
    /\ u_target \in U!File /\ u_old \in U!File
    /\ u_latest \in U!Release /\ u_found \in [u_Copies -> U!Release]
    /\ u_image \in [u_Copies -> U!File] /\ u_tmp \in [u_Copies -> U!File]
    /\ u_at \in [u_Copies -> UpdateSteps]
    /\ u_faults \in Nat /\ u_updaters \subseteq u_Copies /\ IsFiniteSet(u_updaters)

\* What runs was started from a whole file, and what was fetched is whole.
WholeFiles ==
    \A c \in u_Copies :
      /\ u_at[c] # "off" => u_image[c].whole
      /\ u_at[c] \in {"fetched", "cleared", "aside", "direct", "writing"} => u_tmp[c].whole
      /\ u_at[c] \in {"cleared", "aside", "direct", "writing", "installed"} => c \in u_updaters

\* A copy is about to make the program's file whole.
Repairs(c) ==
    \/ u_at[c] = "aside"
    \/ u_at[c] = "writing" /\ u_target.by = c /\ u_target # U!Absent

\* While nothing has failed, a file that is not whole is under repair.
UnderRepair ==
    u_faults = 0 /\ ~u_target.whole => \E c \in u_Copies : Repairs(c)

\* What the only copy that came to update has left, by the step it is at
LeftBy(u) ==
    /\ u_at[u] \in {"asleep", "found", "fetched", "cleared", "installed", "direct"} =>
         u_target.whole
    /\ u_at[u] = "direct" => u_faults > 0 \/ u_old.whole
    /\ u_at[u] = "aside" => u_old.whole /\ u_target = U!Absent
    /\ u_at[u] = "writing" =>
         u_target.by = u /\ u_target # U!Absent /\ (u_faults > 0 \/ u_old.whole)
    /\ u_at[u] \in {"off", "done"} =>
         \/ u_target.whole
         \/ u_faults > 0 /\ u_old.whole
         \/ u_faults > 1 /\ u_target # U!Absent

OneLeaves ==
    /\ u_updaters = {} => u_target.whole
    /\ \A u \in u_Copies : u_updaters \subseteq {u} => LeftBy(u)

UpdateInv == UpdateTypes /\ WholeFiles /\ UnderRepair /\ OneLeaves

\* The files of the model: what is whole is there, and what is there is known
\* by its version.
LEMMA FilesAre ==
    /\ U!Absent \in U!File /\ ~U!Absent.whole
    /\ \A f \in U!File : f.whole \in BOOLEAN /\ (f.whole => f # U!Absent)
    /\ \A r \in U!Release, w \in BOOLEAN, c \in u_Copies :
         LET f == [version |-> r.version, whole |-> w, by |-> c]
         IN  f \in U!File /\ f # U!Absent /\ f.whole = w /\ f.by = c
<1>1. U!Absent \in U!File /\ ~U!Absent.whole /\ U!Absent.version = 0
  BY DEF U!Absent, U!File
<1>2. ASSUME NEW f \in U!File PROVE f.whole \in BOOLEAN /\ (f.whole => f # U!Absent)
  <2>1. CASE f = U!Absent
    BY <1>1, <2>1 DEF U!Absent
  <2>2. CASE f \in [version : 1 .. u_MaxVersion, whole : BOOLEAN, by : u_Copies \cup {0}]
    <3>1. f.whole \in BOOLEAN /\ f.version # 0
      BY <2>2
    <3> QED
      BY <1>1, <3>1
  <2> QED
    BY <2>1, <2>2 DEF U!File
<1>3. ASSUME NEW r \in U!Release, NEW w \in BOOLEAN, NEW c \in u_Copies,
             NEW f, f = [version |-> r.version, whole |-> w, by |-> c]
      PROVE  f \in U!File /\ f # U!Absent /\ f.whole = w /\ f.by = c
  <2>1. r.version \in 1 .. u_MaxVersion
    BY DEF U!Release
  <2>2. f.version = r.version /\ f.version # 0 /\ f.whole = w /\ f.by = c
    BY <1>3, <2>1
  <2>3. f \in U!File
    BY <1>3, <2>1 DEF U!File
  <2> QED
    BY <1>1, <2>2, <2>3
<1> QED
  BY <1>1, <1>2, <1>3

\* A copy that writes makes whole what it wrote, and nothing else changes.
LEMMA WritesAre ==
    ASSUME NEW c \in u_Copies, NEW f \in U!File, u_tmp[c].whole = TRUE
    PROVE  /\ U!Written(c, f) \in U!File
           /\ f.whole => U!Written(c, f).whole
           /\ f.by = c /\ f # U!Absent => U!Written(c, f).whole
           /\ ~(f.by = c /\ f # U!Absent) => U!Written(c, f) = f
<1>1. CASE f.by = c /\ f # U!Absent
  <2>1. f \in [version : 1 .. u_MaxVersion, whole : BOOLEAN, by : u_Copies \cup {0}]
    BY <1>1 DEF U!File
  <2>2. U!Written(c, f) = [f EXCEPT !.whole = TRUE]
    BY <1>1 DEF U!Written
  <2>3. U!Written(c, f) \in [version : 1 .. u_MaxVersion, whole : BOOLEAN, by : u_Copies \cup {0}]
    BY <2>1, <2>2
  <2>4. U!Written(c, f).whole
    BY <2>1, <2>2
  <2> QED
    BY <1>1, <2>3, <2>4 DEF U!File
<1>2. CASE ~(f.by = c /\ f # U!Absent)
  BY <1>2 DEF U!Written
<1> QED
  BY <1>1, <1>2

LEMMA UpdateInit == Init => UpdateInv
<1> SUFFICES ASSUME U!Init PROVE UpdateInv
  BY DEF Init
<1>1. 1 \in 1 .. u_MaxVersion
  BY MCAppAssumption DEF U!SelfUpdateAssumption
<1>2. u_target = [version |-> 1, whole |-> TRUE, by |-> 0] /\ u_target.whole
  BY DEF U!Init
<1>3. u_target \in U!File /\ u_latest \in U!Release
  BY <1>1, <1>2 DEF U!Init, U!File, U!Release
<1>4. IsFiniteSet(u_updaters) /\ u_updaters = {}
  BY FS_EmptySet DEF U!Init
<1>5. UpdateTypes
  BY <1>3, <1>4, FilesAre DEF U!Init, UpdateTypes, UpdateSteps
<1>6. WholeFiles
  BY DEF U!Init, WholeFiles
<1>7. OneLeaves
  BY <1>2 DEF U!Init, OneLeaves, LeftBy
<1> QED
  BY <1>2, <1>5, <1>6, <1>7 DEF UpdateInv, UnderRepair

\* A copy goes on, and neither the program's file nor the one set aside changes.
LEMMA FilesStay ==
    ASSUME UpdateInv, NEW c \in u_Copies, NEW s \in UpdateSteps,
           u_at' = [u_at EXCEPT ![c] = s],
           UNCHANGED <<u_target, u_old, u_updaters>>,
           u_faults' \in Nat, u_faults' >= u_faults,
           u_at[c] \in {"aside", "writing"} => s \in {"off", "done"} /\ u_faults' > u_faults,
           s \notin {"aside", "writing"},
           s \in {"asleep", "found", "fetched", "cleared", "installed", "direct"} => 
              u_target.whole \/ u_at[c] \in {"asleep", "found", "fetched", "cleared", "installed", "direct"},
           s = "direct" => u_faults' > 0 \/ u_old.whole
    PROVE  UnderRepair' /\ OneLeaves'
<1>1. u_at \in [u_Copies -> UpdateSteps] /\ u_faults \in Nat
  BY DEF UpdateInv, UpdateTypes
<1>2. u_at'[c] = s /\ \A d \in u_Copies \ {c} : u_at'[d] = u_at[d]
  BY <1>1
<1>3. u_target' = u_target /\ u_old' = u_old /\ u_updaters' = u_updaters
  OBVIOUS
<1>4. UnderRepair'
  <2> SUFFICES ASSUME u_faults' = 0, ~u_target.whole
               PROVE  \E d \in u_Copies : Repairs(d)'
    BY <1>3 DEF UnderRepair
  <2>1. u_faults = 0
    BY <1>1
  <2>2. PICK d \in u_Copies : Repairs(d)
    BY <2>1 DEF UpdateInv, UnderRepair
  <2>3. d # c
    BY <1>1, <2>1, <2>2 DEF Repairs
  <2> QED
    BY <1>2, <1>3, <2>2, <2>3 DEF Repairs
<1>5. ASSUME NEW u \in u_Copies, u_updaters \subseteq {u} PROVE LeftBy(u)'
  <2>1. LeftBy(u)
    BY <1>5 DEF UpdateInv, OneLeaves
  <2>2. CASE u # c
    <3>1. u_at'[u] = u_at[u]
      BY <1>2, <2>2
    <3>2. u_faults > 0 => u_faults' > 0
      BY <1>1
    <3>3. u_faults > 1 => u_faults' > 1
      BY <1>1
    <3> QED
      BY <1>3, <2>1, <3>1, <3>2, <3>3 DEF LeftBy
  <2>3. CASE u = c
    <3>1. u_at'[u] = s /\ u_at[u] \in UpdateSteps
      BY <1>1, <1>2, <2>3
    <3>2. u_faults > 0 => u_faults' > 0
      BY <1>1
    <3>3. u_faults > 1 => u_faults' > 1
      BY <1>1
    <3>4. u_at[u] \in {"aside", "writing"} => u_faults' > 0 /\ (u_faults > 0 => u_faults' > 1)
      BY <1>1, <2>3
    <3> QED
      BY <1>3, <2>1, <2>3, <3>1, <3>2, <3>3, <3>4 DEF LeftBy, UpdateSteps
  <2> QED
    BY <2>2, <2>3
<1>6. OneLeaves'
  BY <1>3, <1>5 DEF OneLeaves, UpdateInv
<1> QED
  BY <1>4, <1>6

\* What runs is whole, so a file that is not there is not in use.
LEMMA UsedIsWhole == ASSUME UpdateInv, NEW f, U!InUse(f) PROVE f.whole
BY DEF UpdateInv, WholeFiles, U!InUse

\* A copy goes on with its temporary file as it is, or without it.
LEMMA CopiesStayWhole ==
    ASSUME UpdateInv, NEW c \in u_Copies, NEW s \in UpdateSteps,
           u_at' = [u_at EXCEPT ![c] = s], u_image' = u_image,
           u_tmp' = u_tmp \/ u_tmp' = [u_tmp EXCEPT ![c] = U!Absent],
           s \in {"cleared", "aside", "direct", "writing"} =>
             u_tmp' = u_tmp /\ u_at[c] \in {"fetched", "cleared", "aside", "direct", "writing"},
           s # "fetched",
           s # "off" => u_at[c] # "off",
           u_updaters \subseteq u_updaters',
           s \in {"cleared", "aside", "direct", "writing", "installed"} => c \in u_updaters'
    PROVE  WholeFiles' /\ u_at' \in [u_Copies -> UpdateSteps] /\ u_tmp' \in [u_Copies -> U!File]
<1>1. /\ u_at \in [u_Copies -> UpdateSteps] /\ u_tmp \in [u_Copies -> U!File]
      /\ u_image \in [u_Copies -> U!File]
  BY DEF UpdateInv, UpdateTypes
<1>2. u_at'[c] = s /\ \A d \in u_Copies \ {c} : u_at'[d] = u_at[d]
  BY <1>1
<1>3. u_tmp' \in [u_Copies -> U!File] /\ \A d \in u_Copies \ {c} : u_tmp'[d] = u_tmp[d]
  BY <1>1, FilesAre
<1>4. ASSUME NEW d \in u_Copies
      PROVE  /\ u_at'[d] # "off" => u_image'[d].whole
             /\ u_at'[d] \in {"fetched", "cleared", "aside", "direct", "writing"} => u_tmp'[d].whole
             /\ u_at'[d] \in {"cleared", "aside", "direct", "writing", "installed"} => d \in u_updaters'
  <2>1. /\ u_at[d] # "off" => u_image[d].whole
        /\ u_at[d] \in {"fetched", "cleared", "aside", "direct", "writing"} => u_tmp[d].whole
        /\ u_at[d] \in {"cleared", "aside", "direct", "writing", "installed"} => d \in u_updaters
    BY DEF UpdateInv, WholeFiles
  <2>2. CASE d = c
    <3>1. u_at'[d] = s /\ (s # "off" => u_image'[d].whole)
      BY <1>2, <2>1, <2>2
    <3>2. s \in {"fetched", "cleared", "aside", "direct", "writing"} => u_tmp'[d].whole
      BY <2>1, <2>2
    <3> QED
      BY <2>2, <3>1, <3>2
  <2>3. CASE d # c
    BY <1>2, <1>3, <2>1, <2>3
  <2> QED
    BY <2>2, <2>3
<1> QED
  BY <1>1, <1>3, <1>4 DEF WholeFiles

\* Another copy came, or the one that had come: what is left by the only one.
LEMMA OneLeft ==
    ASSUME UpdateInv, NEW c \in u_Copies, NEW s \in UpdateSteps, c \in u_updaters',
           u_at' = [u_at EXCEPT ![c] = s], u_updaters \subseteq u_updaters',
           u_updaters = {} \/ u_updaters \subseteq {c} => LeftBy(c)'
    PROVE  OneLeaves'
<1>1. ASSUME NEW u \in u_Copies, u_updaters' \subseteq {u} PROVE LeftBy(u)'
  <2>1. u = c /\ u_updaters \subseteq {c}
    BY <1>1
  <2> QED
    BY <2>1
<1> QED
  BY <1>1 DEF OneLeaves

LEMMA UpdateStep == UpdateInv /\ [Next]_all => UpdateInv'
<1> SUFFICES ASSUME UpdateInv, [Next]_all PROVE UpdateInv'
  OBVIOUS
<1>1. UpdateTypes /\ WholeFiles /\ UnderRepair /\ OneLeaves
  BY DEF UpdateInv
<1>2. u_faults \in Nat /\ (U!Fault => u_faults' \in Nat /\ u_faults' > u_faults)
  BY <1>1 DEF UpdateTypes, U!Fault
<1>3. CASE UNCHANGED uVars
  BY <1>1, <1>3 DEF uVars, UpdateInv, UpdateTypes, WholeFiles, UnderRepair, Repairs, OneLeaves, LeftBy
<1>4. CASE U!Publish \/ U!Upload
  <2>1. /\ UNCHANGED <<u_target, u_old, u_tmp, u_at, u_image, u_found, u_faults, u_updaters>>
    BY <1>4 DEF U!Publish, U!Upload, U!Disk, U!Fixed
  <2>2. ASSUME U!Publish PROVE u_latest' \in U!Release
    <3>1. u_latest.version \in 1 .. u_MaxVersion /\ u_MaxVersion \in Nat
      BY <1>1, MCAppAssumption DEF UpdateTypes, U!Release, U!SelfUpdateAssumption
    <3>2. u_latest' = [version |-> u_latest.version + 1, parts |-> {}] /\ u_latest.version < u_MaxVersion
      BY <2>2 DEF U!Publish
    <3>3. u_latest.version + 1 \in 1 .. u_MaxVersion
      BY <3>1, <3>2
    <3> QED
      BY <3>2, <3>3 DEF U!Release
  <2>3. ASSUME U!Upload PROVE u_latest' \in U!Release
    <3>1. PICK p \in U!Parts : u_latest' = [u_latest EXCEPT !.parts = @ \cup {p}]
      BY <2>3 DEF U!Upload
    <3> QED
      BY <1>1, <3>1 DEF UpdateTypes, U!Release
  <2>4. u_latest' \in U!Release
    BY <1>4, <2>2, <2>3
  <2> QED
    BY <1>1, <2>1, <2>4 DEF UpdateInv, UpdateTypes, WholeFiles, UnderRepair, Repairs, OneLeaves, LeftBy
<1>5. ASSUME NEW c \in u_Copies, U!Launch(c) PROVE UpdateInv'
  <2>1. /\ u_at[c] = "off" /\ u_target.whole
        /\ u_at' = [u_at EXCEPT ![c] = "asleep"] /\ u_image' = [u_image EXCEPT ![c] = u_target]
        /\ UNCHANGED <<u_latest, u_target, u_old, u_tmp, u_found, u_faults, u_updaters>>
    BY <1>5 DEF U!Launch, U!Run, U!Disk
  <2>2. UnderRepair' /\ OneLeaves'
    <3>1. u_faults' \in Nat /\ u_faults' >= u_faults
      BY <1>2, <2>1
    <3> QED
      BY <2>1, <3>1, FilesStay DEF UpdateSteps
  <2>3. UpdateTypes'
    BY <1>1, <2>1 DEF UpdateTypes, UpdateSteps
  <2>4. WholeFiles'
    BY <1>1, <2>1 DEF UpdateTypes, WholeFiles
  <2> QED
    BY <2>2, <2>3, <2>4 DEF UpdateInv
<1>6. ASSUME NEW c \in u_Copies, U!CheckAndUpdateAsync(c) PROVE UpdateInv'
  <2>1. PICK s \in {"found", "done"} :
          /\ u_at[c] = "asleep"
          /\ u_at' = [u_at EXCEPT ![c] = s] /\ u_found' = [u_found EXCEPT ![c] = u_latest]
          /\ UNCHANGED <<u_latest, u_target, u_old, u_tmp, u_image, u_faults, u_updaters>>
    BY <1>6 DEF U!CheckAndUpdateAsync, U!Run, U!Disk
  <2>2. UnderRepair' /\ OneLeaves'
    <3>1. u_faults' \in Nat /\ u_faults' >= u_faults
      BY <1>2, <2>1
    <3> QED
      BY <2>1, <3>1, FilesStay DEF UpdateSteps
  <2>3. UpdateTypes'
    BY <1>1, <2>1 DEF UpdateTypes, UpdateSteps
  <2>4. WholeFiles'
    BY <1>1, <2>1, CopiesStayWhole DEF UpdateSteps
  <2> QED
    BY <2>2, <2>3, <2>4 DEF UpdateInv
<1>7. ASSUME NEW c \in u_Copies, U!Download(c) PROVE UpdateInv'
  <2>1. /\ u_at[c] = "found"
        /\ \/ u_at' = [u_at EXCEPT ![c] = "done"] /\ u_tmp' = u_tmp
           \/ /\ u_at' = [u_at EXCEPT ![c] = "fetched"]
              /\ u_tmp' = [u_tmp EXCEPT ![c] =
                             [version |-> u_found[c].version, whole |-> TRUE, by |-> c]]
        /\ UNCHANGED <<u_latest, u_target, u_old, u_image, u_found, u_faults, u_updaters>>
    BY <1>7 DEF U!Download, U!Verified, U!Run, U!Disk
  <2>2. UnderRepair' /\ OneLeaves'
    BY <1>2, <2>1, FilesStay DEF UpdateSteps
  <2>3. u_found[c] \in U!Release /\ TRUE \in BOOLEAN
    BY <1>1 DEF UpdateTypes
  <2>4. PICK f \in U!File : f = [version |-> u_found[c].version, whole |-> TRUE, by |-> c] /\ f.whole
    <3> DEFINE f == [version |-> u_found[c].version, whole |-> TRUE, by |-> c]
    <3>1. f \in U!File
      BY <2>3, FilesAre
    <3>2. f.whole
      OBVIOUS
    <3> QED
      BY <3>1, <3>2
  <2>5. \/ u_at' = [u_at EXCEPT ![c] = "done"] /\ u_tmp' = u_tmp
        \/ u_at' = [u_at EXCEPT ![c] = "fetched"] /\ u_tmp' = [u_tmp EXCEPT ![c] = f]
    BY <2>1, <2>4
  <2>6. UpdateTypes'
    BY <1>1, <2>1, <2>4, <2>5 DEF UpdateTypes, UpdateSteps
  <2>7. WholeFiles'
    BY <1>1, <2>1, <2>4, <2>5 DEF UpdateTypes, UpdateSteps, WholeFiles
  <2> QED
    BY <2>2, <2>6, <2>7 DEF UpdateInv
<1>8. ASSUME NEW c \in u_Copies, U!RemoveOld(c) PROVE UpdateInv'
  <2>1. /\ u_at[c] = "fetched" /\ u_old' \in {u_old, U!Absent}
        /\ u_at' = [u_at EXCEPT ![c] = "cleared"] /\ u_updaters' = u_updaters \cup {c}
        /\ UNCHANGED <<u_latest, u_target, u_tmp, u_image, u_found, u_faults>>
    BY <1>8 DEF U!RemoveOld, U!Run
  <2>2. IsFiniteSet(u_updaters')
    BY <1>1, <2>1, FS_AddElement DEF UpdateTypes
  <2>3. UpdateTypes'
    BY <1>1, <2>1, <2>2, FilesAre DEF UpdateTypes, UpdateSteps
  <2>4. WholeFiles'
    BY <2>1, CopiesStayWhole DEF UpdateSteps
  <2>5. u_at'[c] = "cleared" /\ \A d \in u_Copies \ {c} : u_at'[d] = u_at[d]
    BY <1>1, <2>1 DEF UpdateTypes
  <2>6. UnderRepair'
    BY <1>1, <2>1, <2>5 DEF UnderRepair, Repairs
  <2>7. u_updaters = {} \/ u_updaters \subseteq {c} => u_target.whole
    BY <1>1, <2>1 DEF OneLeaves, LeftBy
  <2>8. OneLeaves'
    <3>1. u_updaters = {} \/ u_updaters \subseteq {c} => LeftBy(c)'
      BY <2>1, <2>5, <2>7 DEF LeftBy
    <3> QED
      BY <2>1, <3>1, OneLeft DEF UpdateSteps
  <2> QED
    BY <2>3, <2>4, <2>6, <2>8 DEF UpdateInv
<1>9. ASSUME NEW c \in u_Copies, U!MoveAside(c) PROVE UpdateInv'
  <2>1. /\ u_at[c] = "cleared" /\ u_old' = u_target /\ u_target' = U!Absent
        /\ u_at' = [u_at EXCEPT ![c] = "aside"]
        /\ UNCHANGED <<u_latest, u_tmp, u_image, u_found, u_faults, u_updaters>>
    BY <1>9 DEF U!MoveAside, U!Run
  <2>2. c \in u_updaters
    BY <1>1, <2>1 DEF WholeFiles
  <2>3. UpdateTypes'
    BY <1>1, <2>1, FilesAre DEF UpdateTypes, UpdateSteps
  <2>4. WholeFiles'
    BY <2>1, <2>2, CopiesStayWhole DEF UpdateSteps
  <2>5. u_at'[c] = "aside"
    BY <1>1, <2>1 DEF UpdateTypes
  <2>6. UnderRepair'
    BY <2>5 DEF UnderRepair, Repairs
  <2>7. u_updaters \subseteq {c} => u_target.whole
    BY <1>1, <2>1 DEF OneLeaves, LeftBy
  <2>8. u_updaters = {} \/ u_updaters \subseteq {c} => LeftBy(c)'
    BY <2>1, <2>2, <2>5, <2>7 DEF LeftBy
  <2>9. OneLeaves'
    BY <2>1, <2>2, <2>8, OneLeft DEF UpdateSteps
  <2> QED
    BY <2>3, <2>4, <2>6, <2>9 DEF UpdateInv
<1>10. ASSUME NEW c \in u_Copies, U!CannotMoveAside(c) PROVE UpdateInv'
  <2>1. /\ u_at[c] = "cleared"
        /\ U!Fault \/ ((u_target = U!Absent \/ U!InUse(u_old)) /\ u_faults' = u_faults)
        /\ \/ u_at' = [u_at EXCEPT ![c] = "done"] /\ u_tmp' = [u_tmp EXCEPT ![c] = U!Absent]
           \/ u_at' = [u_at EXCEPT ![c] = "direct"] /\ u_tmp' = u_tmp
        /\ UNCHANGED <<u_latest, u_target, u_old, u_image, u_found, u_updaters>>
    BY <1>10 DEF U!CannotMoveAside, U!Run, U!Give
  <2>2. c \in u_updaters
    BY <1>1, <2>1 DEF WholeFiles
  <2>3. u_faults' \in Nat /\ u_faults' >= u_faults
    BY <1>2, <2>1
  <2>4. PICK s \in {"done", "direct"} : u_at' = [u_at EXCEPT ![c] = s]
    BY <2>1
  <2>5. u_tmp' = u_tmp \/ u_tmp' = [u_tmp EXCEPT ![c] = U!Absent]
    BY <2>1
  <2>6. u_at'[c] = s /\ \A d \in u_Copies \ {c} : u_at'[d] = u_at[d]
    BY <1>1, <2>4 DEF UpdateTypes
  <2>7. s = "direct" => u_tmp' = u_tmp
    BY <1>1, <2>1, <2>6 DEF UpdateTypes
  <2>8. WholeFiles' /\ u_at' \in [u_Copies -> UpdateSteps] /\ u_tmp' \in [u_Copies -> U!File]
    BY <2>1, <2>2, <2>4, <2>5, <2>7, CopiesStayWhole DEF UpdateSteps
  <2>9. UpdateTypes'
    BY <1>1, <2>1, <2>3, <2>8 DEF UpdateTypes
  <2>10. UnderRepair'
    BY <1>1, <1>2, <2>1, <2>3, <2>6 DEF UnderRepair, Repairs
  <2>11. u_updaters \subseteq {c} => u_target.whole
    BY <1>1, <2>1 DEF OneLeaves, LeftBy
  <2>12. u_target.whole => u_faults' > 0 \/ u_old.whole
    BY <1>2, <2>1, FilesAre, UsedIsWhole
  <2>13. u_updaters = {} \/ u_updaters \subseteq {c} => LeftBy(c)'
    BY <2>1, <2>2, <2>6, <2>11, <2>12 DEF LeftBy
  <2>14. OneLeaves'
    BY <2>1, <2>2, <2>4, <2>13, OneLeft DEF UpdateSteps
  <2> QED
    BY <2>8, <2>9, <2>10, <2>14 DEF UpdateInv
<1>11. ASSUME NEW c \in u_Copies, U!Overwrite(c) PROVE UpdateInv'
  <2>1. /\ u_at[c] = "direct"
        /\ UNCHANGED <<u_latest, u_old, u_image, u_found, u_faults, u_updaters>>
    BY <1>11 DEF U!Overwrite
  <2>2. c \in u_updaters
    BY <1>1, <2>1 DEF WholeFiles
  <2>3. u_updaters \subseteq {c} => u_target.whole /\ (u_faults > 0 \/ u_old.whole)
    BY <1>1, <2>1 DEF OneLeaves, LeftBy
  <2>4. CASE /\ u_at' = [u_at EXCEPT ![c] = "done"] /\ u_tmp' = [u_tmp EXCEPT ![c] = U!Absent]
             /\ u_target' = u_target
    <3>1. WholeFiles' /\ u_at' \in [u_Copies -> UpdateSteps] /\ u_tmp' \in [u_Copies -> U!File]
      BY <2>1, <2>2, <2>4, CopiesStayWhole DEF UpdateSteps
    <3>2. UpdateTypes'
      BY <1>1, <2>1, <2>4, <3>1 DEF UpdateTypes
    <3>3. u_at'[c] = "done" /\ \A d \in u_Copies \ {c} : u_at'[d] = u_at[d]
      BY <1>1, <2>4 DEF UpdateTypes
    <3>4. UnderRepair'
      BY <1>1, <2>1, <2>4, <3>3 DEF UnderRepair, Repairs
    <3>5. u_updaters = {} \/ u_updaters \subseteq {c} => LeftBy(c)'
      BY <2>2, <2>3, <2>4, <3>3 DEF LeftBy
    <3>6. OneLeaves'
      BY <2>1, <2>2, <2>4, <3>5, OneLeft DEF UpdateSteps
    <3> QED
      BY <3>1, <3>2, <3>4, <3>6 DEF UpdateInv
  <2>5. CASE /\ u_at' = [u_at EXCEPT ![c] = "writing"] /\ u_tmp' = u_tmp
             /\ u_target' = [version |-> u_found[c].version, whole |-> FALSE, by |-> c]
    <3>1. WholeFiles' /\ u_at' \in [u_Copies -> UpdateSteps] /\ u_tmp' \in [u_Copies -> U!File]
      BY <2>1, <2>2, <2>5, CopiesStayWhole DEF UpdateSteps
    <3>2. u_found[c] \in U!Release /\ FALSE \in BOOLEAN
      BY <1>1 DEF UpdateTypes
    <3>3. u_target' \in U!File /\ u_target' # U!Absent /\ u_target'.by = c
      BY <2>5, <3>2, FilesAre
    <3>4. UpdateTypes'
      BY <1>1, <2>1, <2>5, <3>1, <3>3 DEF UpdateTypes
    <3>5. u_at'[c] = "writing"
      BY <1>1, <2>5 DEF UpdateTypes
    <3>6. UnderRepair'
      BY <3>3, <3>5 DEF UnderRepair, Repairs
    <3>7. u_updaters = {} \/ u_updaters \subseteq {c} => LeftBy(c)'
      BY <2>1, <2>2, <2>3, <3>3, <3>5 DEF LeftBy
    <3>8. OneLeaves'
      BY <2>1, <2>2, <2>5, <3>7, OneLeft DEF UpdateSteps
    <3> QED
      BY <3>1, <3>4, <3>6, <3>8 DEF UpdateInv
  <2> QED
    BY <1>11, <2>4, <2>5 DEF U!Overwrite, U!Run, U!Give
<1>12. ASSUME NEW c \in u_Copies, U!FinishOverwrite(c) PROVE UpdateInv'
  <2>1. /\ u_at[c] = "writing"
        /\ u_target' = U!Written(c, u_target) /\ u_old' = U!Written(c, u_old)
        /\ u_at' = [u_at EXCEPT ![c] = "done"] /\ u_tmp' = [u_tmp EXCEPT ![c] = U!Absent]
        /\ UNCHANGED <<u_latest, u_image, u_found, u_faults, u_updaters>>
    BY <1>12 DEF U!FinishOverwrite, U!Run, U!Give
  <2>2. c \in u_updaters /\ u_tmp[c].whole
    BY <1>1, <2>1 DEF WholeFiles
  <2>3. u_target \in U!File /\ u_old \in U!File /\ u_tmp[c].whole = TRUE
    BY <1>1, <2>2, FilesAre DEF UpdateTypes
  <2>4. /\ u_target' \in U!File /\ u_old' \in U!File
        /\ u_target.by = c /\ u_target # U!Absent => u_target'.whole
        /\ ~(u_target.by = c /\ u_target # U!Absent) => u_target' = u_target
    BY <2>1, <2>3, WritesAre
  <2>5. WholeFiles' /\ u_at' \in [u_Copies -> UpdateSteps] /\ u_tmp' \in [u_Copies -> U!File]
    BY <2>1, <2>2, CopiesStayWhole DEF UpdateSteps
  <2>6. UpdateTypes'
    BY <1>1, <2>1, <2>4, <2>5 DEF UpdateTypes
  <2>7. u_at'[c] = "done" /\ \A d \in u_Copies \ {c} : u_at'[d] = u_at[d]
    BY <1>1, <2>1 DEF UpdateTypes
  <2>8. UnderRepair'
    BY <1>1, <2>1, <2>4, <2>7 DEF UnderRepair, Repairs
  <2>9. u_updaters \subseteq {c} => u_target'.whole
    BY <1>1, <2>1, <2>4 DEF OneLeaves, LeftBy
  <2>10. u_updaters = {} \/ u_updaters \subseteq {c} => LeftBy(c)'
    BY <2>2, <2>7, <2>9 DEF LeftBy
  <2>11. OneLeaves'
    BY <2>1, <2>2, <2>10, OneLeft DEF UpdateSteps
  <2> QED
    BY <2>5, <2>6, <2>8, <2>11 DEF UpdateInv
<1>13. ASSUME NEW c \in u_Copies, U!Install(c) PROVE UpdateInv'
  <2>1. /\ u_at[c] = "aside" /\ u_target' = u_tmp[c]
        /\ u_at' = [u_at EXCEPT ![c] = "installed"] /\ u_tmp' = [u_tmp EXCEPT ![c] = U!Absent]
        /\ UNCHANGED <<u_latest, u_old, u_image, u_found, u_faults, u_updaters>>
    BY <1>13 DEF U!Install, U!Run
  <2>2. c \in u_updaters /\ u_target'.whole
    BY <1>1, <2>1 DEF WholeFiles
  <2>3. WholeFiles' /\ u_at' \in [u_Copies -> UpdateSteps] /\ u_tmp' \in [u_Copies -> U!File]
    BY <2>1, <2>2, CopiesStayWhole DEF UpdateSteps
  <2>4. UpdateTypes'
    BY <1>1, <2>1, <2>3 DEF UpdateTypes
  <2>5. u_at'[c] = "installed"
    BY <1>1, <2>1 DEF UpdateTypes
  <2>6. u_updaters = {} \/ u_updaters \subseteq {c} => LeftBy(c)'
    BY <2>2, <2>5 DEF LeftBy
  <2>7. OneLeaves'
    BY <2>1, <2>2, <2>6, OneLeft DEF UpdateSteps
  <2> QED
    BY <2>2, <2>3, <2>4, <2>7 DEF UpdateInv, UnderRepair
<1>14. ASSUME NEW c \in u_Copies, U!CannotInstall(c) PROVE UpdateInv'
  <2>1. /\ u_at[c] = "aside"
        /\ U!Fault \/ (U!InUse(u_target) /\ u_faults' = u_faults)
        /\ \/ u_old # U!Absent /\ ~U!InUse(u_target) /\ u_target' = u_old /\ u_old' = U!Absent
           \/ (u_old = U!Absent \/ U!InUse(u_target)) /\ u_target' = u_target /\ u_old' = u_old
        /\ u_at' = [u_at EXCEPT ![c] = "done"] /\ u_tmp' = [u_tmp EXCEPT ![c] = U!Absent]
        /\ UNCHANGED <<u_latest, u_image, u_found, u_updaters>>
    BY <1>14 DEF U!CannotInstall, U!PutBack, U!Run, U!Give
  <2>2. c \in u_updaters
    BY <1>1, <2>1 DEF WholeFiles
  <2>3. u_faults' \in Nat /\ u_faults' >= u_faults
    BY <1>2, <2>1
  <2>4. WholeFiles' /\ u_at' \in [u_Copies -> UpdateSteps] /\ u_tmp' \in [u_Copies -> U!File]
    BY <2>1, <2>2, CopiesStayWhole DEF UpdateSteps
  <2>5. u_target' \in U!File /\ u_old' \in U!File
    BY <1>1, <2>1, FilesAre DEF UpdateTypes
  <2>6. UpdateTypes'
    BY <1>1, <2>1, <2>3, <2>4, <2>5 DEF UpdateTypes
  <2>7. U!InUse(u_target) => u_target.whole
    BY UsedIsWhole
  <2>8. u_faults' = 0 => u_target'.whole
    BY <1>2, <2>1, <2>7
  <2>9. u_updaters \subseteq {c} => u_old.whole /\ u_target = U!Absent
    BY <1>1, <2>1 DEF OneLeaves, LeftBy
  <2>10. u_updaters \subseteq {c} => u_target'.whole
    BY <1>1, <2>1, <2>7, <2>9, FilesAre DEF UpdateTypes
  <2>11. u_at'[c] = "done"
    BY <1>1, <2>1 DEF UpdateTypes
  <2>12. u_updaters = {} \/ u_updaters \subseteq {c} => LeftBy(c)'
    BY <2>2, <2>10, <2>11 DEF LeftBy
  <2>13. OneLeaves'
    BY <2>1, <2>2, <2>12, OneLeft DEF UpdateSteps
  <2> QED
    BY <2>4, <2>6, <2>8, <2>13 DEF UpdateInv, UnderRepair
<1>15. ASSUME NEW c \in u_Copies, U!Clean(c) PROVE UpdateInv'
  <2>1. /\ u_at[c] = "installed" /\ u_old' \in {u_old, U!Absent}
        /\ u_at' = [u_at EXCEPT ![c] = "done"]
        /\ UNCHANGED <<u_latest, u_target, u_tmp, u_image, u_found, u_faults, u_updaters>>
    BY <1>15 DEF U!Clean, U!Run
  <2>2. c \in u_updaters
    BY <1>1, <2>1 DEF WholeFiles
  <2>3. WholeFiles' /\ u_at' \in [u_Copies -> UpdateSteps]
    BY <2>1, <2>2, CopiesStayWhole DEF UpdateSteps
  <2>4. UpdateTypes'
    BY <1>1, <2>1, <2>3, FilesAre DEF UpdateTypes
  <2>5. u_at'[c] = "done" /\ \A d \in u_Copies \ {c} : u_at'[d] = u_at[d]
    BY <1>1, <2>1 DEF UpdateTypes
  <2>6. UnderRepair'
    BY <1>1, <2>1, <2>5 DEF UnderRepair, Repairs
  <2>7. u_updaters \subseteq {c} => u_target.whole
    BY <1>1, <2>1 DEF OneLeaves, LeftBy
  <2>8. u_updaters = {} \/ u_updaters \subseteq {c} => LeftBy(c)'
    BY <2>1, <2>2, <2>5, <2>7 DEF LeftBy
  <2>9. OneLeaves'
    BY <2>1, <2>2, <2>8, OneLeft DEF UpdateSteps
  <2> QED
    BY <2>3, <2>4, <2>6, <2>9 DEF UpdateInv
<1>16. ASSUME NEW c \in u_Copies, U!WriteFails(c) PROVE UpdateInv'
  <2>1. /\ u_at[c] \in {"fetched", "writing"} /\ U!Fault
        /\ u_at' = [u_at EXCEPT ![c] = "done"] /\ u_tmp' = [u_tmp EXCEPT ![c] = U!Absent]
        /\ UNCHANGED <<u_latest, u_target, u_old, u_image, u_found, u_updaters>>
    BY <1>16 DEF U!WriteFails, U!Run, U!Give
  <2>2. u_faults' \in Nat /\ u_faults' > u_faults /\ u_faults' >= u_faults
    BY <1>2, <2>1
  <2>3. UnderRepair' /\ OneLeaves'
    BY <2>1, <2>2, FilesStay DEF UpdateSteps
  <2>4. WholeFiles' /\ u_at' \in [u_Copies -> UpdateSteps] /\ u_tmp' \in [u_Copies -> U!File]
    BY <2>1, CopiesStayWhole DEF UpdateSteps
  <2>5. UpdateTypes'
    BY <1>1, <2>1, <2>2, <2>4 DEF UpdateTypes
  <2> QED
    BY <2>3, <2>4, <2>5 DEF UpdateInv
<1>17. ASSUME NEW c \in u_Copies, U!Quit(c) PROVE UpdateInv'
  <2>1. /\ u_at[c] \in {"aside", "writing"} => U!Fault
        /\ U!Fault \/ u_faults' = u_faults
        /\ u_at' = [u_at EXCEPT ![c] = "off"]
        /\ UNCHANGED <<u_latest, u_target, u_old, u_tmp, u_image, u_found, u_updaters>>
    BY <1>17 DEF U!Quit, U!Working, U!Run, U!Disk
  <2>2. /\ u_faults' \in Nat /\ u_faults' >= u_faults
        /\ u_at[c] \in {"aside", "writing"} => u_faults' > u_faults
    BY <1>2, <2>1
  <2>3. UnderRepair' /\ OneLeaves'
    BY <2>1, <2>2, FilesStay DEF UpdateSteps
  <2>4. WholeFiles' /\ u_at' \in [u_Copies -> UpdateSteps]
    BY <2>1, CopiesStayWhole DEF UpdateSteps
  <2>5. UpdateTypes'
    BY <1>1, <2>1, <2>2, <2>4 DEF UpdateTypes
  <2> QED
    BY <2>3, <2>4, <2>5 DEF UpdateInv
<1>18. U!Next \/ UNCHANGED uVars
  BY DEF Next, Others, all
<1> QED
  BY <1>3, <1>4, <1>5, <1>6, <1>7, <1>8, <1>9, <1>10, <1>11, <1>12, <1>13, <1>14, <1>15, <1>16,
     <1>17, <1>18 DEF U!Next

\* When no copy is at work, a program is left to start: the program's file when nothing
\* has failed; that or the file set aside when a step of the only copy that came to update
\* has; and a file that an overwriting broke off in, when two have.
THEOREM ProgramAlwaysSurvives == Spec => []ProgramSurvives
<1>1. ASSUME UpdateInv PROVE ProgramSurvives
  <2> SUFFICES ASSUME \A c \in u_Copies : ~U!Working(c)
               PROVE  \/ u_target.whole
                      \/ u_faults > 0 /\ u_old.whole
                      \/ u_faults > 1 /\ u_target # U!Absent
                      \/ u_faults > 0 /\ U!Cardinality(u_updaters) > 1
    BY DEF ProgramSurvives, U!ProgramSurvives
  <2>1. UpdateTypes /\ UnderRepair /\ OneLeaves
    BY <1>1 DEF UpdateInv
  <2>2. \A c \in u_Copies : u_at[c] \in {"off", "asleep", "done"}
    BY DEF U!Working
  <2>3. CASE u_faults = 0
    BY <2>1, <2>2, <2>3 DEF UnderRepair, Repairs
  <2>4. CASE u_faults # 0
    <3>1. u_faults > 0 /\ Cardinality(u_updaters) \in Nat
      BY <2>1, <2>4, FS_CardinalityType DEF UpdateTypes
    <3>2. U!Cardinality(u_updaters) = Cardinality(u_updaters)
      BY DEF U!Cardinality, Cardinality
    <3>3. CASE Cardinality(u_updaters) > 1
      BY <3>1, <3>2, <3>3
    <3>4. CASE Cardinality(u_updaters) = 0
      BY <2>1, <3>4, FS_EmptySet DEF UpdateTypes, OneLeaves
    <3>5. CASE Cardinality(u_updaters) = 1
      <4>1. PICK u : u_updaters = {u}
        BY <2>1, <3>5, FS_Singleton DEF UpdateTypes
      <4>2. u \in u_Copies /\ LeftBy(u)
        BY <2>1, <4>1 DEF UpdateTypes, OneLeaves
      <4> QED
        BY <2>2, <3>1, <4>2 DEF LeftBy
    <3> QED
      BY <3>1, <3>3, <3>4, <3>5
  <2> QED
    BY <2>3, <2>4
<1> QED
  BY <1>1, UpdateInit, UpdateStep, PTL DEF Spec

-----------------------------------------------------------------------------
(* The mixer of shared sound                                               *)

\* How far the output may be ahead, and how long a stream that stopped may be missed.
Spare == x_Late * (1 + 2 * x_stops)
Missed == x_Late * x_stops

\* How far it will be, when a stream has given what it owes.
Lead(t) == x_emitted + x_buf[t] + x_due[t] - x_now

\* The clock plays, and all its silence is sound it has yet to give.
Gives == x_clock \in x_playing /\ x_now - x_last[x_clock] <= x_due[x_clock]

MixerTypes ==
    /\ x_srcs \subseteq x_Streams /\ x_playing \subseteq x_srcs
    /\ x_clock \in x_srcs \cup {0}
    /\ x_buf \in [x_Streams -> Nat] /\ x_last \in [x_Streams -> Nat]
    /\ x_due \in [x_Streams -> 0 .. x_Late]
    /\ x_now \in Nat /\ x_emitted \in Nat /\ x_stops \in Nat /\ x_heard \in 0 .. x_now

\* The stream that sets the pace is ahead by less when it has begun to be missed: another
\* may set the pace then, with what it has queued, and be late once more.
PaceIsKept ==
    /\ x_clock = 0 =>
         x_emitted + x_Late <= x_now + Spare /\ \A t \in x_srcs : Lead(t) + x_Late <= Spare
    /\ x_clock # 0 /\ Gives =>
         Lead(x_clock) <= Spare /\ \A t \in x_srcs : Lead(t) <= Spare + x_Late
    /\ x_clock # 0 /\ ~Gives =>
         /\ Lead(x_clock) + x_Late <= Spare
         /\ \A t \in x_srcs : Lead(t) <= Spare
         /\ \A t \in x_srcs \ x_playing :
              \/ Lead(t) + x_Late <= Spare
              \/ Lead(t) + (x_now - x_last[x_clock]) <= Spare

\* The output has gone on since the clock gave something, and while a stream plays.
SoundGoesOn ==
    /\ x_clock # 0 => x_last[x_clock] <= x_heard
    /\ x_playing = {} => x_now - x_heard <= x_Quiet + Missed
    /\ x_playing # {} => \E t \in x_playing : x_now - x_heard <= x_Quiet + x_due[t] + Missed

MixerInv == MixerTypes /\ PaceIsKept /\ SoundGoesOn

LEMMA MixerConstants ==
    /\ x_Streams \subseteq Nat \ {0} /\ x_Backlog \in Nat \ {0}
    /\ x_Quiet \in Nat /\ x_Late \in Nat /\ x_Late <= x_Quiet
BY MCAppAssumption DEF X!SoundMixerAssumption

LEMMA MixerInit == Init => MixerInv
<1> SUFFICES ASSUME X!Init PROVE MixerInv
  BY DEF Init
<1>1. /\ x_srcs = {} /\ x_playing = {} /\ x_clock = 0
      /\ x_buf \in [x_Streams -> Nat] /\ x_last \in [x_Streams -> Nat]
      /\ x_due \in [x_Streams -> 0 .. x_Late]
      /\ x_now = 0 /\ x_emitted = 0 /\ x_heard = 0 /\ x_stops = 0
  BY MixerConstants DEF X!Init
<1>2. Spare = x_Late /\ Missed = 0
  BY <1>1, MixerConstants DEF Spare, Missed
<1> QED
  BY <1>1, <1>2, MixerConstants DEF MixerInv, MixerTypes, PaceIsKept, SoundGoesOn

\* What the bounds are made of
LEMMA MixerNumbers ==
    ASSUME MixerTypes
    PROVE  /\ Spare \in Nat /\ Missed \in Nat /\ Spare >= x_Late
           /\ \A t \in x_srcs : /\ Lead(t) \in Int /\ x_buf[t] \in Nat
                                /\ x_due[t] \in 0 .. x_Late /\ x_last[t] \in Nat
           /\ x_clock # 0 => x_clock \in x_srcs
           /\ 0 \notin x_srcs
<1>1. x_stops \in Nat /\ x_Late \in Nat
  BY MixerConstants DEF MixerTypes
<1>2. x_Late * x_stops \in Nat
  BY <1>1
<1>3. Missed \in Nat /\ Spare = x_Late + 2 * Missed
  BY <1>1 DEF Spare, Missed
<1> QED
  BY <1>1, <1>3, MixerConstants DEF MixerTypes, Lead

\* A stream that pauses or ends makes room for twice the sound that can be late.
LEMMA StopMakesRoom ==
    ASSUME MixerTypes, X!Stop
    PROVE  /\ Spare' = Spare + 2 * x_Late /\ Missed' = Missed + x_Late /\ x_stops' \in Nat
<1>1. x_stops \in Nat /\ x_Late \in Nat /\ x_stops' = x_stops + 1
  BY MixerConstants DEF MixerTypes, X!Stop
<1> QED
  BY <1>1 DEF Spare, Missed

LEMMA MixerTicks == ASSUME MixerInv, X!Tick PROVE MixerInv'
<1>1. MixerTypes
  BY DEF MixerInv
<1>2. /\ x_srcs' = x_srcs /\ x_buf' = x_buf /\ x_last' = x_last /\ x_clock' = x_clock
      /\ x_playing' = x_playing /\ x_emitted' = x_emitted /\ x_stops' = x_stops
      /\ x_now' = x_now + 1
      /\ x_heard' = IF x_playing = {} THEN x_now + 1 ELSE x_heard
      /\ x_due' = [t \in x_Streams |-> IF t \in x_playing THEN x_due[t] + 1 ELSE x_due[t]]
      /\ \A t \in x_playing : x_due[t] < x_Late
  BY DEF X!Tick
<1>3. Spare' = Spare /\ Missed' = Missed
  BY <1>2 DEF Spare, Missed
<1>4. MixerTypes'
  BY <1>1, <1>2, MixerConstants DEF MixerTypes
<1>5. \A t \in x_srcs : /\ t \in x_playing => x_due'[t] = x_due[t] + 1 /\ Lead(t)' = Lead(t)
                        /\ t \notin x_playing => x_due'[t] = x_due[t] /\ Lead(t)' = Lead(t) - 1
  BY <1>1, <1>2, MixerConstants DEF MixerTypes, Lead
<1>6. x_clock # 0 => (Gives' <=> Gives)
  BY <1>1, <1>2, <1>5, MixerNumbers DEF Gives, MixerTypes
<1>7. PaceIsKept'
  <2>1. /\ x_emitted \in Nat /\ x_now \in Nat /\ x_Late \in Nat /\ Spare \in Nat
        /\ x_clock # 0 => x_clock \in x_srcs
        /\ \A t \in x_srcs : /\ Lead(t) \in Int /\ Lead(t)' \in Int /\ x_last[t] \in Nat
                            /\ Lead(t)' <= Lead(t)
    BY <1>1, <1>5, MixerNumbers, MixerConstants DEF MixerTypes
  <2>2. CASE x_clock = 0
    BY <1>2, <1>3, <1>5, <2>1, <2>2 DEF MixerInv, PaceIsKept
  <2>3. CASE x_clock # 0 /\ Gives
    BY <1>2, <1>3, <1>5, <1>6, <2>1, <2>3 DEF MixerInv, PaceIsKept
  <2>4. CASE x_clock # 0 /\ ~Gives
    BY <1>2, <1>3, <1>5, <1>6, <2>1, <2>4 DEF MixerInv, PaceIsKept
  <2> QED
    BY <2>2, <2>3, <2>4
<1>8. SoundGoesOn'
  BY <1>1, <1>2, <1>3, <1>5, MixerNumbers, MixerConstants DEF MixerInv, MixerTypes, SoundGoesOn
<1> QED
  BY <1>4, <1>7, <1>8 DEF MixerInv

LEMMA MixerPlays == ASSUME MixerInv, NEW s \in x_Streams, X!Play(s) PROVE MixerInv'
<1>1. MixerTypes
  BY DEF MixerInv
<1>2. /\ x_srcs' = x_srcs /\ x_buf' = x_buf /\ x_last' = x_last /\ x_clock' = x_clock
      /\ x_due' = x_due /\ x_emitted' = x_emitted /\ x_stops' = x_stops
      /\ x_now' = x_now /\ x_heard' = x_heard
      /\ s \in x_srcs /\ x_playing' = x_playing \cup {s}
  BY DEF X!Play
<1>3. Spare' = Spare /\ Missed' = Missed /\ \A t \in x_srcs : Lead(t)' = Lead(t)
  BY <1>2 DEF Spare, Missed, Lead
<1>4. MixerTypes'
  BY <1>1, <1>2 DEF MixerTypes
<1>5. Gives => Gives'
  BY <1>2 DEF Gives
<1>6. PaceIsKept'
  <2>1. /\ x_Late \in Nat /\ Spare \in Nat
        /\ x_clock # 0 => x_clock \in x_srcs
        /\ \A t \in x_srcs : Lead(t) \in Int
    BY <1>1, MixerNumbers, MixerConstants
  <2>2. CASE x_clock = 0
    BY <1>2, <1>3, <2>1, <2>2 DEF MixerInv, PaceIsKept
  <2>3. CASE x_clock # 0 /\ Gives
    BY <1>2, <1>3, <1>5, <2>1, <2>3 DEF MixerInv, PaceIsKept
  <2>4. CASE x_clock # 0 /\ ~Gives
    BY <1>2, <1>3, <1>5, <2>1, <2>4 DEF MixerInv, PaceIsKept
  <2> QED
    BY <2>2, <2>3, <2>4
<1>7. SoundGoesOn'
  BY <1>1, <1>2, <1>3, MixerNumbers, MixerConstants DEF MixerInv, MixerTypes, SoundGoesOn
<1> QED
  BY <1>4, <1>6, <1>7 DEF MixerInv

\* A stream that stops, and may be the clock
LEMMA MixerStops ==
    ASSUME MixerInv, NEW s \in x_Streams, X!Pause(s) \/ X!Remove(s) PROVE MixerInv'
<1>1. MixerTypes
  BY DEF MixerInv
<1>2. /\ x_srcs' \subseteq x_srcs /\ x_buf' = x_buf /\ x_last' = x_last /\ x_due' = x_due
      /\ x_emitted' = x_emitted /\ x_now' = x_now /\ x_heard' = x_heard
      /\ x_playing' = x_playing \ {s} /\ x_playing' \subseteq x_srcs'
      /\ x_clock' = x_clock \/ x_clock' = 0
      /\ x_clock' \in x_srcs' \cup {0}
      /\ X!Stop
  BY <1>1 DEF MixerTypes, X!Pause, X!Remove
<1>3. /\ Spare' = Spare + 2 * x_Late /\ Missed' = Missed + x_Late /\ x_stops' \in Nat
  BY <1>1, <1>2, StopMakesRoom
<1>4. \A t \in x_srcs : Lead(t)' = Lead(t)
  BY <1>2 DEF Lead
<1>5. MixerTypes'
  BY <1>1, <1>2, <1>3 DEF MixerTypes
<1>6. \A t \in x_srcs : Lead(t) <= Spare + x_Late
  BY <1>1, MixerNumbers, MixerConstants DEF MixerInv, PaceIsKept
<1>7. x_clock # 0 => Lead(x_clock) <= Spare
  BY <1>1, MixerNumbers, MixerConstants DEF MixerInv, PaceIsKept
<1>8. x_emitted <= x_now + Spare
  BY <1>1, <1>7, MixerNumbers, MixerConstants DEF MixerInv, MixerTypes, PaceIsKept, Lead
<1>9. PaceIsKept'
  BY <1>1, <1>2, <1>3, <1>4, <1>6, <1>7, <1>8, MixerNumbers, MixerConstants DEF MixerTypes, PaceIsKept
<1>10. SoundGoesOn'
  <2>1. x_now - x_heard <= x_Quiet + Missed'
    BY <1>1, <1>3, MixerNumbers, MixerConstants DEF MixerInv, MixerTypes, SoundGoesOn
  <2>2. x_clock' # 0 => x_last[x_clock'] <= x_heard
    BY <1>2 DEF MixerInv, SoundGoesOn
  <2>3. \A t \in x_playing' : x_due[t] \in Nat
    BY <1>1, <1>2, MixerNumbers, MixerConstants
  <2>4. Missed' \in Nat /\ x_Quiet \in Nat /\ x_now \in Nat /\ x_heard \in Nat
    BY <1>1, <1>3, MixerNumbers, MixerConstants DEF MixerTypes
  <2>5. ASSUME NEW t \in x_playing' PROVE x_now - x_heard <= x_Quiet + x_due[t] + Missed'
    <3>1. x_due[t] \in Nat
      BY <2>3
    <3> DEFINE gap == x_now - x_heard
               miss == Missed'
    <3>2. gap \in Int
      BY <2>4
    <3>3. miss \in Nat
      BY <2>4
    <3>4. gap <= x_Quiet + miss
      BY <2>1
    <3> HIDE DEF gap, miss
    <3>5. gap <= x_Quiet + x_due[t] + miss
      BY <2>4, <3>1, <3>2, <3>3, <3>4
    <3> QED
      BY <3>5 DEF gap, miss
  <2> QED
    BY <1>2, <2>1, <2>2, <2>5 DEF SoundGoesOn
<1> QED
  BY <1>5, <1>9, <1>10 DEF MixerInv

LEMMA MixerAdds == ASSUME MixerInv, NEW s \in x_Streams, X!Add(s) PROVE MixerInv'
<1>1. MixerTypes
  BY DEF MixerInv
<1>2. /\ s \notin x_srcs /\ x_srcs' = x_srcs \cup {s} /\ x_clock' = x_clock
      /\ x_buf' = [x_buf EXCEPT ![s] = 0] /\ x_due' = [x_due EXCEPT ![s] = 0]
      /\ x_last' = [x_last EXCEPT ![s] = 0]
      /\ x_emitted' = x_emitted /\ x_stops' = x_stops /\ x_now' = x_now /\ x_heard' = x_heard
      /\ x_playing' = x_playing
  BY DEF X!Add
<1>3. Spare' = Spare /\ Missed' = Missed
  BY <1>2 DEF Spare, Missed
<1>4. MixerTypes'
  BY <1>1, <1>2, MixerConstants DEF MixerTypes
<1>5. \A t \in x_srcs : /\ x_due'[t] = x_due[t] /\ x_last'[t] = x_last[t]
                        /\ Lead(t)' = Lead(t)
  BY <1>1, <1>2 DEF MixerTypes, Lead
<1>6. Lead(s)' = x_emitted - x_now
  BY <1>1, <1>2 DEF MixerTypes, Lead
<1>7. x_clock # 0 => Lead(s)' <= Lead(x_clock) /\ (Gives' <=> Gives)
  BY <1>1, <1>2, <1>5, <1>6, MixerNumbers DEF MixerTypes, Lead, Gives
<1>8. PaceIsKept'
  <2>1. x_emitted \in Nat /\ x_now \in Nat /\ x_Late \in Nat /\ Spare \in Nat
    BY <1>1, MixerNumbers, MixerConstants DEF MixerTypes
  <2>2. CASE x_clock = 0
    BY <1>2, <1>3, <1>5, <1>6, <2>1, <2>2 DEF MixerInv, PaceIsKept
  <2>3. CASE x_clock # 0 /\ Gives
    BY <1>1, <1>2, <1>3, <1>5, <1>6, <1>7, <2>1, <2>3, MixerNumbers DEF MixerInv, PaceIsKept
  <2>4. CASE x_clock # 0 /\ ~Gives
    BY <1>1, <1>2, <1>3, <1>5, <1>6, <1>7, <2>1, <2>4, MixerNumbers DEF MixerInv, PaceIsKept
  <2> QED
    BY <2>2, <2>3, <2>4
<1>9. SoundGoesOn'
  BY <1>1, <1>2, <1>3, <1>5, MixerNumbers DEF MixerInv, MixerTypes, SoundGoesOn
<1> QED
  BY <1>4, <1>8, <1>9 DEF MixerInv

LEMMA LeastAndMost ==
    ASSUME NEW m \in Int, NEW n \in Int
    PROVE  /\ X!Min({m, n}) = IF m <= n THEN m ELSE n
           /\ X!Max({m, n}) = IF m >= n THEN m ELSE n
<1>1. \E k \in {m, n} : \A y \in {m, n} : k <= y
  OBVIOUS
<1>2. \E k \in {m, n} : \A y \in {m, n} : k >= y
  OBVIOUS
<1>3. X!Min({m, n}) \in {m, n} /\ \A y \in {m, n} : X!Min({m, n}) <= y
  BY <1>1 DEF X!Min
<1>4. X!Max({m, n}) \in {m, n} /\ \A y \in {m, n} : X!Max({m, n}) >= y
  BY <1>2 DEF X!Max
<1> QED
  BY <1>3, <1>4

\* What a push does to the queues: the clock's frames go out, and a stream that has fewer
\* adds silence.
LEMMA PushIs ==
    ASSUME MixerTypes, NEW s \in x_Streams, X!Push(s)
    PROVE  \E out \in Nat :
             /\ s \in x_srcs /\ x_srcs' = x_srcs /\ x_playing' = x_playing
             /\ x_now' = x_now /\ x_stops' = x_stops
             /\ x_clock' = X!Clock(s) /\ x_emitted' = x_emitted + out
             /\ x_heard' = IF out > 0 THEN x_now ELSE x_heard
             /\ (x_clock' = s) <=> (out > 0)
             /\ x_buf' \in [x_Streams -> Nat] /\ x_last' \in [x_Streams -> Nat]
             /\ x_due' \in [x_Streams -> 0 .. x_Late]
             /\ x_last'[s] = x_now /\ x_due'[s] <= x_due[s]
             /\ \A t \in x_srcs \ {s} : x_due'[t] = x_due[t] /\ x_last'[t] = x_last[t]
             /\ out > 0 => x_buf'[s] = 0
             /\ out + x_buf'[s] + x_due'[s] <= x_buf[s] + x_due[s]
             /\ \A t \in x_srcs \ {s} : \/ out + x_buf'[t] = x_buf[t]
                                        \/ x_buf'[t] = 0 /\ out >= x_buf[t]
<1>1. PICK n \in 1 .. x_due[s] :
        /\ s \in x_srcs
        /\ x_due' = [x_due EXCEPT ![s] = @ - n]
        /\ x_last' = [x_last EXCEPT ![s] = x_now]
        /\ x_clock' = X!Clock(s)
        /\ x_buf' = [t \in x_Streams |->
             IF t \in x_srcs
             THEN X!Max({[x_buf EXCEPT ![s] = X!Min({@ + n, x_Backlog})][t]
                         - (IF x_clock' = s
                            THEN [x_buf EXCEPT ![s] = X!Min({@ + n, x_Backlog})][s] ELSE 0), 0})
             ELSE x_buf[t]]
        /\ x_emitted' = x_emitted
             + (IF x_clock' = s
                THEN [x_buf EXCEPT ![s] = X!Min({@ + n, x_Backlog})][s] ELSE 0)
        /\ x_heard' = IF (IF x_clock' = s
                          THEN [x_buf EXCEPT ![s] = X!Min({@ + n, x_Backlog})][s] ELSE 0) > 0
                      THEN x_now ELSE x_heard
        /\ x_srcs' = x_srcs /\ x_playing' = x_playing /\ x_now' = x_now /\ x_stops' = x_stops
  BY DEF X!Push
<1> DEFINE queued == [x_buf EXCEPT ![s] = X!Min({@ + n, x_Backlog})]
           out == IF x_clock' = s THEN queued[s] ELSE 0
<1>2. /\ x_buf \in [x_Streams -> Nat] /\ x_last \in [x_Streams -> Nat] /\ x_now \in Nat
      /\ x_due \in [x_Streams -> 0 .. x_Late] /\ x_srcs \subseteq x_Streams
      /\ x_emitted \in Nat /\ x_Late \in Nat /\ x_Backlog \in Nat \ {0}
  BY MixerConstants DEF MixerTypes
<1>3. n \in Nat /\ n >= 1 /\ n <= x_due[s]
  BY <1>1, <1>2
<1>4. X!Min({x_buf[s] + n, x_Backlog}) = IF x_buf[s] + n <= x_Backlog THEN x_buf[s] + n ELSE x_Backlog
  BY <1>2, <1>3, LeastAndMost
<1>5. /\ queued[s] \in Nat /\ queued[s] >= 1 /\ queued[s] <= x_buf[s] + n
      /\ \A t \in x_Streams \ {s} : queued[t] = x_buf[t]
  BY <1>2, <1>3, <1>4
<1>6. /\ x_buf' = [t \in x_Streams |-> IF t \in x_srcs THEN X!Max({queued[t] - out, 0}) ELSE x_buf[t]]
      /\ x_emitted' = x_emitted + out /\ x_heard' = IF out > 0 THEN x_now ELSE x_heard
  BY <1>1
<1> HIDE DEF queued
<1>7. out \in Nat /\ (x_clock' = s <=> out > 0) /\ (out = 0 \/ out = queued[s])
  BY <1>5
<1> HIDE DEF out
<1>8. \A t \in x_Streams : queued[t] \in Nat
  BY <1>2, <1>5
<1>9. \A t \in x_srcs : X!Max({queued[t] - out, 0}) = IF queued[t] - out >= 0 THEN queued[t] - out ELSE 0
  <2> SUFFICES ASSUME NEW t \in x_srcs
               PROVE  X!Max({queued[t] - out, 0}) = IF queued[t] - out >= 0 THEN queued[t] - out ELSE 0
    OBVIOUS
  <2>1. queued[t] - out \in Int /\ 0 \in Int
    BY <1>2, <1>7, <1>8
  <2> QED
    BY <2>1, LeastAndMost
<1>10. /\ \A t \in x_srcs : x_buf'[t] = IF queued[t] - out >= 0 THEN queued[t] - out ELSE 0
       /\ x_buf' \in [x_Streams -> Nat]
  <2>1. \A t \in x_srcs : x_buf'[t] = X!Max({queued[t] - out, 0})
    BY <1>2, <1>6
  <2>2. \A t \in x_Streams \ x_srcs : x_buf'[t] = x_buf[t]
    BY <1>6
  <2>3. \A t \in x_srcs : x_buf'[t] \in Nat
    <3> SUFFICES ASSUME NEW t \in x_srcs PROVE x_buf'[t] \in Nat
      OBVIOUS
    <3>1. queued[t] \in Nat /\ out \in Nat
      BY <1>2, <1>7, <1>8
    <3>2. x_buf'[t] = IF queued[t] - out >= 0 THEN queued[t] - out ELSE 0
      BY <1>9, <2>1
    <3> QED
      BY <3>1, <3>2
  <2>4. \A t \in x_Streams : x_buf'[t] \in Nat
    BY <1>2, <2>2, <2>3
  <2> QED
    BY <1>6, <1>9, <2>1, <2>4
<1>11. /\ x_due'[s] = x_due[s] - n /\ x_last'[s] = x_now
       /\ \A t \in x_srcs \ {s} : x_due'[t] = x_due[t] /\ x_last'[t] = x_last[t]
       /\ x_due' \in [x_Streams -> 0 .. x_Late] /\ x_last' \in [x_Streams -> Nat]
  BY <1>1, <1>2, <1>3
<1>12. /\ out > 0 => x_buf'[s] = 0
       /\ out + x_buf'[s] + x_due'[s] <= x_buf[s] + x_due[s]
  <2>1. s \in x_srcs /\ x_buf[s] \in Nat /\ x_due[s] \in Nat
    BY <1>1, <1>2
  <2>2. x_buf'[s] = (IF queued[s] - out >= 0 THEN queued[s] - out ELSE 0) /\ x_due'[s] = x_due[s] - n
    BY <1>10, <1>11, <2>1
  <2> QED
    BY <1>3, <1>5, <1>7, <2>1, <2>2
<1>13. \A t \in x_srcs \ {s} : \/ out + x_buf'[t] = x_buf[t]
                               \/ x_buf'[t] = 0 /\ out >= x_buf[t]
  BY <1>2, <1>5, <1>7, <1>8, <1>10
<1>14. /\ s \in x_srcs /\ x_srcs' = x_srcs /\ x_playing' = x_playing
       /\ x_now' = x_now /\ x_stops' = x_stops /\ x_clock' = X!Clock(s)
  BY <1>1
<1>15. x_due'[s] <= x_due[s]
  BY <1>2, <1>3, <1>11, <1>14
<1> out \in Nat
  BY <1>7
<1> WITNESS out \in Nat
<1> QED
  BY <1>6, <1>7, <1>10, <1>11, <1>12, <1>13, <1>14, <1>15

LEMMA MixerPushes == ASSUME MixerInv, NEW s \in x_Streams, X!Push(s) PROVE MixerInv'
<1>1. MixerTypes /\ PaceIsKept /\ SoundGoesOn
  BY DEF MixerInv
<1>2. PICK out \in Nat :
        /\ s \in x_srcs /\ x_srcs' = x_srcs /\ x_playing' = x_playing
        /\ x_now' = x_now /\ x_stops' = x_stops
        /\ x_clock' = X!Clock(s) /\ x_emitted' = x_emitted + out
        /\ x_heard' = IF out > 0 THEN x_now ELSE x_heard
        /\ (x_clock' = s) <=> (out > 0)
        /\ x_buf' \in [x_Streams -> Nat] /\ x_last' \in [x_Streams -> Nat]
        /\ x_due' \in [x_Streams -> 0 .. x_Late]
        /\ x_last'[s] = x_now /\ x_due'[s] <= x_due[s]
        /\ \A t \in x_srcs \ {s} : x_due'[t] = x_due[t] /\ x_last'[t] = x_last[t]
        /\ out > 0 => x_buf'[s] = 0
        /\ out + x_buf'[s] + x_due'[s] <= x_buf[s] + x_due[s]
        /\ \A t \in x_srcs \ {s} : \/ out + x_buf'[t] = x_buf[t]
                                   \/ x_buf'[t] = 0 /\ out >= x_buf[t]
  BY <1>1, PushIs
<1>3. Spare' = Spare /\ Missed' = Missed
  BY <1>2 DEF Spare, Missed
<1>4. /\ x_now \in Nat /\ x_emitted \in Nat /\ x_Late \in Nat /\ x_Quiet \in Nat
      /\ x_Late <= x_Quiet /\ Spare \in Nat /\ Missed \in Nat /\ x_heard \in 0 .. x_now
      /\ 0 \notin x_srcs /\ x_srcs \subseteq x_Streams
      /\ x_clock # 0 => x_clock \in x_srcs
  BY <1>1, MixerNumbers, MixerConstants DEF MixerTypes
<1>5. /\ \A t \in x_srcs : /\ x_buf[t] \in Nat /\ x_due[t] \in 0 .. x_Late /\ x_last[t] \in Nat
                           /\ x_buf'[t] \in Nat /\ x_due'[t] \in 0 .. x_Late
                           /\ Lead(t) \in Int /\ Lead(t)' \in Int
  BY <1>1, <1>2, <1>4 DEF MixerTypes, Lead
<1>6. x_clock' = s \/ (x_clock' = x_clock /\ x_clock # s /\ x_clock \in x_srcs
                       /\ x_now - x_last[x_clock] <= x_Quiet)
  BY <1>2 DEF X!Clock
<1>7. MixerTypes'
  BY <1>1, <1>2, <1>4, <1>6 DEF MixerTypes
<1>8. Lead(s)' <= Lead(s)
  BY <1>2, <1>4, <1>5 DEF Lead
<1>9. \A t \in x_srcs : Lead(t)' <= Lead(t) \/ (out > 0 /\ Lead(t)' <= Lead(s) + x_Late)
  BY <1>2, <1>4, <1>5, <1>8 DEF Lead
<1>10. CASE x_clock' # s
  <2>1. /\ x_clock' = x_clock /\ x_clock # 0 /\ x_clock \in x_srcs \ {s} /\ out = 0
        /\ x_now - x_last[x_clock] <= x_Quiet
    BY <1>2, <1>4, <1>6, <1>10
  <2>2. Gives' <=> Gives
    BY <1>2, <2>1 DEF Gives
  <2>3. \A t \in x_srcs : Lead(t)' <= Lead(t)
    BY <1>9, <2>1
  <2>4. PaceIsKept'
    <3>1. CASE Gives
      BY <1>1, <1>2, <1>3, <1>4, <1>5, <2>1, <2>2, <2>3, <3>1 DEF PaceIsKept
    <3>2. CASE ~Gives
      BY <1>1, <1>2, <1>3, <1>4, <1>5, <2>1, <2>2, <2>3, <3>2 DEF PaceIsKept
    <3> QED
      BY <3>1, <3>2
  <2>5. x_last'[x_clock'] <= x_heard' /\ x_heard' = x_heard
    BY <1>1, <1>2, <2>1 DEF SoundGoesOn
  <2>6. x_now - x_heard <= x_Quiet
    BY <1>1, <1>4, <1>5, <2>1 DEF SoundGoesOn
  <2>7. \A t \in x_playing : x_due'[t] \in Nat
    BY <1>1, <1>4, <1>5 DEF MixerTypes
  <2>8. SoundGoesOn'
    BY <1>2, <1>3, <1>4, <2>5, <2>6, <2>7 DEF SoundGoesOn
  <2> QED
    BY <1>7, <2>4, <2>8 DEF MixerInv
<1>11. CASE x_clock' = s
  <2>1. s # 0 /\ out > 0 /\ x_heard' = x_now
    BY <1>2, <1>4, <1>11
  <2>2. Gives' <=> s \in x_playing
    BY <1>2, <1>4, <1>5, <1>11 DEF Gives
  <2>3. /\ Lead(s) <= Spare /\ \A t \in x_srcs : Lead(t) <= Spare + x_Late
        /\ s \notin x_playing => Lead(s) + x_Late <= Spare /\ \A t \in x_srcs : Lead(t) <= Spare
    <3>1. CASE x_clock = 0
      <4>1. \A t \in x_srcs : Lead(t) + x_Late <= Spare
        BY <1>1, <3>1 DEF PaceIsKept
      <4> QED
        BY <1>2, <1>4, <1>5, <4>1
    <3>2. CASE x_clock = s /\ Gives
      BY <1>1, <1>2, <1>4, <1>5, <2>1, <3>2 DEF PaceIsKept, Gives
    <3>3. CASE x_clock # 0 /\ ~Gives
      <4>1. /\ Lead(x_clock) + x_Late <= Spare
            /\ \A t \in x_srcs : Lead(t) <= Spare
            /\ \A t \in x_srcs \ x_playing :
                 \/ Lead(t) + x_Late <= Spare
                 \/ Lead(t) + (x_now - x_last[x_clock]) <= Spare
        BY <1>1, <3>3 DEF PaceIsKept
      <4>2. x_clock # s => x_now - x_last[x_clock] >= x_Late
        BY <1>2, <1>4, <1>5, <1>11, <3>3 DEF X!Clock
      <4>3. s \notin x_playing => Lead(s) + x_Late <= Spare
        BY <1>2, <1>4, <1>5, <3>3, <4>1, <4>2
      <4> QED
        BY <1>2, <1>4, <1>5, <4>1, <4>3
    <3>4. CASE x_clock # 0 /\ x_clock # s /\ Gives
      <4>1. x_now - x_last[x_clock] > x_Quiet
        BY <1>2, <1>4, <1>5, <1>11, <3>4 DEF X!Clock
      <4> QED
        BY <1>4, <1>5, <3>4, <4>1 DEF Gives
    <3> QED
      BY <2>1, <3>1, <3>2, <3>3, <3>4
  <2>4. /\ Lead(s)' <= Spare /\ \A t \in x_srcs : Lead(t)' <= Spare + x_Late
        /\ s \notin x_playing => Lead(s)' + x_Late <= Spare /\ \A t \in x_srcs : Lead(t)' <= Spare
    BY <1>2, <1>4, <1>5, <1>8, <1>9, <2>3
  <2>5. PaceIsKept'
    <3>1. x_now' - x_last'[s] = 0
      BY <1>2, <1>4
    <3>2. CASE s \in x_playing
      BY <1>2, <1>3, <1>11, <2>1, <2>2, <2>4, <3>2 DEF PaceIsKept
    <3>3. CASE s \notin x_playing
      <4>1. \A t \in x_srcs : Lead(t)' + (x_now' - x_last'[x_clock']) <= Spare'
        BY <1>2, <1>3, <1>4, <1>5, <1>11, <2>4, <3>1, <3>3
      <4> QED
        BY <1>2, <1>3, <1>11, <2>1, <2>2, <2>4, <3>3, <4>1 DEF PaceIsKept
    <3> QED
      BY <3>2, <3>3
  <2>6. \A t \in x_playing : x_due'[t] \in Nat
    BY <1>1, <1>4, <1>5 DEF MixerTypes
  <2>7. SoundGoesOn'
    BY <1>2, <1>3, <1>4, <1>11, <2>1, <2>6 DEF SoundGoesOn
  <2> QED
    BY <1>7, <2>5, <2>7 DEF MixerInv
<1> QED
  BY <1>10, <1>11

LEMMA MixerStep == MixerInv /\ [Next]_all => MixerInv'
<1> SUFFICES ASSUME MixerInv, [Next]_all PROVE MixerInv'
  OBVIOUS
<1>1. CASE X!Tick
  BY <1>1, MixerTicks
<1>2. CASE \E s \in x_Streams : X!Play(s) \/ X!Pause(s) \/ X!Add(s) \/ X!Remove(s) \/ X!Push(s)
  BY <1>2, MixerPlays, MixerStops, MixerAdds, MixerPushes
<1>3. CASE UNCHANGED xVars
  BY <1>3 DEF xVars, MixerInv, MixerTypes, PaceIsKept, SoundGoesOn, Gives, Lead, Spare, Missed
<1>4. X!Next \/ UNCHANGED xVars
  BY DEF Next, Others, all
<1> QED
  BY <1>1, <1>2, <1>3, <1>4 DEF X!Next

\* However many streams there are, and whichever of them pause, end or come back, the sound
\* that goes out is never further ahead of the time than the streams that stopped were late,
\* and it goes on while one plays.
THEOREM OutputAlwaysKeepsPace == Spec => []OutputKeepsPace
<1>1. MixerInv => OutputKeepsPace
  <2> SUFFICES ASSUME MixerInv PROVE X!OutputKeepsPace
    BY DEF OutputKeepsPace
  <2>1. MixerTypes /\ PaceIsKept /\ SoundGoesOn
    BY DEF MixerInv
  <2>2. x_emitted <= x_now + Spare
    BY <2>1, MixerNumbers, MixerConstants DEF MixerTypes, PaceIsKept, Lead
  <2>3. x_now - x_heard <= x_Quiet + x_Late + Missed
    BY <2>1, MixerNumbers, MixerConstants DEF MixerTypes, SoundGoesOn
  <2>4. x_Late * (1 + x_stops) = x_Late + Missed
    BY <2>1, MixerConstants DEF MixerTypes, Missed
  <2>5. x_now - x_heard <= x_Quiet + x_Late * (1 + x_stops)
    BY <2>1, <2>3, <2>4, MixerNumbers, MixerConstants DEF MixerTypes
  <2> QED
    BY <2>2, <2>5 DEF X!OutputKeepsPace, Spare
<1> QED
  BY <1>1, MixerInit, MixerStep, PTL DEF Spec

-----------------------------------------------------------------------------
(* The screens and the dialogs                                             *)

ScreenTypes ==
    /\ a_screen \in {"lobby", "room"} /\ a_dialogs \subseteq A!Dialogs
    /\ a_node \in {"out", "joining", "in", "host"} /\ a_kick \in {"none", "leave", "tell"}
    /\ a_invite \in BOOLEAN /\ a_media \in BOOLEAN /\ a_kicked \in BOOLEAN
    /\ a_running \in BOOLEAN /\ a_crossed \in BOOLEAN /\ a_IsConnecting \in BOOLEAN

\* Which questions can be open together: what the room asks is not asked in the
\* lobby, nor is a picture open there.
DialogsFit ==
    /\ "relay" \in a_dialogs => "debug" \notin a_dialogs
    /\ a_invite => "relay" \notin a_dialogs /\ "test" \notin a_dialogs
    /\ a_screen = "lobby" => "share" \notin a_dialogs /\ "leave" \notin a_dialogs /\ ~a_media

\* Nothing is on its way, and the screen shows what the node is in;
Shown ==
    /\ a_answers = {} /\ a_kick = "none" /\ ~a_kicked
    /\ a_screen = "room" <=> a_node \in {"in", "host"}
    /\ a_screen = "room" => a_view = a_room
    /\ a_node = "joining" => a_IsConnecting
\* or the answer of the last join is, and the lobby waits for it;
Answered ==
    /\ a_kick = "none" /\ ~a_kicked /\ a_screen = "lobby"
    /\ \E a : /\ a_answers = {a} /\ a.room = a_room
              /\ \/ a.kind = "success" /\ a_node = "in"
                 \/ a.kind = "failure" /\ a_node = "out"
\* or a removal is: the room is about to be left;
Removed == a_answers = {} /\ a_kick = "leave" /\ ~a_kicked /\ a_node \in {"in", "out"}
\* or it has been, and the screen is about to follow.
Told ==
    /\ a_answers = {} /\ a_node = "out"
    /\ \/ a_kick = "tell" /\ ~a_kicked
       \/ a_kick = "none" /\ a_kicked

RoomIsShown == a_running /\ ~a_crossed => Shown \/ Answered \/ Removed \/ Told

ScreenInv == ScreenTypes /\ DialogsFit /\ RoomIsShown

LEMMA ScreenInit == Init => ScreenInv
<1> SUFFICES ASSUME A!Init PROVE ScreenInv
  BY DEF Init
<1>1. ScreenTypes
  BY DEF A!Init, ScreenTypes
<1>2. DialogsFit
  BY DEF A!Init, DialogsFit
<1>3. Shown
  BY DEF A!Init, Shown
<1> QED
  BY <1>1, <1>2, <1>3 DEF ScreenInv, RoomIsShown

\* The screen is reached when no question is open.
LEMMA NothingOpen ==
    ASSUME NEW s, A!ReachesScreen(s)
    PROVE  /\ a_screen = s /\ a_running /\ ~a_invite
           /\ \A d \in {"relay", "debug", "exit", "leave", "test", "share"} : d \notin a_dialogs
<1>1. \A i \in DOMAIN A!Handlers : ~A!Takes(A!Handlers[i])
  BY DEF A!ReachesScreen
<1>2. DOMAIN A!Handlers = 1 .. 10
  BY DEF A!Handlers
<1>3. \A d \in {"relay", "debug", "exit", "leave", "test", "share", "invite"} :
         \E i \in 1 .. 10 : A!Handlers[i] = d
  BY DEF A!Handlers
<1>4. \A d \in {"relay", "debug", "exit", "leave", "test", "share", "invite"} : ~A!Takes(d)
  BY <1>1, <1>2, <1>3
<1> QED
  BY <1>4 DEF A!Takes, A!Opened, A!ReachesScreen

\* A step that leaves the node, the lobby and what is on its way alone.
LEMMA RoomStays ==
    ASSUME RoomIsShown,
           UNCHANGED <<a_node, a_room, a_answers, a_kick, a_screen, a_view, a_IsConnecting,
                       a_kicked, a_running, a_crossed>>
    PROVE  RoomIsShown'
BY DEF RoomIsShown, Shown, Answered, Removed, Told

\* A room is asked for, or a removal starts: what was on its way has been crossed.
LEMMA CrossedBy ==
    ASSUME a_crossed' = (a_crossed \/ A!Pending)
    PROVE  /\ a_crossed' \in BOOLEAN
           /\ ~a_crossed' => ~a_crossed /\ a_answers = {} /\ a_kick = "none" /\ ~a_kicked
<1>1. a_crossed' \in BOOLEAN
  OBVIOUS
<1>2. ~a_crossed' => ~a_crossed /\ ~A!Pending
  OBVIOUS
<1> QED
  BY <1>1, <1>2 DEF A!Pending

LEMMA ScreenStep == ScreenInv /\ [Next]_all => ScreenInv'
<1> SUFFICES ASSUME ScreenInv, [Next]_all PROVE ScreenInv'
  OBVIOUS
<1>1. ScreenTypes /\ DialogsFit /\ RoomIsShown
  BY DEF ScreenInv
<1>2. CASE UNCHANGED aVars
  <2>1. UNCHANGED <<a_node, a_room, a_answers, a_kick, a_screen, a_view, a_IsConnecting, a_dialogs,
                    a_invite, a_media, a_kicked, a_running, a_crossed>>
    BY <1>2 DEF aVars
  <2> QED
    BY <1>1, <2>1, RoomStays DEF ScreenInv, ScreenTypes, DialogsFit
\* The user ends the program.
<1>3. ASSUME A!CleanExit PROVE ScreenInv'
  <2>1. /\ a_running' = FALSE /\ a_node' = "out"
        /\ UNCHANGED <<a_kick, a_screen, a_IsConnecting, a_dialogs, a_invite, a_media, a_kicked,
                       a_crossed>>
    BY <1>3 DEF A!CleanExit
  <2> QED
    BY <1>1, <2>1 DEF ScreenInv, ScreenTypes, DialogsFit, RoomIsShown
\* A dialog opens over the screen that it belongs to.
<1>4. ASSUME NEW d \in A!Dialogs, a_dialogs' = a_dialogs \union {d},
             d = "leave" \/ d = "share" => a_screen = "room",
             d = "test" => ~a_invite,
             d = "relay" => ~a_invite /\ "debug" \notin a_dialogs,
             d = "debug" => "relay" \notin a_dialogs,
             UNCHANGED <<a_node, a_room, a_answers, a_kick, a_screen, a_view, a_IsConnecting,
                         a_invite, a_media, a_kicked, a_running, a_crossed>>
      PROVE  ScreenInv'
  <2>1. ScreenTypes'
    BY <1>1, <1>4 DEF ScreenTypes
  <2>2. DialogsFit'
    BY <1>1, <1>4 DEF DialogsFit, ScreenTypes
  <2> QED
    BY <1>1, <1>4, <2>1, <2>2, RoomStays DEF ScreenInv
<1>5. CASE A!CtrlC \/ A!Interrupt
  <2>1. CASE a_dialogs \intersect {"exit", "leave"} # {}
    BY <1>3, <1>5, <2>1 DEF A!CtrlC, A!Interrupt
  <2>2. CASE ~(a_dialogs \intersect {"exit", "leave"} # {})
    <3>1. PICK d \in {"leave", "exit"} :
            /\ a_dialogs' = a_dialogs \union {d} /\ (d = "leave" => a_screen = "room")
            /\ UNCHANGED <<a_node, a_room, a_answers, a_kick, a_screen, a_view, a_IsConnecting,
                           a_invite, a_media, a_kicked, a_running, a_crossed>>
      BY <1>5, <2>2 DEF A!CtrlC, A!Interrupt, A!Open, A!NodeStays, A!nodeVars
    <3> QED
      BY <1>4, <3>1 DEF A!Dialogs
  <2> QED
    BY <2>1, <2>2
<1>6. CASE A!LobbyOpens \/ A!RoomOpens
  <2>1. PICK d \in {"exit", "test", "relay", "leave", "share"} :
          /\ a_dialogs' = a_dialogs \union {d}
          /\ A!ReachesScreen("room") \/ (A!ReachesScreen("lobby") /\ d \notin {"leave", "share"})
          /\ UNCHANGED <<a_node, a_room, a_answers, a_kick, a_screen, a_view, a_IsConnecting,
                         a_invite, a_media, a_kicked, a_running, a_crossed>>
    BY <1>6 DEF A!LobbyOpens, A!RoomOpens, A!Open, A!NodeStays, A!nodeVars
  <2>2. ~a_invite /\ "debug" \notin a_dialogs /\ (d \in {"leave", "share"} => a_screen = "room")
    BY <2>1, NothingOpen
  <2> QED
    BY <1>4, <2>1, <2>2 DEF A!Dialogs
\* Dialogs close, and nothing opens but a question that clears them.
<1>7. ASSUME a_dialogs' \subseteq a_dialogs, a_invite' \in BOOLEAN, a_media' \in BOOLEAN,
             a_invite' => a_invite \/ ("relay" \notin a_dialogs' /\ "test" \notin a_dialogs'),
             a_media' => a_media \/ a_screen = "room",
             UNCHANGED <<a_node, a_room, a_answers, a_kick, a_screen, a_view, a_IsConnecting,
                         a_kicked, a_running, a_crossed>>
      PROVE  ScreenInv'
  <2>1. ScreenTypes'
    BY <1>1, <1>7 DEF ScreenTypes
  <2>2. DialogsFit'
    BY <1>1, <1>7 DEF DialogsFit, ScreenTypes
  <2> QED
    BY <1>1, <1>7, <2>1, <2>2, RoomStays DEF ScreenInv
<1>8. ASSUME NEW d, A!Close(d) PROVE ScreenInv'
  <2>1. /\ a_dialogs' \subseteq a_dialogs
        /\ UNCHANGED <<a_node, a_room, a_answers, a_kick, a_screen, a_view, a_IsConnecting,
                       a_invite, a_media, a_kicked, a_running, a_crossed>>
    BY <1>8 DEF A!Close, A!NodeStays, A!nodeVars
  <2> QED
    BY <1>1, <1>7, <2>1 DEF ScreenTypes
<1>9. CASE A!ToggleDebug
  <2>1. CASE "debug" \in a_dialogs
    <3>1. /\ a_dialogs' \subseteq a_dialogs
          /\ UNCHANGED <<a_node, a_room, a_answers, a_kick, a_screen, a_view, a_IsConnecting,
                         a_invite, a_media, a_kicked, a_running, a_crossed>>
      BY <1>9, <2>1 DEF A!ToggleDebug, A!NodeStays, A!nodeVars
    <3> QED
      BY <1>1, <1>7, <3>1 DEF ScreenTypes
  <2>2. CASE "debug" \notin a_dialogs
    <3>1. /\ a_dialogs' = a_dialogs \union {"debug"} /\ "relay" \notin a_dialogs
          /\ UNCHANGED <<a_node, a_room, a_answers, a_kick, a_screen, a_view, a_IsConnecting,
                         a_invite, a_media, a_kicked, a_running, a_crossed>>
      BY <1>9, <2>2 DEF A!ToggleDebug, A!Open, A!NodeStays, A!nodeVars
    <3> QED
      BY <1>4, <3>1 DEF A!Dialogs
  <2> QED
    BY <2>1, <2>2
<1>10. CASE A!AnswerOffer \/ A!AnswerKnock \/ A!OfferArrives \/ A!KnockArrives \/ A!KnockExpires \/ A!InviteArms
  <2>1. UNCHANGED <<a_node, a_room, a_answers, a_kick, a_screen, a_view, a_IsConnecting, a_dialogs,
                    a_invite, a_media, a_kicked, a_running, a_crossed>>
    BY <1>10 DEF A!AnswerOffer, A!AnswerKnock, A!OfferArrives, A!KnockArrives, A!KnockExpires,
       A!InviteArms, A!NodeStays, A!nodeVars
  <2> QED
    BY <1>1, <1>7, <2>1 DEF ScreenTypes
<1>11. CASE A!CloseMedia \/ A!OpenMedia
  <2>1. /\ a_media' \in BOOLEAN /\ (a_media' => a_media \/ a_screen = "room")
        /\ UNCHANGED <<a_node, a_room, a_answers, a_kick, a_screen, a_view, a_IsConnecting, a_dialogs,
                       a_invite, a_kicked, a_running, a_crossed>>
    BY <1>11 DEF A!CloseMedia, A!OpenMedia, A!NodeStays, A!nodeVars
  <2> QED
    BY <1>1, <1>7, <2>1 DEF ScreenTypes
<1>12. CASE A!DeclineInvite \/ A!InviteArrives
  <2>1. /\ a_dialogs' \subseteq a_dialogs
        /\ a_invite' = FALSE \/ (a_invite' = TRUE /\ "relay" \notin a_dialogs' /\ "test" \notin a_dialogs')
        /\ UNCHANGED <<a_node, a_room, a_answers, a_kick, a_screen, a_view, a_IsConnecting,
                       a_media, a_kicked, a_running, a_crossed>>
    BY <1>12 DEF A!DeclineInvite, A!InviteArrives, A!NodeStays, A!nodeVars
  <2> QED
    BY <1>1, <1>7, <2>1 DEF ScreenTypes

\* The room is left for the lobby: what is the room's own closes.
<1>13. ASSUME A!ResetToLobby
       PROVE  /\ a_screen' = "lobby" /\ a_media' = FALSE /\ a_dialogs' \subseteq a_dialogs
              /\ "share" \notin a_dialogs' /\ "leave" \notin a_dialogs'
  BY <1>13 DEF A!ResetToLobby
<1>14. CASE A!AnswerLeave
  <2>1. CASE A!Close("leave")
    BY <1>8, <2>1
  <2>2. CASE "leave" \in a_dialogs /\ A!LeaveForLobby /\ UNCHANGED <<a_IsConnecting, a_invite, a_kicked, a_running>>
    <3>1. /\ a_screen = "room" /\ A!ResetToLobby /\ a_node' = "out"
          /\ UNCHANGED <<a_room, a_answers, a_kick, a_crossed>>
      BY <1>1, <2>2 DEF A!LeaveForLobby, A!LeaveRoom, DialogsFit, ScreenTypes
    <3>2. ScreenTypes' /\ DialogsFit'
      BY <1>1, <1>13, <2>2, <3>1 DEF ScreenTypes, DialogsFit
    <3>3. RoomIsShown'
      BY <1>1, <1>13, <2>2, <3>1 DEF RoomIsShown, Shown, Answered, Removed, Told
    <3> QED
      BY <3>2, <3>3 DEF ScreenInv
  <2> QED
    BY <1>14, <2>1, <2>2 DEF A!AnswerLeave
<1>15. CASE A!AcceptInvite
  <2>1. /\ a_invite' = FALSE /\ a_node' = "joining" /\ a_IsConnecting' = TRUE
        /\ a_crossed' = (a_crossed \/ A!Pending)
        /\ UNCHANGED <<a_answers, a_kick, a_kicked, a_running>>
    BY <1>15 DEF A!AcceptInvite, A!JoinRoom, A!RequestJoinRoom
  <2>2. /\ a_screen' = "lobby" /\ a_media' = FALSE /\ a_dialogs' \subseteq a_dialogs
        /\ "share" \notin a_dialogs' /\ "leave" \notin a_dialogs'
    <3>1. CASE a_screen = "room"
      BY <1>13, <1>15, <3>1 DEF A!AcceptInvite
    <3>2. CASE a_screen = "lobby"
      <4>1. UNCHANGED <<a_screen, a_dialogs, a_media>>
        BY <1>15, <3>2 DEF A!AcceptInvite
      <4>2. a_media = FALSE
        BY <1>1, <3>2 DEF DialogsFit, ScreenTypes
      <4> QED
        BY <1>1, <3>2, <4>1, <4>2 DEF DialogsFit
    <3> QED
      BY <1>1, <3>1, <3>2 DEF ScreenTypes
  <2>3. ScreenTypes' /\ DialogsFit'
    BY <1>1, <2>1, <2>2, CrossedBy DEF ScreenTypes, DialogsFit
  <2>4. RoomIsShown'
    BY <2>1, <2>2, CrossedBy DEF RoomIsShown, Shown
  <2> QED
    BY <2>3, <2>4 DEF ScreenInv
<1>16. CASE A!LobbyHosts
  <2>1. /\ a_node' = "host" /\ a_room' = a_rooms + 1 /\ a_screen' = "room" /\ a_view' = a_rooms + 1
        /\ a_crossed' = (a_crossed \/ A!Pending)
        /\ UNCHANGED <<a_answers, a_kick, a_IsConnecting, a_dialogs, a_invite, a_media, a_kicked, a_running>>
    BY <1>16 DEF A!LobbyHosts, A!StartHost, A!HostRoom
  <2>2. ScreenTypes' /\ DialogsFit'
    BY <1>1, <2>1, CrossedBy DEF ScreenTypes, DialogsFit
  <2>3. RoomIsShown'
    BY <2>1, CrossedBy DEF RoomIsShown, Shown
  <2> QED
    BY <2>2, <2>3 DEF ScreenInv
<1>17. CASE A!LobbyJoins
  <2>1. /\ a_node' = "joining" /\ a_IsConnecting' = TRUE /\ a_screen = "lobby"
        /\ a_crossed' = (a_crossed \/ A!Pending)
        /\ UNCHANGED <<a_answers, a_kick, a_screen, a_dialogs, a_invite, a_media, a_kicked, a_running>>
    BY <1>17, NothingOpen DEF A!LobbyJoins, A!JoinRoom, A!RequestJoinRoom
  <2>2. ScreenTypes' /\ DialogsFit'
    BY <1>1, <2>1, CrossedBy DEF ScreenTypes, DialogsFit
  <2>3. RoomIsShown'
    BY <2>1, CrossedBy DEF RoomIsShown, Shown
  <2> QED
    BY <2>2, <2>3 DEF ScreenInv
<1>18. CASE A!LobbyCancels
  <2>1. /\ a_node' = (IF a_node = "joining" THEN "out" ELSE a_node) /\ a_IsConnecting' = FALSE
        /\ a_screen = "lobby"
        /\ UNCHANGED <<a_room, a_answers, a_kick, a_screen, a_view, a_dialogs, a_invite, a_media,
                       a_kicked, a_running, a_crossed>>
    BY <1>18, NothingOpen DEF A!LobbyCancels, A!CancelJoin
  <2>2. ScreenTypes' /\ DialogsFit'
    BY <1>1, <2>1 DEF ScreenTypes, DialogsFit
  <2>3. RoomIsShown'
    BY <1>1, <2>1 DEF RoomIsShown, Shown, Answered, Removed, Told
  <2> QED
    BY <2>2, <2>3 DEF ScreenInv
<1>19. CASE A!Welcomed \/ A!JoinFails
  <2>1. PICK k \in {"success", "failure"} :
          /\ a_running /\ a_node = "joining"
          /\ a_node' = IF k = "success" THEN "in" ELSE "out"
          /\ a_answers' = a_answers \union {[kind |-> k, room |-> a_room]}
          /\ UNCHANGED <<a_room, a_kick, a_screen, a_IsConnecting, a_dialogs, a_invite, a_media,
                         a_kicked, a_running, a_crossed>>
    BY <1>19 DEF A!Welcomed, A!JoinFails, A!appVars
  <2>2. ScreenTypes' /\ DialogsFit'
    BY <1>1, <2>1 DEF ScreenTypes, DialogsFit
  <2>3. ASSUME ~a_crossed PROVE Answered'
    <3>1. Shown
      BY <1>1, <2>1, <2>3 DEF RoomIsShown, Answered, Removed, Told
    <3>2. a_screen = "lobby" /\ a_answers' = {[kind |-> k, room |-> a_room]}
      BY <1>1, <2>1, <3>1 DEF Shown, ScreenTypes
    <3> DEFINE a == [kind |-> k, room |-> a_room]
    <3>3. a_answers' = {a} /\ a.room = a_room' /\ a.kind = k
      BY <2>1, <3>2
    <3> QED
      BY <2>1, <3>1, <3>2, <3>3 DEF Shown, Answered
  <2>4. RoomIsShown'
    BY <2>1, <2>3 DEF RoomIsShown
  <2> QED
    BY <2>2, <2>4 DEF ScreenInv
<1>20. CASE A!OnSuccess \/ A!OnFailed
  <2>1. PICK a \in a_answers :
          /\ a_running /\ a_answers' = a_answers \ {a} /\ a_IsConnecting' = FALSE
          /\ \/ a.kind = "success" /\ a_screen' = "room" /\ a_view' = a.room
             \/ a.kind = "failure" /\ UNCHANGED <<a_screen, a_view>>
          /\ UNCHANGED <<a_node, a_room, a_kick, a_dialogs, a_invite, a_media, a_kicked, a_running, a_crossed>>
    BY <1>20 DEF A!OnSuccess, A!OnFailed
  <2>2. ScreenTypes' /\ DialogsFit'
    BY <1>1, <2>1 DEF ScreenTypes, DialogsFit
  <2>3. ASSUME ~a_crossed PROVE Shown'
    <3>1. Answered
      BY <1>1, <2>1, <2>3 DEF RoomIsShown, Shown, Removed, Told
    <3>2. /\ a_answers = {a} /\ a.room = a_room
          /\ (a.kind = "success" /\ a_node = "in") \/ (a.kind = "failure" /\ a_node = "out")
      BY <2>1, <3>1 DEF Answered
    <3> QED
      BY <2>1, <3>1, <3>2 DEF Answered, Shown
  <2>4. RoomIsShown'
    BY <2>1, <2>3 DEF RoomIsShown
  <2> QED
    BY <2>2, <2>4 DEF ScreenInv
<1>21. CASE A!Kicked
  <2>1. /\ a_node = "in" /\ a_kick' = "leave" /\ a_crossed' = (a_crossed \/ A!Pending)
        /\ UNCHANGED <<a_node, a_answers, a_screen, a_IsConnecting, a_dialogs, a_invite, a_media,
                       a_kicked, a_running>>
    BY <1>21 DEF A!Kicked, A!appVars
  <2>2. ScreenTypes' /\ DialogsFit'
    BY <1>1, <2>1, CrossedBy DEF ScreenTypes, DialogsFit
  <2>3. RoomIsShown'
    BY <2>1, CrossedBy DEF RoomIsShown, Removed
  <2> QED
    BY <2>2, <2>3 DEF ScreenInv
<1>22. CASE A!KickLeaves
  <2>1. /\ a_kick = "leave" /\ a_kick' = "tell" /\ a_node' = "out"
        /\ UNCHANGED <<a_answers, a_screen, a_IsConnecting, a_dialogs, a_invite, a_media,
                       a_kicked, a_running, a_crossed>>
    BY <1>22 DEF A!KickLeaves, A!appVars
  <2>2. ScreenTypes' /\ DialogsFit'
    BY <1>1, <2>1 DEF ScreenTypes, DialogsFit
  <2>3. RoomIsShown'
    BY <1>1, <2>1 DEF RoomIsShown, Shown, Answered, Removed, Told
  <2> QED
    BY <2>2, <2>3 DEF ScreenInv
<1>23. CASE A!OnKicked
  <2>1. /\ a_kick = "tell" /\ a_kick' = "none" /\ a_kicked' = TRUE
        /\ UNCHANGED <<a_node, a_answers, a_screen, a_IsConnecting, a_dialogs, a_invite, a_media,
                       a_running, a_crossed>>
    BY <1>23 DEF A!OnKicked
  <2>2. ScreenTypes' /\ DialogsFit'
    BY <1>1, <2>1 DEF ScreenTypes, DialogsFit
  <2>3. RoomIsShown'
    BY <1>1, <2>1 DEF RoomIsShown, Shown, Answered, Removed, Told
  <2> QED
    BY <2>2, <2>3 DEF ScreenInv
<1>24. CASE A!ApplyKicked
  <2>1. /\ a_kicked /\ a_kicked' = FALSE
        /\ UNCHANGED <<a_node, a_room, a_answers, a_kick, a_IsConnecting, a_invite, a_running, a_crossed>>
    BY <1>24 DEF A!ApplyKicked, A!nodeVars
  <2>2. /\ a_screen' = "lobby" /\ a_media' = FALSE /\ a_dialogs' \subseteq a_dialogs
        /\ "share" \notin a_dialogs' /\ "leave" \notin a_dialogs'
    <3>1. CASE a_screen = "room"
      BY <1>13, <1>24, <3>1 DEF A!ApplyKicked
    <3>2. CASE a_screen = "lobby"
      <4>1. UNCHANGED <<a_screen, a_dialogs, a_media>>
        BY <1>24, <3>2 DEF A!ApplyKicked
      <4>2. a_media = FALSE
        BY <1>1, <3>2 DEF DialogsFit, ScreenTypes
      <4> QED
        BY <1>1, <3>2, <4>1, <4>2 DEF DialogsFit
    <3> QED
      BY <1>1, <3>1, <3>2 DEF ScreenTypes
  <2>3. ScreenTypes' /\ DialogsFit'
    BY <1>1, <2>1, <2>2 DEF ScreenTypes, DialogsFit
  <2>4. RoomIsShown'
    BY <1>1, <2>1, <2>2 DEF RoomIsShown, Shown, Answered, Removed, Told
  <2> QED
    BY <2>3, <2>4 DEF ScreenInv
<1>25. CASE A!CloseRelay \/ A!CloseDebug \/ A!CloseTest \/ A!CloseShare \/ A!AnswerExit
  BY <1>3, <1>8, <1>25 DEF A!CloseRelay, A!CloseDebug, A!CloseTest, A!CloseShare, A!AnswerExit
<1>26. A!Next \/ UNCHANGED aVars
  BY DEF Next, Others, all
<1> QED
  BY <1>2, <1>5, <1>6, <1>9, <1>10, <1>11, <1>12, <1>14, <1>15, <1>16, <1>17, <1>18, <1>19, <1>20,
     <1>21, <1>22, <1>23, <1>24, <1>25, <1>26 DEF A!Next

\* The one that gets a key is opened, and none of those asked before it is.
LEMMA KeysGoTo ==
    ASSUME NEW d, A!GetsKeys(d)
    PROVE  \E i \in 1 .. 10 :
             /\ d = A!Handlers[i] /\ A!Takes(d)
             /\ \A j \in 1 .. 10 : j < i => ~A!Takes(A!Handlers[j])
<1>1. DOMAIN A!Handlers = 1 .. 10
  BY DEF A!Handlers
<1>2. PICK i \in 1 .. 10 : /\ A!Handlers[i] = d
                           /\ \A j \in 1 .. (i - 1) : ~A!Takes(A!Handlers[j])
  BY <1>1 DEF A!GetsKeys
<1>3. \A j \in 1 .. 10 : j < i => j \in 1 .. (i - 1)
  BY <1>2
<1> QED
  BY <1>2, <1>3 DEF A!GetsKeys

LEMMA HandlersAre ==
    /\ A!Handlers[1] = "relay" /\ A!Handlers[2] = "debug" /\ A!Handlers[3] = "media"
    /\ A!Handlers[4] = "offer" /\ A!Handlers[5] = "knock" /\ A!Handlers[6] = "exit"
    /\ A!Handlers[7] = "invite" /\ A!Handlers[8] = "leave" /\ A!Handlers[9] = "test"
    /\ A!Handlers[10] = "share"
BY DEF A!Handlers

\* A layer is drawn when none above it is opened.
LEMMA LobbyDraws ==
    ASSUME a_screen = "lobby", ~A!Opened("debug")
    PROVE  /\ A!Opened("relay") => A!Drawn("relay")
           /\ A!Opened("test") /\ ~A!Opened("relay") => A!Drawn("test")
           /\ A!Opened("exit") /\ ~A!Opened("relay") /\ ~A!Opened("test") => A!Drawn("exit")
           /\ A!Opened("invite") /\ ~A!Opened("relay") /\ ~A!Opened("test") /\ ~A!Opened("exit") =>
                A!Drawn("invite")
<1>1. A!Layers = <<"debug", "relay", "test", "exit", "invite">>
  BY DEF A!Layers
<1>2. DOMAIN A!Layers = 1 .. 5
  BY <1>1
<1>3. /\ A!Layers[1] = "debug" /\ A!Layers[2] = "relay" /\ A!Layers[3] = "test"
      /\ A!Layers[4] = "exit" /\ A!Layers[5] = "invite"
  BY <1>1
<1>4. /\ 1 .. (1 - 1) = {} /\ 1 .. (2 - 1) = {1} /\ 1 .. (3 - 1) = {1, 2}
      /\ 1 .. (4 - 1) = {1, 2, 3} /\ 1 .. (5 - 1) = {1, 2, 3, 4}
  OBVIOUS
<1>5. 2 \in DOMAIN A!Layers /\ 3 \in DOMAIN A!Layers /\ 4 \in DOMAIN A!Layers /\ 5 \in DOMAIN A!Layers
  BY <1>2
<1> QED
  BY <1>3, <1>4, <1>5 DEF A!Drawn

LEMMA RoomDraws ==
    ASSUME a_screen = "room", ~A!Opened("debug")
    PROVE  /\ A!Opened("invite") => A!Drawn("invite")
           /\ ~A!Opened("invite") =>
                /\ A!Opened("relay") => A!Drawn("relay")
                /\ A!Opened("test") /\ ~A!Opened("relay") => A!Drawn("test")
                /\ A!Opened("leave") /\ ~A!Opened("relay") /\ ~A!Opened("test") => A!Drawn("leave")
                /\ A!Opened("share") /\ ~A!Opened("relay") /\ ~A!Opened("test") /\ ~A!Opened("leave") =>
                     A!Drawn("share")
<1>1. A!Layers = <<"debug", "invite", "relay", "test", "leave", "share">>
  BY DEF A!Layers
<1>2. DOMAIN A!Layers = 1 .. 6
  BY <1>1
<1>3. /\ A!Layers[1] = "debug" /\ A!Layers[2] = "invite" /\ A!Layers[3] = "relay"
      /\ A!Layers[4] = "test" /\ A!Layers[5] = "leave" /\ A!Layers[6] = "share"
  BY <1>1
<1>4. /\ 1 .. (2 - 1) = {1} /\ 1 .. (3 - 1) = {1, 2} /\ 1 .. (4 - 1) = {1, 2, 3}
      /\ 1 .. (5 - 1) = {1, 2, 3, 4} /\ 1 .. (6 - 1) = {1, 2, 3, 4, 5}
  OBVIOUS
<1>5. /\ 2 \in DOMAIN A!Layers /\ 3 \in DOMAIN A!Layers /\ 4 \in DOMAIN A!Layers
      /\ 5 \in DOMAIN A!Layers /\ 6 \in DOMAIN A!Layers
  BY <1>2
<1> QED
  BY <1>3, <1>4, <1>5 DEF A!Drawn

LEMMA DebugIsDrawn == A!Opened("debug") => A!Drawn("debug")
<1>1. A!Layers[1] = "debug" /\ 1 \in DOMAIN A!Layers
  <2>1. CASE a_screen = "lobby"
    <3>1. A!Layers = <<"debug", "relay", "test", "exit", "invite">>
      BY <2>1 DEF A!Layers
    <3> QED
      BY <3>1
  <2>2. CASE a_screen # "lobby"
    <3>1. A!Layers = <<"debug", "invite", "relay", "test", "leave", "share">>
      BY <2>2 DEF A!Layers
    <3> QED
      BY <3>1
  <2> QED
    BY <2>1, <2>2
<1>2. 1 .. (1 - 1) = {}
  OBVIOUS
<1> QED
  BY <1>1, <1>2 DEF A!Drawn

OffersAreCounted == a_offers \in Nat

LEMMA KeysGoRight == ScreenInv /\ OffersAreCounted => A!KeysGoToWhatIsDrawn
<1> SUFFICES ASSUME ScreenInv, OffersAreCounted, NEW d \in A!Dialogs \union A!Guests, A!GetsKeys(d)
             PROVE  \/ A!Drawn(d)
                    \/ d \in {"exit", "leave"} /\ "test" \in a_dialogs
                    \/ d = "exit" /\ a_screen = "room"
  BY DEF A!KeysGoToWhatIsDrawn
<1>1. ScreenTypes /\ DialogsFit
  BY DEF ScreenInv
<1>2. PICK i \in 1 .. 10 : /\ d = A!Handlers[i] /\ A!Takes(d)
                           /\ \A j \in 1 .. 10 : j < i => ~A!Takes(A!Handlers[j])
  BY KeysGoTo
<1>3. /\ i \in {1, 2, 3, 4, 5, 6, 7, 8, 9, 10}
      /\ \A g \in A!Guests : g \notin a_dialogs
  BY <1>1, <1>2 DEF ScreenTypes, A!Guests, A!Dialogs
<1>4. d = "relay" => ~A!Opened("debug") /\ ~A!Opened("invite")
  <2> SUFFICES ASSUME d = "relay" PROVE ~A!Opened("debug") /\ ~A!Opened("invite")
    OBVIOUS
  <2>1. "relay" \in a_dialogs
    BY <1>2 DEF A!Takes, A!Opened
  <2> QED
    BY <1>1, <1>3, <2>1 DEF A!Opened, DialogsFit, A!Guests
<1>5. d \notin {"relay", "debug"} => ~A!Opened("relay") /\ ~A!Opened("debug")
  <2> SUFFICES ASSUME d \notin {"relay", "debug"} PROVE ~A!Opened("relay") /\ ~A!Opened("debug")
    OBVIOUS
  <2>1. i > 2
    BY <1>2, HandlersAre
  <2> QED
    BY <1>2, <2>1, HandlersAre DEF A!Takes
<1>6. CASE d = "debug"
  BY <1>2, <1>6, DebugIsDrawn DEF A!Takes
<1>7. CASE d = "relay"
  BY <1>1, <1>2, <1>4, <1>7, LobbyDraws, RoomDraws DEF A!Takes, ScreenTypes
<1>8. CASE d = "media"
  <2>1. a_media
    BY <1>2, <1>3, <1>8 DEF A!Takes, A!Opened, A!Guests
  <2> QED
    BY <1>1, <1>8, <2>1 DEF A!Drawn, ScreenTypes, DialogsFit
<1>9. CASE d = "offer"
  BY <1>2, <1>3, <1>9 DEF A!Takes, A!Opened, A!Drawn, A!Guests
<1>10. CASE d = "knock"
  <2>1. i = 5
    BY <1>2, <1>3, <1>10, HandlersAre
  <2>2. ~A!Takes("offer") /\ ~A!Takes("media")
    BY <1>2, <2>1, HandlersAre
  <2>3. a_screen = "room" /\ a_knocks > 0
    BY <1>2, <1>3, <1>10 DEF A!Takes, A!Opened, A!Guests
  <2>4. a_offers = 0
    BY <2>2 DEF A!Takes, OffersAreCounted
  <2> QED
    BY <1>10, <2>3, <2>4 DEF A!Drawn
<1>11. CASE d = "exit"
  <2>1. A!Opened("exit") /\ ~A!Opened("relay") /\ ~A!Opened("debug")
    BY <1>2, <1>5, <1>11 DEF A!Takes
  <2> QED
    BY <1>1, <1>11, <2>1, LobbyDraws DEF ScreenTypes, A!Opened
<1>12. CASE d = "invite"
  <2>1. i = 7
    BY <1>2, <1>3, <1>12, HandlersAre
  <2>2. ~A!Takes("exit")
    BY <1>2, <2>1, HandlersAre
  <2>3. A!Opened("invite") /\ ~A!Opened("relay") /\ ~A!Opened("debug") /\ ~A!Opened("exit")
    BY <1>2, <1>5, <1>12, <2>2 DEF A!Takes
  <2>4. ~A!Opened("test")
    BY <1>1, <2>3 DEF A!Opened, ScreenTypes, DialogsFit, A!Dialogs
  <2> QED
    BY <1>1, <1>12, <2>3, <2>4, LobbyDraws, RoomDraws DEF ScreenTypes
<1>13. CASE d = "leave"
  <2>1. i = 8
    BY <1>2, <1>3, <1>13, HandlersAre
  <2>2. ~A!Takes("invite")
    BY <1>2, <2>1, HandlersAre
  <2>3. A!Opened("leave") /\ ~A!Opened("relay") /\ ~A!Opened("debug") /\ ~A!Opened("invite")
    BY <1>2, <1>5, <1>13, <2>2 DEF A!Takes
  <2>4. a_screen = "room"
    BY <1>1, <2>3 DEF A!Opened, ScreenTypes, DialogsFit
  <2> QED
    BY <1>13, <2>3, <2>4, RoomDraws DEF A!Opened
<1>14. CASE d = "test"
  <2>1. i = 9
    BY <1>2, <1>3, <1>14, HandlersAre
  <2>2. ~A!Takes("invite")
    BY <1>2, <2>1, HandlersAre
  <2>3. A!Opened("test") /\ ~A!Opened("relay") /\ ~A!Opened("debug") /\ ~A!Opened("invite")
    BY <1>2, <1>5, <1>14, <2>2 DEF A!Takes
  <2> QED
    BY <1>1, <1>14, <2>3, LobbyDraws, RoomDraws DEF ScreenTypes
<1>15. CASE d = "share"
  <2>1. i = 10
    BY <1>2, <1>3, <1>15, HandlersAre
  <2>2. ~A!Takes("invite") /\ ~A!Takes("leave") /\ ~A!Takes("test")
    BY <1>2, <2>1, HandlersAre
  <2>3. /\ A!Opened("share") /\ ~A!Opened("relay") /\ ~A!Opened("debug") /\ ~A!Opened("invite")
        /\ ~A!Opened("leave") /\ ~A!Opened("test")
    BY <1>2, <1>5, <1>15, <2>2 DEF A!Takes
  <2>4. a_screen = "room"
    BY <1>1, <2>3 DEF A!Opened, ScreenTypes, DialogsFit
  <2> QED
    BY <1>15, <2>3, <2>4, RoomDraws
<1> QED
  BY <1>6, <1>7, <1>8, <1>9, <1>10, <1>11, <1>12, <1>13, <1>14, <1>15 DEF A!Dialogs, A!Guests

LEMMA OffersInit == Init => OffersAreCounted
BY DEF Init, A!Init, OffersAreCounted

LEMMA OffersStep == OffersAreCounted /\ [Next]_all => OffersAreCounted'
<1> SUFFICES ASSUME a_offers \in Nat, [Next]_all PROVE a_offers' \in Nat
  BY DEF OffersAreCounted
<1>1. CASE A!OfferArrives \/ A!AnswerOffer
  BY <1>1 DEF A!OfferArrives, A!AnswerOffer
<1>2. ASSUME A!Next, ~(A!OfferArrives \/ A!AnswerOffer) PROVE a_offers' = a_offers \/ a_offers' = 0
  BY <1>2 DEF A!Next, A!CtrlC, A!Interrupt, A!ToggleDebug, A!CloseRelay, A!CloseDebug, A!CloseTest,
     A!CloseShare, A!Close, A!AnswerExit, A!AnswerLeave, A!CloseMedia, A!AnswerKnock, A!DeclineInvite,
     A!AcceptInvite, A!LobbyHosts, A!StartHost, A!LobbyJoins, A!LobbyCancels, A!LobbyOpens, A!RoomOpens,
     A!Welcomed, A!JoinFails, A!OnSuccess, A!OnFailed, A!Kicked, A!KickLeaves, A!OnKicked, A!ApplyKicked,
     A!OpenMedia, A!KnockArrives, A!KnockExpires, A!InviteArrives, A!InviteArms, A!ResetToLobby,
     A!LeaveForLobby, A!CleanExit, A!appVars
<1>3. A!Next \/ UNCHANGED aVars
  BY DEF Next, Others, all
<1> QED
  BY <1>1, <1>2, <1>3 DEF aVars

-----------------------------------------------------------------------------
(* The types of the components                                             *)

\* Beside what AddressInv says.
AddressTypes ==
    /\ r_shown \in BOOLEAN /\ r_selField \in -1 .. 1 /\ r_acts \in 0 .. r_MaxActs
    /\ r_selStart \in -1 .. r_MaxLen /\ r_selEnd \in -1 .. r_MaxLen

LEMMA AddressAssumed == r_MaxLen \in Nat /\ r_MaxActs \in Nat
BY MCAppAssumption DEF R!RelayDialogAssumption

LEMMA AddressTyped == AddressInv /\ AddressTypes => R!TypeOK
<1> SUFFICES ASSUME AddressInv, AddressTypes PROVE R!TypeOK
  OBVIOUS
<1>1. r_Cursor \in [R!Fields -> 0 .. 2 * r_MaxLen]
  BY AddressAssumed DEF AddressInv, R!Lengths
<1> QED
  BY <1>1 DEF AddressInv, AddressTypes, R!TypeOK

LEMMA AddressTypesInit == Init => AddressTypes
<1> SUFFICES ASSUME R!Init PROVE AddressTypes
  BY DEF Init
<1>1. /\ r_shown = FALSE /\ r_selField = -1 /\ r_selStart = -1 /\ r_selEnd = -1 /\ r_acts = 0
  BY DEF R!Init
<1>2. r_shown \in BOOLEAN
  BY <1>1, Zenon
<1> QED
  BY <1>1, <1>2, AddressAssumed DEF AddressTypes

LEMMA AddressTypesStep == AddressInv /\ AddressTypes /\ [Next]_all => AddressTypes'
<1> SUFFICES ASSUME AddressInv, AddressTypes, R!Next \/ UNCHANGED rVars PROVE AddressTypes'
  BY DEF Next, Others, all
<1> USE AddressAssumed
<1>1. CASE UNCHANGED rVars
  BY <1>1 DEF rVars, AddressTypes
<1>2. CASE R!Next
  <2>1. r_acts' \in 0 .. r_MaxActs
    <3>1. r_acts < r_MaxActs /\ r_acts' = r_acts + 1
      BY <1>2 DEF R!Next, R!Open, R!Close, R!Move, R!MoveCursor, R!SelectAll, R!Click, R!Insert,
         R!Delete, R!Cut, R!Clear, R!Save, R!Act
    <3> QED
      BY <3>1 DEF AddressTypes
  <2>2. r_shown' \in BOOLEAN
    <3>1. r_shown' = TRUE \/ r_shown' = FALSE \/ r_shown' = r_shown
      BY <1>2 DEF R!Next, R!Open, R!Close, R!Move, R!MoveCursor, R!SelectAll, R!Click, R!Insert,
         R!Delete, R!Cut, R!Clear, R!Save
    <3> QED
      BY <3>1, Zenon DEF AddressTypes
  <2> DEFINE kept == r_selField' \in -1 .. 1 /\ r_selStart' \in -1 .. r_MaxLen /\ r_selEnd' \in -1 .. r_MaxLen
  <2>3. \A f \in R!Fields : /\ f \in -1 .. 1 /\ r_length[f] \in -1 .. r_MaxLen
                            /\ r_Cursor[f] \in -1 .. r_MaxLen
    BY DEF AddressInv, R!Fields, R!Lengths
  <2>4. UNCHANGED R!selection => kept
    BY DEF R!selection, AddressTypes
  <2>5. R!ClearSelection => kept
    BY DEF R!ClearSelection
  <2>6. ASSUME R!Open PROVE kept
    <3>1. PICK url \in R!Lengths : r_selField' = 0 /\ r_selStart' = 0 /\ r_selEnd' = url
      BY <2>6 DEF R!Open
    <3> QED
      BY <3>1 DEF R!Lengths
  <2>7. ASSUME R!Close \/ R!Move \/ R!Insert \/ R!Delete \/ R!Cut \/ R!Clear \/ R!Save PROVE kept
    <3>1. R!ClearSelection \/ UNCHANGED R!selection
      BY <2>7 DEF R!Close, R!Move, R!Insert, R!Delete, R!Cut, R!Clear, R!Save
    <3> QED
      BY <2>4, <2>5, <3>1
  <2>8. ASSUME R!MoveCursor PROVE kept
    <3>1. PICK to \in 0 .. r_length[r_active] :
            \/ R!ClearSelection
            \/ /\ r_selField' = r_active /\ r_selEnd' = to
               /\ r_selStart' = IF r_selField # r_active \/ r_selStart = -1 THEN r_Cursor[r_active]
                                ELSE r_selStart
      BY <2>8 DEF R!MoveCursor
    <3>2. r_active \in R!Fields
      BY <2>8 DEF R!MoveCursor
    <3>3. to \in -1 .. r_MaxLen
      BY <2>3, <3>2
    <3>4. r_selStart \in -1 .. r_MaxLen /\ r_Cursor[r_active] \in -1 .. r_MaxLen /\ r_active \in -1 .. 1
      BY <2>3, <3>2 DEF AddressTypes
    <3> QED
      BY <2>5, <3>1, <3>3, <3>4
  <2>9. ASSUME R!SelectAll PROVE kept
    BY <2>3, <2>9 DEF R!SelectAll
  <2>10. ASSUME R!Click PROVE kept
    <3>1. PICK f \in R!Fields, col \in R!Lengths, drag \in BOOLEAN :
            /\ r_selEnd' = col
            /\ IF drag THEN UNCHANGED <<r_selField, r_selStart>> ELSE r_selField' = f /\ r_selStart' = col
      BY <2>10 DEF R!Click
    <3>2. col \in -1 .. r_MaxLen /\ f \in -1 .. 1
      BY <2>3 DEF R!Lengths
    <3> QED
      BY <3>1, <3>2 DEF AddressTypes
  <2>11. kept
    BY <1>2, <2>6, <2>7, <2>8, <2>9, <2>10 DEF R!Next
  <2> QED
    BY <2>1, <2>2, <2>11 DEF AddressTypes
<1> QED
  BY <1>1, <1>2

\* Beside what LineInv says.
LineTypes ==
    /\ i_IsChatFocused \in BOOLEAN /\ i_acts \in 0 .. i_MaxActs
    /\ i_arrived \in Nat /\ i_UnreadChatCount = i_arrived

LEMMA LineTyped == LineInv /\ LineTypes => I!TypeOK
BY DEF LineInv, LineTypes, I!TypeOK

LEMMA LineTypesInit == Init => LineTypes
<1> SUFFICES ASSUME I!Init PROVE LineTypes
  BY DEF Init
<1>1. i_IsChatFocused = FALSE /\ i_acts = 0 /\ i_arrived = 0 /\ i_UnreadChatCount = 0
  BY DEF I!Init
<1>2. i_IsChatFocused \in BOOLEAN
  BY <1>1, Zenon
<1> QED
  BY <1>1, <1>2, MCAppAssumption DEF I!ChatInputAssumption, LineTypes

LEMMA LineTypesStep == LineTypes /\ [Next]_all => LineTypes'
<1> SUFFICES ASSUME LineTypes, I!Next \/ UNCHANGED iVars PROVE LineTypes'
  BY DEF Next, Others, all
<1>0. i_MaxActs \in Nat
  BY MCAppAssumption DEF I!ChatInputAssumption
<1>1. i_IsChatFocused' \in BOOLEAN
  <2>1. i_IsChatFocused' = TRUE \/ i_IsChatFocused' = FALSE \/ i_IsChatFocused' = i_IsChatFocused
    BY DEF I!Next, I!Focus, I!Unfocus, I!Type, I!HistoryUp, I!HistoryDown, I!SendCurrentChat, I!Arrives, iVars
  <2> QED
    BY <2>1, Zenon DEF LineTypes
<1>2. i_acts' \in 0 .. i_MaxActs
  <2>1. i_acts' = i_acts \/ (i_acts < i_MaxActs /\ i_acts' = i_acts + 1)
    BY DEF I!Next, I!Focus, I!Unfocus, I!Type, I!HistoryUp, I!HistoryDown, I!SendCurrentChat, I!Arrives,
           I!Act, iVars
  <2> QED
    BY <1>0, <2>1 DEF LineTypes
<1>3. i_arrived' \in Nat /\ i_UnreadChatCount' = i_arrived'
  <2>1. \/ i_arrived' = i_arrived /\ i_UnreadChatCount' = i_UnreadChatCount
        \/ i_arrived' = 0 /\ i_UnreadChatCount' = 0
        \/ i_arrived' = i_arrived + 1 /\ i_UnreadChatCount' = i_UnreadChatCount + 1
    BY DEF I!Next, I!Focus, I!Unfocus, I!Type, I!HistoryUp, I!HistoryDown, I!SendCurrentChat, I!Arrives, iVars
  <2> QED
    BY <2>1 DEF LineTypes
<1> QED
  BY <1>1, <1>2, <1>3 DEF LineTypes

SettingsCounted == s_acts \in 0 .. s_MaxActs

LEMMA SettingsTyped == SettingsInv /\ SettingsCounted => S!TypeOK
<1> SUFFICES ASSUME SettingsInv, s_acts \in 0 .. s_MaxActs PROVE S!TypeOK
  BY DEF SettingsCounted
<1>1. S!Snapshot \in [audio : {0, 1}, device : {"default", "headset"}, chat : {0, 1}]
  BY DEF SettingsInv, SettingsTypes, S!Snapshot
<1>2. {s_running, s_plugged, s_torn, s_roomed, s_unplugged} \subseteq BOOLEAN
  BY Zenon DEF SettingsInv, SettingsTypes
<1> QED
  BY <1>1, <1>2 DEF SettingsInv, SettingsTypes, S!TypeOK

LEMMA SettingsActs ==
    /\ Init => SettingsCounted
    /\ SettingsCounted /\ [Next]_all => SettingsCounted'
<1>0. s_MaxActs \in Nat
  BY MCAppAssumption DEF S!SettingsAssumption
<1>1. ASSUME s_acts \in 0 .. s_MaxActs, [Next]_all PROVE s_acts' \in 0 .. s_MaxActs
  <2>1. S!Next \/ UNCHANGED sVars
    BY <1>1 DEF Next, Others, all
  <2>2. s_acts' = s_acts \/ (s_acts < s_MaxActs /\ s_acts' = s_acts + 1)
    BY <2>1 DEF S!Next, S!Start, S!CleanExit, S!Crash, S!ChangeAudio, S!ResizeChat, S!PickDevice, S!Plug,
       S!EnterRoom, S!PersistSettings, S!ChangeNick, S!Truncate, S!Write, S!Act, sVars
  <2> QED
    BY <1>0, <1>1, <2>2
<1> QED
  BY <1>0, <1>1 DEF Init, S!Init, SettingsCounted

StreamTypes ==
    /\ P!TypeOK
    /\ p_at # "attach" => p_todo = {}

LEMMA StreamAssumed ==
    /\ "speakers" \in P!Sinks
    /\ \A n \in {0, 1, 2, 3} : n \in 0 .. 3
    /\ \A n \in {0, 1} : n \in 0 .. 1
BY DEF P!Sinks

LEMMA StreamTypesInit == Init => StreamTypes
<1> SUFFICES ASSUME P!Init PROVE StreamTypes
  BY DEF Init
<1>1. /\ p_all \in BOOLEAN /\ p_stop = FALSE /\ p_clients = FALSE
      /\ p_server = [s \in P!Streams |-> "absent"] /\ p_sink = [s \in P!Streams |-> "speakers"]
      /\ p_sinks = P!Sinks /\ p_recs = {} /\ p_broken = {} /\ p_mixed = {}
      /\ p_at = "idle" /\ p_inputs = [s \in {} |-> {}] /\ p_monitors = {} /\ p_todo = {}
      /\ p_changes = 0 /\ p_faults = 0
  BY DEF P!Init
<1>2. p_stop \in BOOLEAN /\ p_clients \in BOOLEAN
  BY <1>1, Zenon
<1>3. p_server \in [P!Streams -> {"absent", "corked", "playing"}] /\ p_sink \in [P!Streams -> P!Sinks]
  BY <1>1, StreamAssumed
<1>4. DOMAIN p_inputs = {}
  BY <1>1
<1> QED
  BY <1>1, <1>2, <1>3, <1>4 DEF StreamTypes, P!TypeOK

LEMMA StreamTypesStep == StreamTypes /\ [Next]_all => StreamTypes'
<1> SUFFICES ASSUME StreamTypes, P!Next \/ UNCHANGED pVars PROVE StreamTypes'
  BY DEF Next, Others, all
<1> USE DEF StreamTypes, P!TypeOK
<1>1. ASSUME NEW s \in P!Streams, NEW v \in {"absent", "corked", "playing"}, P!Change,
             p_server' = [p_server EXCEPT ![s] = v],
             p_broken' = IF v = "absent" THEN p_broken \cup (p_recs \cap {s}) ELSE p_broken,
             UNCHANGED <<P!Idle, p_sink, p_sinks>>
      PROVE  StreamTypes'
  <2>1. p_broken' \subseteq p_recs
    BY <1>1
  <2>2. p_changes' \in 0 .. 3
    BY <1>1 DEF P!Change
  <2> QED
    BY <1>1, <2>1, <2>2 DEF P!Idle, P!Lists
<1>2. ASSUME NEW s \in P!Streams, NEW k \in p_sinks, P!Change, p_sink' = [p_sink EXCEPT ![s] = k],
             p_broken' \in {p_broken, p_broken \cup (p_recs \cap {s})},
             UNCHANGED <<P!Idle, p_server, p_sinks>>
      PROVE  StreamTypes'
  <2>1. p_broken' \subseteq p_recs
    BY <1>2
  <2>2. p_changes' \in 0 .. 3
    BY <1>2 DEF P!Change
  <2>3. p_sink' \in [P!Streams -> P!Sinks]
    BY <1>2
  <2> QED
    BY <1>2, <2>1, <2>2, <2>3 DEF P!Idle, P!Lists
<1>3. CASE P!ListInputs
  <2>1. DOMAIN p_inputs' \subseteq P!Streams
    BY <1>3 DEF P!ListInputs
  <2>2. p_todo = {} /\ p_at' = "listed"
    BY <1>3 DEF P!ListInputs
  <2> QED
    BY <1>3, <2>1, <2>2 DEF P!ListInputs, P!World
<1>4. CASE P!ListSinks
  BY <1>4 DEF P!ListSinks, P!World
<1>5. P!Fault => p_faults' \in 0 .. 1
  BY DEF P!Fault
<1>6. CASE P!ListClients
  <2>1. p_clients' \in BOOLEAN
    <3>1. p_clients' = TRUE \/ p_clients' = FALSE
      BY <1>6 DEF P!ListClients
    <3> QED
      BY <3>1, Zenon
  <2>2. p_faults' \in 0 .. 1
    BY <1>5, <1>6 DEF P!ListClients
  <2> QED
    BY <1>6, <2>1, <2>2 DEF P!ListClients, P!World
<1>7. CASE P!ScanFails
  BY <1>5, <1>7 DEF P!ScanFails, P!World, P!Lists
<1>8. CASE P!Attach
  <2>1. PICK s \in p_todo : /\ p_at = "attach" /\ p_todo' = p_todo \ {s}
                            /\ P!Record(s) \/ UNCHANGED <<p_recs, p_mixed, p_faults>>
    BY <1>8 DEF P!Attach
  <2>2. s \in P!Streams
    OBVIOUS
  <2>3. p_recs' \in {p_recs, p_recs \cup {s}} /\ p_mixed' \in {p_mixed, p_mixed \cup {s}}
    BY <2>1 DEF P!Record
  <2>4. p_faults' \in 0 .. 1
    BY <1>5, <2>1 DEF P!Record
  <2>5. UNCHANGED <<p_server, p_sink, p_sinks, p_broken, p_at, p_inputs, p_monitors, p_clients, p_stop, p_all,
                    p_changes>>
    BY <1>8 DEF P!Attach, P!World, P!Lists
  <2>6. p_broken' \subseteq p_recs' /\ p_recs' \subseteq P!Streams /\ p_mixed' \subseteq P!Streams
    BY <2>2, <2>3, <2>5
  <2>7. p_todo' \subseteq DOMAIN p_inputs'
    BY <2>1, <2>5
  <2> QED
    BY <2>1, <2>4, <2>5, <2>6, <2>7
<1>9. CASE P!Drop
  <2>1. p_broken' \subseteq p_recs' /\ p_recs' \subseteq P!Streams /\ p_mixed' \subseteq P!Streams
    BY <1>9 DEF P!Drop
  <2>2. p_todo' = {} /\ p_at' = "idle"
    BY <1>9 DEF P!Drop
  <2> QED
    BY <1>9, <2>1, <2>2 DEF P!Drop, P!World, P!Lists
<1>10. CASE P!Close
  <2>1. p_stop' = TRUE /\ UNCHANGED <<p_server, p_sink, p_sinks, p_recs, p_broken, p_mixed, p_at, p_inputs,
                                      p_monitors, p_clients, p_todo, p_all, p_changes, p_faults>>
    BY <1>10 DEF P!Close, P!World, P!Lists
  <2>2. p_stop' \in BOOLEAN
    BY <2>1, Zenon
  <2> QED
    BY <2>1, <2>2
<1>11. CASE P!Closed
  BY <1>11 DEF P!Closed, P!World, P!Lists
<1>12. CASE UNCHANGED pVars
  BY <1>12 DEF pVars
<1> QED
  BY <1>1, <1>2, <1>3, <1>4, <1>6, <1>7, <1>8, <1>9, <1>10, <1>11, <1>12
  DEF P!Next, P!Scan, P!StreamChanges, P!StreamMoves

LEMMA UpdateTyped == UpdateInv => U!TypeOK
BY DEF UpdateInv, UpdateTypes, UpdateSteps, U!TypeOK

\* Beside what LinksInv says.
LinkQueues ==
    /\ l_window \in [l_Procs -> SUBSET {"tty", "wayland"}]
    /\ l_socket \in l_Procs \cup {0} /\ l_bound \subseteq l_Procs
    /\ l_peer \in [l_Procs -> l_Procs \cup {0}]
    /\ \A p \in l_Procs : Len(l_invites[p]) <= l_Cap
    /\ l_asked \subseteq l_Links /\ l_lost \subseteq l_Links

LEMMA LinksTyped == LinksInv /\ LinkQueues => L!TypeOK
BY DEF LinksInv, LinkTypes, LinkQueues, L!TypeOK

LEMMA LinkQueuesInit == Init => LinkQueues
<1> SUFFICES ASSUME L!Init PROVE LinkQueues
  BY DEF Init
<1>1. /\ l_window = [p \in l_Procs |-> {}] /\ l_socket = 0 /\ l_bound = {} /\ l_asked = {} /\ l_lost = {}
      /\ l_peer = [p \in l_Procs |-> 0] /\ l_invites = [p \in l_Procs |-> <<>>]
  BY DEF L!Init
<1>2. Len(<<>>) = 0 /\ l_Cap \in Nat
  BY EmptySeq, MCAppAssumption DEF L!InviteLinksAssumption
<1> QED
  BY <1>1, <1>2 DEF LinkQueues

LEMMA LinkQueuesStep == LinksInv /\ LinkQueues /\ [Next]_all => LinkQueues'
<1> SUFFICES ASSUME LinksInv, LinkQueues, L!Next \/ UNCHANGED lVars PROVE LinkQueues'
  BY DEF Next, Others, all
<1>1. LinkTypes /\ Taken
  BY DEF LinksInv
<1>2. l_Cap \in Nat /\ L!None \notin l_Links /\ \A p \in l_Procs : p \in Nat
  BY MCAppAssumption DEF L!InviteLinksAssumption
<1>3. CASE UNCHANGED lVars
  BY <1>3 DEF lVars, LinkQueues
<1>4. ASSUME NEW p \in l_Procs,
             \/ L!Open(p) \/ L!RelaunchForDragAndDrop(p) \/ L!OpenInUserTerminal(p)
      PROVE  LinkQueues'
  <2>1. /\ \E q \in l_Procs, w \in SUBSET {"tty", "wayland"} : l_window' = [l_window EXCEPT ![q] = w]
        /\ UNCHANGED <<l_socket, l_bound, l_peer, l_invites, l_asked, l_lost>>
    BY <1>4 DEF L!Open, L!Start, L!RelaunchForDragAndDrop, L!OpenInUserTerminal, L!Succeed, L!Sockets,
       L!Sending, L!Past
  <2> QED
    BY <2>1 DEF LinkQueues
<1>5. ASSUME NEW p \in l_Procs,
             \/ L!ForwardInvite(p) \/ L!Answer(p) \/ L!Forwarded(p) \/ L!NoAnswer(p) \/ L!StartApp(p)
      PROVE  LinkQueues'
  <2>1. /\ l_peer' = l_peer \/ l_peer' = [l_peer EXCEPT ![p] = l_socket]
        /\ UNCHANGED <<l_window, l_socket, l_bound, l_invites, l_asked, l_lost>>
    BY <1>5 DEF L!ForwardInvite, L!Answer, L!Forwarded, L!NoAnswer, L!StartApp, L!Sockets, L!Sending, L!Past
  <2> QED
    BY <2>1 DEF LinkQueues
<1>6. ASSUME NEW p \in l_Procs, L!ServeInvite(p) PROVE LinkQueues'
  <2>1. PICK q \in l_Procs, l \in l_Links :
          /\ \/ /\ Len(l_invites[q]) < l_Cap
                /\ l_invites' = [l_invites EXCEPT ![q] = Append(l_invites[q], l)] /\ UNCHANGED l_lost
             \/ l_lost' = l_lost \cup {l} /\ UNCHANGED l_invites
          /\ UNCHANGED <<l_window, l_socket, l_bound, l_peer, l_asked>>
    <3>1. l_link[p] \in l_Links /\ l_peer[p] \in l_Procs
      BY <1>1, <1>6 DEF L!ServeInvite, L!Apps, LinkTypes, Taken
    <3> QED
      BY <1>6, <3>1 DEF L!ServeInvite, L!Sockets
  <2>2. l_invites[q] \in Seq(l_Links)
    BY <1>1 DEF LinkTypes
  <2>3. Len(Append(l_invites[q], l)) = Len(l_invites[q]) + 1 /\ Len(l_invites[q]) \in Nat
    BY <2>2, AppendProperties, LenProperties
  <2>4. ASSUME NEW r \in l_Procs PROVE Len(l_invites'[r]) <= l_Cap
    <3>1. CASE l_invites'[r] = l_invites[r]
      BY <3>1 DEF LinkQueues
    <3>2. CASE l_invites'[r] = Append(l_invites[q], l) /\ Len(l_invites[q]) < l_Cap
      BY <1>2, <2>3, <3>2
    <3> QED
      BY <1>1, <2>1, <3>1, <3>2 DEF LinkTypes
  <2>5. l_lost' \subseteq l_Links
    BY <2>1 DEF LinkQueues
  <2> QED
    BY <2>1, <2>4, <2>5 DEF LinkQueues
<1>7. ASSUME NEW p \in l_Procs, L!NoTerminal(p) PROVE LinkQueues'
  <2>1. /\ l_lost' = l_lost \cup ({l_link[p]} \ {L!None}) /\ l_link[p] \in l_Links \cup {L!None}
        /\ UNCHANGED <<l_window, l_socket, l_bound, l_peer, l_asked, l_invites>>
    BY <1>1, <1>7 DEF L!NoTerminal, L!Sockets, L!Sending, LinkTypes
  <2> QED
    BY <2>1 DEF LinkQueues
<1>8. ASSUME NEW p \in l_Procs, L!Run(p) PROVE LinkQueues'
  <2>1. /\ l_asked' = l_asked \cup ({l_link[p]} \ {L!None}) /\ l_link[p] \in l_Links \cup {L!None}
        /\ l_socket' \in {p, l_socket} /\ l_bound' \in {l_bound, l_bound \cup {p}}
        /\ UNCHANGED <<l_window, l_peer, l_lost, l_invites>>
    BY <1>1, <1>8 DEF L!Run, L!Sockets, L!Sending, LinkTypes
  <2> QED
    BY <2>1 DEF LinkQueues
<1>9. ASSUME NEW p \in l_Procs, L!ReceiveInvite(p) PROVE LinkQueues'
  <2>1. /\ l_invites[p] # <<>> /\ l_invites[p] \in Seq(l_Links)
        /\ l_asked' = l_asked \cup {Head(l_invites[p])}
        /\ l_invites' = [l_invites EXCEPT ![p] = Tail(l_invites[p])]
        /\ UNCHANGED <<l_window, l_socket, l_bound, l_peer, l_lost>>
    BY <1>1, <1>9 DEF L!ReceiveInvite, L!Sockets, L!Sending, LinkTypes
  <2>2. /\ Head(l_invites[p]) \in l_Links /\ Len(Tail(l_invites[p])) = Len(l_invites[p]) - 1
        /\ Len(l_invites[p]) \in Nat
    BY <2>1, HeadTailProperties, LenProperties
  <2>3. \A r \in l_Procs : Len(l_invites'[r]) <= l_Cap
    BY <1>1, <1>2, <2>1, <2>2 DEF LinkQueues, LinkTypes
  <2>4. l_asked' \subseteq l_Links
    BY <2>1, <2>2 DEF LinkQueues
  <2> QED
    BY <2>1, <2>3, <2>4 DEF LinkQueues
<1>10. ASSUME NEW p \in l_Procs, L!CleanExit(p) PROVE LinkQueues'
  <2>1. /\ l_bound' = l_bound \ {p} /\ l_socket' \in {0, l_socket}
        /\ l_lost' = l_lost \cup {l_invites[p][i] : i \in DOMAIN l_invites[p]}
        /\ l_invites' = [l_invites EXCEPT ![p] = <<>>]
        /\ UNCHANGED <<l_window, l_peer, l_asked>>
    BY <1>10 DEF L!CleanExit, L!Sending
  <2>2. \A i \in DOMAIN l_invites[p] : l_invites[p][i] \in l_Links
    BY <1>1, ElementOfSeq, LenProperties DEF LinkTypes
  <2>3. Len(<<>>) = 0
    BY EmptySeq
  <2>4. \A r \in l_Procs : Len(l_invites'[r]) <= l_Cap
    BY <1>1, <1>2, <2>1, <2>3 DEF LinkQueues, LinkTypes
  <2>5. l_lost' \subseteq l_Links
    BY <2>1, <2>2 DEF LinkQueues
  <2> QED
    BY <2>1, <2>4, <2>5 DEF LinkQueues
<1> QED
  BY <1>3, <1>4, <1>5, <1>6, <1>7, <1>8, <1>9, <1>10 DEF L!Next

\* Beside what MixerInv says.
MixerBounds ==
    /\ x_buf \in [x_Streams -> 0 .. x_Backlog] /\ x_last \in [x_Streams -> 0 .. x_MaxTime]
    /\ x_now \in 0 .. x_MaxTime /\ x_stops \in 0 .. x_MaxStops

LEMMA MixerTyped == MixerInv /\ MixerBounds => X!TypeOK
<1> SUFFICES ASSUME MixerInv, MixerBounds PROVE X!TypeOK
  OBVIOUS
<1>1. x_MaxTime \in Nat /\ x_heard \in 0 .. x_now /\ x_now \in 0 .. x_MaxTime
  BY MCAppAssumption DEF MixerInv, MixerTypes, MixerBounds, X!SoundMixerAssumption
<1>2. x_heard \in 0 .. x_MaxTime
  BY <1>1
<1> QED
  BY <1>2 DEF MixerInv, MixerTypes, MixerBounds, X!TypeOK

LEMMA MixerBoundsInit == Init => MixerBounds
<1> SUFFICES ASSUME X!Init PROVE MixerBounds
  BY DEF Init
<1> QED
  BY MCAppAssumption DEF X!Init, MixerBounds, X!SoundMixerAssumption

\* A queue that is full stays so.
LEMMA QueueIsBounded ==
    ASSUME MixerBounds, NEW s \in x_Streams, X!Push(s), x_due[s] \in Nat
    PROVE  x_buf' \in [x_Streams -> 0 .. x_Backlog]
<1>1. x_Backlog \in Nat
  BY MixerConstants
<1>2. PICK n \in 1 .. x_due[s] :
        x_buf' = [t \in x_Streams |->
          IF t \in x_srcs
          THEN X!Max({[x_buf EXCEPT ![s] = X!Min({@ + n, x_Backlog})][t]
                      - (IF x_clock' = s
                         THEN [x_buf EXCEPT ![s] = X!Min({@ + n, x_Backlog})][s] ELSE 0), 0})
          ELSE x_buf[t]]
  BY DEF X!Push
<1> DEFINE queued == [x_buf EXCEPT ![s] = X!Min({@ + n, x_Backlog})]
           out == IF x_clock' = s THEN queued[s] ELSE 0
<1>3. n \in Nat /\ x_buf \in [x_Streams -> 0 .. x_Backlog] /\ x_buf[s] \in Nat
  BY <1>1 DEF MixerBounds
<1>4. x_buf[s] + n \in Int /\ x_buf[s] + n >= 0
  BY <1>3
<1>5. X!Min({x_buf[s] + n, x_Backlog}) \in 0 .. x_Backlog
  BY <1>1, <1>4, LeastAndMost
<1>6. queued \in [x_Streams -> 0 .. x_Backlog]
  BY <1>3, <1>5
<1>7. out = 0 \/ out = queued[s]
  OBVIOUS
<1>8. x_buf' = [t \in x_Streams |-> IF t \in x_srcs THEN X!Max({queued[t] - out, 0}) ELSE x_buf[t]]
  BY <1>2
<1> HIDE DEF queued, out
<1>9. out \in 0 .. x_Backlog
  BY <1>1, <1>6, <1>7
<1>10. ASSUME NEW t \in x_Streams PROVE X!Max({queued[t] - out, 0}) \in 0 .. x_Backlog
  <2>1. queued[t] - out \in Int /\ queued[t] - out <= x_Backlog /\ 0 \in Int
    BY <1>1, <1>6, <1>9
  <2>2. X!Max({queued[t] - out, 0}) = IF queued[t] - out >= 0 THEN queued[t] - out ELSE 0
    BY <2>1, LeastAndMost
  <2> QED
    BY <1>1, <2>1, <2>2
<1> QED
  BY <1>3, <1>8, <1>10

LEMMA MixerBoundsStep == MixerInv /\ MixerBounds /\ [Next]_all => MixerBounds'
<1> SUFFICES ASSUME MixerInv, MixerBounds, X!Next \/ UNCHANGED xVars PROVE MixerBounds'
  BY DEF Next, Others, all
<1>1. x_Backlog \in Nat /\ x_MaxTime \in Nat /\ x_MaxStops \in Nat
  BY MCAppAssumption DEF X!SoundMixerAssumption
<1>2. CASE UNCHANGED xVars
  BY <1>2 DEF xVars, MixerBounds
<1>3. CASE X!Tick
  <2>1. x_now < x_MaxTime /\ x_now' = x_now + 1 /\ UNCHANGED <<x_buf, x_last, x_stops>>
    BY <1>3 DEF X!Tick
  <2> QED
    BY <1>1, <2>1 DEF MixerBounds
<1>4. ASSUME NEW s \in x_Streams, X!Play(s) \/ X!Pause(s) \/ X!Remove(s) PROVE MixerBounds'
  <2>1. /\ UNCHANGED <<x_buf, x_last, x_now>>
        /\ UNCHANGED x_stops \/ (x_stops < x_MaxStops /\ x_stops' = x_stops + 1)
    BY <1>4 DEF X!Play, X!Pause, X!Remove, X!Stop
  <2> QED
    BY <1>1, <2>1 DEF MixerBounds
<1>5. ASSUME NEW s \in x_Streams, X!Add(s) PROVE MixerBounds'
  <2>1. /\ x_buf' = [x_buf EXCEPT ![s] = 0] /\ x_last' = [x_last EXCEPT ![s] = 0]
        /\ UNCHANGED <<x_now, x_stops>>
    BY <1>5 DEF X!Add
  <2> QED
    BY <1>1, <2>1 DEF MixerBounds
<1>6. ASSUME NEW s \in x_Streams, X!Push(s) PROVE MixerBounds'
  <2>1. x_last' = [x_last EXCEPT ![s] = x_now] /\ UNCHANGED <<x_now, x_stops>>
    BY <1>6 DEF X!Push
  <2>2. x_due[s] \in Nat
    BY MixerConstants DEF MixerInv, MixerTypes
  <2>3. x_buf' \in [x_Streams -> 0 .. x_Backlog]
    BY <1>6, <2>2, QueueIsBounded
  <2> QED
    BY <2>1, <2>3 DEF MixerBounds
<1> QED
  BY <1>2, <1>3, <1>4, <1>5, <1>6 DEF X!Next

\* Beside what ClipInv says: every text is one that was copied.
CopiesFit ==
    /\ b_copies \in 0 .. b_MaxCopies /\ b_last \in 0 .. b_MaxCopies /\ b_open \in BOOLEAN
    /\ \A c \in B!Conns : b_conn[c].text \in 0 .. b_MaxCopies
    /\ b_copy.text \in 0 .. b_MaxCopies /\ (b_copy.ways # <<>> => b_copy.text # 0)

HeldFits ==
    /\ b_held \in 0 .. b_MaxCopies /\ (b_owner \in B!Conns => b_held # 0)
    /\ \A a \in b_asks : a.text \in 1 .. b_MaxCopies
    /\ b_read.from \in B!Conns \cup {B!Tool, B!Other, B!Nobody} /\ b_read.text \in 0 .. b_MaxCopies

TextsFit == CopiesFit /\ HeldFits

LEMMA ClipTyped == ClipInv /\ TextsFit => B!TypeOK
<1> SUFFICES ASSUME ClipInv, TextsFit PROVE B!TypeOK
  OBVIOUS
<1>1. ClipTypes /\ ReadersAreRight /\ CopiesFit /\ HeldFits
  BY DEF ClipInv, TextsFit
<1>2. B!Texts \cup {0} = 0 .. b_MaxCopies /\ B!Texts = 1 .. b_MaxCopies
  BY MCAppAssumption DEF B!Texts, B!ClipboardAssumption
<1>3. b_conn \in [B!Conns -> [by : B!Protocols \cup {"none"}, text : B!Texts \cup {0},
                              state : {"unused", "new", "served", "closed"}]]
  BY <1>1, <1>2 DEF ClipTypes, ConnRecords, CopiesFit
<1>4. \A a \in b_asks : a.of \in B!Conns /\ a.text \in B!Texts /\ a.got \in B!Texts \cup {0}
  BY <1>1, <1>2 DEF ClipTypes, ReadersAreRight, HeldFits
<1>5. b_read.got \in B!Texts \cup {0}
  BY <1>1, <1>2 DEF ReadersAreRight, HeldFits
<1> QED
  BY <1>1, <1>2, <1>3, <1>4, <1>5 DEF ClipTypes, CopiesFit, HeldFits, B!TypeOK

LEMMA TextsFitInit == Init => TextsFit
<1> SUFFICES ASSUME B!Init PROVE TextsFit
  BY DEF Init
<1>0. b_MaxCopies \in Nat /\ 0 \notin B!Conns
  BY MCAppAssumption DEF B!ClipboardAssumption, B!Conns
<1>1. /\ b_owner = 0 /\ b_held = 0 /\ b_asks = {} /\ b_open = TRUE /\ b_copies = 0 /\ b_last = 0
      /\ b_conn = [c \in B!Conns |-> [by |-> "none", text |-> 0, state |-> "unused"]]
      /\ b_copy = [text |-> 0, conn |-> 0, ways |-> <<>>]
      /\ b_read = [ways |-> <<>>, from |-> 0, text |-> 0, got |-> 0]
  BY DEF B!Init, B!Nobody, B!NoCopy, B!NoRead, B!Unused
<1>2. b_open \in BOOLEAN
  BY <1>1, Zenon
<1>3. CopiesFit
  BY <1>0, <1>1, <1>2 DEF CopiesFit
<1>4. HeldFits
  BY <1>0, <1>1 DEF HeldFits, B!Nobody
<1> QED
  BY <1>3, <1>4 DEF TextsFit

\* A connection that is closed or served keeps its text.
LEMMA TextsKept ==
    ASSUME NEW f \in [B!Conns -> ConnRecords], NEW c \in B!Conns, NEW s \in {"served", "closed"}
    PROVE  /\ [f EXCEPT ![c].state = s] \in [B!Conns -> ConnRecords]
           /\ \A d \in B!Conns : [f EXCEPT ![c].state = s][d].text = f[d].text
BY DEF ConnRecords

LEMMA CopiesStep == ClipInv /\ TextsFit /\ [Next]_all => CopiesFit'
<1> SUFFICES ASSUME ClipInv, TextsFit, B!Next \/ UNCHANGED bVars PROVE CopiesFit'
  BY DEF Next, Others, all
<1>1. ClipTypes /\ OwnersAreRight /\ CopiesFit /\ HeldFits
  BY DEF ClipInv, TextsFit
<1>2. b_MaxCopies \in Nat
  BY MCAppAssumption DEF B!ClipboardAssumption
<1>3. CASE UNCHANGED bVars
  BY <1>1, <1>3 DEF bVars, CopiesFit
<1>4. CASE B!CopyToClipboard
  <2>1. /\ b_copies < b_MaxCopies /\ b_copies' = b_copies + 1
        /\ b_copy' = [text |-> b_copies + 1, conn |-> 0, ways |-> B!Ways]
        /\ UNCHANGED <<b_conn, b_open, b_last>>
    BY <1>4 DEF B!CopyToClipboard
  <2>2. b_copy'.text = b_copies + 1
    BY <2>1
  <2> QED
    BY <1>1, <1>2, <2>1, <2>2 DEF CopiesFit
<1>5. CASE B!WayFails
  <2>1. /\ b_copy.ways # <<>>
        /\ b_copy' = [b_copy EXCEPT !.conn = 0, !.ways = Tail(@)]
        /\ UNCHANGED <<b_conn, b_open, b_last, b_copies>>
    BY <1>5 DEF B!WayFails, B!NextWay
  <2>2. b_copy'.text = b_copy.text
    BY <1>1, <2>1 DEF ClipTypes
  <2> QED
    BY <1>1, <2>1, <2>2 DEF CopiesFit
<1>6. CASE B!SetSelection
  <2>1. PICK c \in B!Conns :
          /\ b_copy.ways # <<>>
          /\ b_conn' = [b_conn EXCEPT ![c] = [by |-> Head(b_copy.ways), text |-> b_copy.text,
                                              state |-> "new"]]
          /\ b_copy' = [b_copy EXCEPT !.conn = c]
          /\ UNCHANGED <<b_open, b_copies, b_last>>
    BY <1>6 DEF B!SetSelection
  <2>2. b_copy'.text = b_copy.text
    BY <1>1, <2>1 DEF ClipTypes
  <2>3. /\ b_conn'[c].text = b_copy.text
        /\ \A d \in B!Conns \ {c} : b_conn'[d] = b_conn[d]
    BY <1>1, <2>1 DEF ClipTypes
  <2>4. \A d \in B!Conns : b_conn'[d].text \in 0 .. b_MaxCopies
    BY <1>1, <2>3 DEF CopiesFit
  <2> QED
    BY <1>1, <2>1, <2>2, <2>4 DEF CopiesFit
<1>7. CASE B!Unconfirmed
  <2>1. PICK c \in B!Conns : b_copy.conn = c
    BY <1>1, <1>7 DEF B!Unconfirmed, ClipTypes
  <2>2. /\ b_conn' = [b_conn EXCEPT ![c].state = "closed"]
        /\ b_copy' = [b_copy EXCEPT !.conn = 0, !.ways = Tail(@)] /\ b_last' = 0
        /\ UNCHANGED <<b_copies, b_open>>
    BY <1>7, <2>1 DEF B!Unconfirmed, B!Close, B!NextWay
  <2>3. b_copy'.text = b_copy.text
    BY <1>1, <2>2 DEF ClipTypes
  <2>4. \A d \in B!Conns : b_conn'[d].text = b_conn[d].text
    BY <1>1, <2>2, TextsKept DEF ClipTypes
  <2>5. b_copy.text # 0
    BY <1>1, <2>1 DEF OwnersAreRight, CopiesFit, B!Conns
  <2> QED
    BY <1>1, <1>2, <2>2, <2>3, <2>4, <2>5 DEF CopiesFit
<1>8. CASE B!Confirmed
  <2>1. PICK c \in B!Conns : b_copy.conn = c
    BY <1>1, <1>8 DEF B!Confirmed, ClipTypes
  <2>2. PICK p \in B!Protocols : b_conn[c].by = p
    BY <1>1, <2>1 DEF OwnersAreRight, B!Conns
  <2> DEFINE served == [b_conn EXCEPT ![c].state = "served"]
  <2>3. /\ \/ b_kept[p] # 0 /\ b_conn' = [served EXCEPT ![b_kept[p]].state = "closed"]
           \/ b_conn' = served
        /\ b_copy' = [text |-> 0, conn |-> 0, ways |-> <<>>]
        /\ b_last' = b_copy.text \/ b_last' = b_last
        /\ UNCHANGED <<b_copies, b_open>>
    BY <1>8, <2>1, <2>2 DEF B!Confirmed, B!Before, B!Close, B!NoCopy
  <2>4. served \in [B!Conns -> ConnRecords] /\ \A d \in B!Conns : served[d].text = b_conn[d].text
    BY <1>1, TextsKept DEF ClipTypes
  <2> HIDE DEF served
  <2>5. b_kept[p] # 0 => b_kept[p] \in B!Conns
    BY <1>1 DEF ClipTypes
  <2>6. \A d \in B!Conns : b_conn'[d].text = b_conn[d].text
    <3>1. CASE b_conn' = served
      BY <2>4, <3>1
    <3>2. CASE b_kept[p] # 0 /\ b_conn' = [served EXCEPT ![b_kept[p]].state = "closed"]
      <4>1. PICK k \in B!Conns : k = b_kept[p]
        BY <2>5, <3>2
      <4>2. b_conn' = [served EXCEPT ![k].state = "closed"]
        BY <3>2, <4>1
      <4>3. \A d \in B!Conns : b_conn'[d].text = served[d].text
        BY <2>4, <4>2, TextsKept
      <4> QED
        BY <2>4, <4>3
    <3> QED
      BY <2>3, <3>1, <3>2
  <2>7. b_copy'.text = 0 /\ b_copy'.ways = <<>>
    BY <2>3
  <2> QED
    BY <1>1, <1>2, <2>3, <2>6, <2>7 DEF CopiesFit
<1>9. CASE B!UseTool \/ B!NoWay
  <2>1. /\ b_copy' = [text |-> 0, conn |-> 0, ways |-> <<>>]
        /\ b_last' = b_copy.text \/ b_last' = b_last
        /\ UNCHANGED <<b_conn, b_copies, b_open>>
    BY <1>9 DEF B!UseTool, B!NoWay, B!NoCopy
  <2>2. b_copy'.text = 0 /\ b_copy'.ways = <<>>
    BY <2>1
  <2> QED
    BY <1>1, <1>2, <2>1, <2>2 DEF CopiesFit
<1>10. CASE B!OtherCopies
  <2>1. /\ b_copies < b_MaxCopies /\ b_copies' = b_copies + 1 /\ b_last' = 0
        /\ UNCHANGED <<b_conn, b_copy, b_open>>
    BY <1>10 DEF B!OtherCopies
  <2> QED
    BY <1>1, <1>2, <2>1 DEF CopiesFit
<1>11. CASE \/ B!Paste \/ B!Serve \/ B!StartRead \/ B!Request \/ B!Receive \/ B!ReadFails
  <2>1. UNCHANGED <<b_conn, b_copy, b_copies, b_open, b_last>>
    BY <1>11 DEF B!Paste, B!Serve, B!StartRead, B!Request, B!Receive, B!ReadFails
  <2> QED
    BY <1>1, <2>1 DEF CopiesFit
<1>12. CASE B!Exit
  <2>1. /\ b_conn' = [c \in B!Conns |-> IF b_conn[c] = B!Unused THEN B!Unused
                                        ELSE [b_conn[c] EXCEPT !.state = "closed"]]
        /\ b_open' = FALSE /\ b_copy' = [text |-> 0, conn |-> 0, ways |-> <<>>] /\ b_last' = 0
        /\ UNCHANGED b_copies
    BY <1>12 DEF B!Exit, B!NoCopy
  <2>2. b_open' \in BOOLEAN
    BY <2>1, Zenon
  <2>3. b_copy'.text = 0 /\ b_copy'.ways = <<>>
    BY <2>1
  <2>4. ASSUME NEW c \in B!Conns PROVE b_conn'[c].text \in 0 .. b_MaxCopies
    <3>1. B!Unused.text = 0
      BY DEF B!Unused
    <3>2. b_conn[c] \in ConnRecords /\ b_conn[c].text \in 0 .. b_MaxCopies
      BY <1>1 DEF ClipTypes, CopiesFit
    <3>3. [b_conn[c] EXCEPT !.state = "closed"].text = b_conn[c].text
      BY <3>2 DEF ConnRecords
    <3> QED
      BY <1>2, <2>1, <3>1, <3>2, <3>3
  <2> QED
    BY <1>1, <1>2, <2>1, <2>2, <2>3, <2>4 DEF CopiesFit
<1>13. ASSUME NEW c \in B!Conns, B!Lost(c) PROVE CopiesFit'
  <2> DEFINE blank == [b_conn EXCEPT ![c].text = 0]
  <2>1. /\ b_conn' = blank \/ b_conn' = [blank EXCEPT ![c].state = "closed"]
        /\ UNCHANGED <<b_copy, b_copies, b_open, b_last>>
    BY <1>13 DEF B!Lost, B!Close
  <2>2. \A r \in ConnRecords : [r EXCEPT !.text = 0] \in ConnRecords /\ [r EXCEPT !.text = 0].text = 0
    BY DEF ConnRecords
  <2>3. b_conn \in [B!Conns -> ConnRecords]
    BY <1>1 DEF ClipTypes
  <2>4. blank \in [B!Conns -> ConnRecords] /\ \A d \in B!Conns : blank[d].text \in 0 .. b_MaxCopies
    BY <1>1, <1>2, <2>2, <2>3 DEF CopiesFit
  <2> HIDE DEF blank
  <2>5. b_conn' = [blank EXCEPT ![c].state = "closed"] =>
          \A d \in B!Conns : b_conn'[d].text = blank[d].text
    BY <2>4, TextsKept
  <2>6. \A d \in B!Conns : b_conn'[d].text \in 0 .. b_MaxCopies
    BY <2>1, <2>4, <2>5
  <2> QED
    BY <1>1, <2>1, <2>6 DEF CopiesFit
<1> QED
  BY <1>3, <1>4, <1>5, <1>6, <1>7, <1>8, <1>9, <1>10, <1>11, <1>12, <1>13 DEF B!Next

LEMMA HeldStep == ClipInv /\ TextsFit /\ [Next]_all => HeldFits'
<1> SUFFICES ASSUME ClipInv, TextsFit, B!Next \/ UNCHANGED bVars PROVE HeldFits'
  BY DEF Next, Others, all
<1>1. ClipTypes /\ OwnersAreRight /\ CopiesFit /\ HeldFits
  BY DEF ClipInv, TextsFit
<1>2. /\ b_MaxCopies \in Nat /\ B!Nobody \notin B!Conns /\ B!Nobody = 0
      /\ B!Tool \notin B!Conns /\ B!Other \notin B!Conns
  BY MCAppAssumption DEF B!ClipboardAssumption, B!Conns, B!Nobody, B!Tool, B!Other
<1>3. CASE UNCHANGED bVars
  BY <1>1, <1>3 DEF bVars, HeldFits
<1>4. CASE B!CopyToClipboard \/ B!WayFails \/ B!NoWay
  <2>1. UNCHANGED <<b_owner, b_held, b_asks, b_read>>
    BY <1>4 DEF B!CopyToClipboard, B!WayFails, B!NoWay
  <2> QED
    BY <1>1, <2>1 DEF HeldFits
<1>5. CASE B!SetSelection \/ B!UseTool \/ B!OtherCopies
  <2>1. /\ UNCHANGED <<b_asks, b_read>>
        /\ \/ b_held' = b_copy.text /\ b_copy.ways # <<>>
           \/ b_held' = b_copies + 1 /\ b_copies < b_MaxCopies
    BY <1>5 DEF B!SetSelection, B!UseTool, B!OtherCopies, B!Take
  <2>2. b_held' \in 0 .. b_MaxCopies /\ b_held' # 0
    BY <1>1, <1>2, <2>1 DEF CopiesFit
  <2> QED
    BY <1>1, <2>1, <2>2 DEF HeldFits
<1>6. ASSUME NEW c, NEW change, B!Close(c, change)
      PROVE  (UNCHANGED <<b_owner, b_held>>) \/ (b_owner' = B!Nobody /\ b_held' = 0)
  BY <1>6 DEF B!Close
<1>7. CASE B!Unconfirmed \/ B!Confirmed \/ \E c \in B!Conns : B!Lost(c)
  <2>1. /\ UNCHANGED <<b_asks, b_read>>
        /\ (UNCHANGED <<b_owner, b_held>>) \/ (b_owner' = B!Nobody /\ b_held' = 0)
    BY <1>6, <1>7 DEF B!Unconfirmed, B!Confirmed, B!Lost
  <2> QED
    BY <1>1, <1>2, <2>1 DEF HeldFits
<1>8. CASE B!Paste
  <2>1. /\ b_owner \in B!Conns
        /\ b_asks' = b_asks \cup {[of |-> b_owner, text |-> b_held, got |-> 0]}
        /\ UNCHANGED <<b_owner, b_held, b_read>>
    BY <1>8 DEF B!Paste
  <2>2. ASSUME NEW a \in b_asks' PROVE a.text \in 1 .. b_MaxCopies
    <3>1. a \in b_asks \/ a.text = b_held
      BY <2>1
    <3> QED
      BY <1>1, <1>2, <2>1, <3>1 DEF HeldFits
  <2> QED
    BY <1>1, <2>1, <2>2 DEF HeldFits
<1>9. CASE B!Serve
  <2>1. PICK e \in b_asks :
          /\ b_asks' = (b_asks \ {e}) \cup {[e EXCEPT !.got = b_conn[e.of].text]}
          /\ UNCHANGED <<b_owner, b_held, b_read>>
    BY <1>9 DEF B!Serve
  <2>2. [e EXCEPT !.got = b_conn[e.of].text].text = e.text
    BY <1>1 DEF ClipTypes
  <2>3. \A a \in b_asks' : a.text \in 1 .. b_MaxCopies
    BY <1>1, <2>1, <2>2 DEF HeldFits
  <2> QED
    BY <1>1, <2>1, <2>3 DEF HeldFits
<1>10. CASE B!StartRead \/ B!Request \/ B!Receive \/ B!ReadFails
  <2>1. UNCHANGED <<b_owner, b_held, b_asks>>
    BY <1>10 DEF B!StartRead, B!Request, B!Receive, B!ReadFails
  <2>2. \A w : [B!NoRead EXCEPT !.ways = w].from = 0 /\ [B!NoRead EXCEPT !.ways = w].text = 0
    BY <1>2 DEF B!NoRead
  <2>3. \/ b_read'.from = 0 /\ b_read'.text = 0
        \/ b_read'.from = b_owner /\ b_read'.text = b_held
        \/ b_read'.from = b_read.from /\ b_read'.text = b_read.text
        \/ b_read'.from = 0 /\ b_read'.text = b_read.text
    <3>1. CASE B!StartRead \/ B!ReadFails
      BY <2>2, <3>1 DEF B!StartRead, B!ReadFails
    <3>2. CASE B!Request
      BY <1>1, <3>2 DEF B!Request, ClipTypes
    <3>3. CASE B!Receive
      BY <1>1, <1>2, <3>3 DEF B!Receive, ClipTypes
    <3> QED
      BY <1>10, <3>1, <3>2, <3>3
  <2>4. b_owner \in B!Conns \cup {B!Tool, B!Other, B!Nobody}
    BY <1>1 DEF ClipTypes
  <2>5. /\ b_read'.from \in B!Conns \cup {B!Tool, B!Other, B!Nobody}
        /\ b_read'.text \in 0 .. b_MaxCopies
    BY <1>1, <1>2, <2>3, <2>4 DEF HeldFits
  <2> QED
    BY <1>1, <2>1, <2>5 DEF HeldFits
<1>11. CASE B!Exit
  <2>1. /\ b_read' = [ways |-> <<>>, from |-> B!Nobody, text |-> 0, got |-> 0] /\ UNCHANGED b_asks
        /\ (UNCHANGED <<b_owner, b_held>>) \/ (b_owner' = B!Nobody /\ b_held' = 0)
    BY <1>11 DEF B!Exit, B!NoRead
  <2>2. b_read'.from = B!Nobody /\ b_read'.text = 0
    BY <2>1
  <2> QED
    BY <1>1, <1>2, <2>1, <2>2 DEF HeldFits
<1> QED
  BY <1>3, <1>4, <1>5, <1>7, <1>8, <1>9, <1>10, <1>11 DEF B!Next

\* Beside what ScreenInv says: the rooms and the questions are counted.
RoomsAreCounted ==
    /\ a_rooms \in 0 .. a_MaxRooms /\ a_room \in 0 .. a_MaxRooms /\ a_view \in 0 .. a_MaxRooms
    /\ a_node = "joining" => a_room # 0
    /\ a_answers \subseteq A!Answers

GuestsAreCounted ==
    /\ a_guests \in [A!Guests -> 0 .. a_MaxGuests] /\ a_armed \in BOOLEAN
    /\ a_offers \in 0 .. a_guests["offer"] /\ a_knocks \in 0 .. a_guests["knock"]

LEMMA ScreenTyped == ScreenInv /\ RoomsAreCounted /\ GuestsAreCounted => A!TypeOK
<1> SUFFICES ASSUME ScreenInv, RoomsAreCounted, GuestsAreCounted PROVE A!TypeOK
  OBVIOUS
<1>1. "offer" \in A!Guests /\ "knock" \in A!Guests
  BY DEF A!Guests
<1>2. a_guests["offer"] \in 0 .. a_MaxGuests /\ a_guests["knock"] \in 0 .. a_MaxGuests
  BY <1>1 DEF GuestsAreCounted
<1>3. a_MaxGuests \in Nat
  BY MCAppAssumption DEF A!AppScreenAssumption
<1>4. a_offers \in 0 .. a_MaxGuests /\ a_knocks \in 0 .. a_MaxGuests
  BY <1>2, <1>3 DEF GuestsAreCounted
<1> QED
  BY <1>4 DEF ScreenInv, ScreenTypes, RoomsAreCounted, GuestsAreCounted, A!TypeOK

LEMMA ScreenCountsInit == Init => RoomsAreCounted /\ GuestsAreCounted
<1> SUFFICES ASSUME A!Init PROVE RoomsAreCounted /\ GuestsAreCounted
  BY DEF Init
<1>1. a_MaxGuests \in Nat /\ a_MaxRooms \in Nat
  BY MCAppAssumption DEF A!AppScreenAssumption
<1>2. RoomsAreCounted
  BY <1>1 DEF A!Init, RoomsAreCounted
<1>3. a_armed = FALSE /\ a_offers = 0 /\ a_knocks = 0 /\ a_guests = [g \in A!Guests |-> 0]
  BY DEF A!Init
<1>4. a_armed \in BOOLEAN
  BY <1>3, Zenon
<1>5. a_guests["offer"] = 0 /\ a_guests["knock"] = 0
  BY <1>3 DEF A!Guests
<1> QED
  BY <1>1, <1>2, <1>3, <1>4, <1>5 DEF GuestsAreCounted

LEMMA RoomsStep == RoomsAreCounted /\ [Next]_all => RoomsAreCounted'
<1> SUFFICES ASSUME RoomsAreCounted, A!Next \/ UNCHANGED aVars PROVE RoomsAreCounted'
  BY DEF Next, Others, all
<1>1. a_MaxRooms \in Nat
  BY MCAppAssumption DEF A!AppScreenAssumption
<1>2. CASE UNCHANGED aVars
  BY <1>2 DEF aVars, RoomsAreCounted
<1>3. ASSUME A!NodeStays, UNCHANGED a_view PROVE RoomsAreCounted'
  BY <1>3 DEF A!NodeStays, A!nodeVars, RoomsAreCounted
<1>4. ASSUME a_view' \in {0, a_view}, a_node' \in {a_node, "out"}, a_answers' \subseteq a_answers,
             UNCHANGED <<a_room, a_rooms>>
      PROVE  RoomsAreCounted'
  BY <1>1, <1>4 DEF RoomsAreCounted
<1>5. A!CleanExit => RoomsAreCounted'
  BY <1>4 DEF A!CleanExit
<1>6. CASE \/ A!CtrlC \/ A!Interrupt \/ A!ToggleDebug \/ A!CloseRelay \/ A!CloseDebug \/ A!CloseTest
           \/ A!CloseShare \/ A!AnswerExit
  BY <1>3, <1>5, <1>6 DEF A!CtrlC, A!Interrupt, A!ToggleDebug, A!CloseRelay, A!CloseDebug,
     A!CloseTest, A!CloseShare, A!AnswerExit, A!Close
<1>7. CASE \/ A!AnswerOffer \/ A!CloseMedia \/ A!AnswerKnock \/ A!DeclineInvite \/ A!LobbyOpens
           \/ A!RoomOpens \/ A!OfferArrives \/ A!OpenMedia \/ A!KnockArrives \/ A!KnockExpires
           \/ A!InviteArrives \/ A!InviteArms
  BY <1>3, <1>7 DEF A!AnswerOffer, A!CloseMedia, A!AnswerKnock, A!DeclineInvite, A!LobbyOpens,
     A!RoomOpens, A!OfferArrives, A!OpenMedia, A!KnockArrives, A!KnockExpires, A!InviteArrives,
     A!InviteArms
<1>8. CASE A!AnswerLeave
  <2>1. CASE A!Close("leave")
    BY <1>3, <2>1 DEF A!Close
  <2>2. CASE A!LeaveForLobby
    BY <1>4, <2>2 DEF A!LeaveForLobby, A!LeaveRoom, A!ResetToLobby
  <2> QED
    BY <1>8, <2>1, <2>2 DEF A!AnswerLeave
<1>9. CASE A!AcceptInvite \/ A!LobbyHosts \/ A!LobbyJoins
  <2>1. /\ a_rooms < a_MaxRooms /\ a_rooms' = a_rooms + 1 /\ a_room' = a_rooms + 1
        /\ a_view' \in {0, a_view, a_rooms + 1} /\ UNCHANGED a_answers
    BY <1>9 DEF A!AcceptInvite, A!LobbyHosts, A!LobbyJoins, A!JoinRoom, A!RequestJoinRoom,
       A!StartHost, A!HostRoom, A!ResetToLobby
  <2>2. a_room' \in 1 .. a_MaxRooms
    BY <1>1, <2>1 DEF RoomsAreCounted
  <2> QED
    BY <1>1, <2>1, <2>2 DEF RoomsAreCounted
<1>10. CASE A!LobbyCancels \/ A!Kicked \/ A!KickLeaves \/ A!OnKicked \/ A!OnFailed
  <2>1. /\ a_node' \in {a_node, "out"} /\ a_answers' \subseteq a_answers
        /\ UNCHANGED <<a_room, a_rooms, a_view>>
    BY <1>10 DEF A!LobbyCancels, A!CancelJoin, A!Kicked, A!KickLeaves, A!OnKicked, A!OnFailed, A!appVars
  <2> QED
    BY <1>4, <2>1
<1>11. CASE A!ApplyKicked
  <2>1. a_view' \in {0, a_view} /\ UNCHANGED <<a_node, a_room, a_rooms, a_answers>>
    BY <1>11 DEF A!ApplyKicked, A!ResetToLobby, A!nodeVars
  <2> QED
    BY <1>4, <2>1
<1>12. CASE A!Welcomed \/ A!JoinFails
  <2>1. PICK k \in {"success", "failure"} :
          /\ a_node = "joining" /\ a_node' # "joining"
          /\ a_answers' = a_answers \union {[kind |-> k, room |-> a_room]}
          /\ UNCHANGED <<a_room, a_rooms, a_view>>
    BY <1>12 DEF A!Welcomed, A!JoinFails, A!appVars
  <2>2. a_room \in A!Rooms
    BY <1>1, <2>1 DEF RoomsAreCounted, A!Rooms
  <2>3. [kind |-> k, room |-> a_room] \in A!Answers
    BY <2>2 DEF A!Answers
  <2> QED
    BY <2>1, <2>3 DEF RoomsAreCounted
<1>13. CASE A!OnSuccess
  <2>1. PICK a \in a_answers :
          /\ a_view' = a.room /\ a_answers' = a_answers \ {a} /\ UNCHANGED <<a_node, a_room, a_rooms>>
    BY <1>13 DEF A!OnSuccess
  <2>2. a.room \in 0 .. a_MaxRooms
    BY <1>1, <2>1 DEF RoomsAreCounted, A!Answers, A!Rooms
  <2> QED
    BY <2>1, <2>2 DEF RoomsAreCounted
<1> QED
  BY <1>2, <1>6, <1>7, <1>8, <1>9, <1>10, <1>11, <1>12, <1>13 DEF A!Next

LEMMA GuestsStep == GuestsAreCounted /\ [Next]_all => GuestsAreCounted'
<1> SUFFICES ASSUME GuestsAreCounted, A!Next \/ UNCHANGED aVars PROVE GuestsAreCounted'
  BY DEF Next, Others, all
<1>1. a_MaxGuests \in Nat /\ "offer" \in A!Guests /\ "knock" \in A!Guests
  BY MCAppAssumption DEF A!AppScreenAssumption, A!Guests
<1>2. a_guests["offer"] \in Nat /\ a_guests["knock"] \in Nat
  BY <1>1 DEF GuestsAreCounted
<1>3. ASSUME UNCHANGED <<a_guests, a_armed>>, a_offers' \in {0, a_offers, a_offers - 1}, a_offers' >= 0,
             a_knocks' \in {a_knocks, a_knocks - 1}, a_knocks' >= 0
      PROVE  GuestsAreCounted'
  BY <1>2, <1>3 DEF GuestsAreCounted
<1>4. ASSUME UNCHANGED <<a_guests, a_armed, a_knocks>>, a_offers' \in {0, a_offers} PROVE GuestsAreCounted'
  BY <1>2, <1>4 DEF GuestsAreCounted
<1>5. CASE UNCHANGED aVars
  BY <1>5 DEF aVars, GuestsAreCounted
<1>6. A!CleanExit => GuestsAreCounted'
  BY <1>4 DEF A!CleanExit
<1>7. CASE \/ A!CtrlC \/ A!Interrupt \/ A!ToggleDebug \/ A!CloseRelay \/ A!CloseDebug \/ A!CloseTest
           \/ A!CloseShare \/ A!AnswerExit
  BY <1>4, <1>6, <1>7 DEF A!CtrlC, A!Interrupt, A!ToggleDebug, A!CloseRelay, A!CloseDebug,
     A!CloseTest, A!CloseShare, A!AnswerExit, A!Close
<1>8. CASE \/ A!CloseMedia \/ A!DeclineInvite \/ A!LobbyOpens \/ A!RoomOpens \/ A!LobbyHosts
           \/ A!LobbyJoins \/ A!LobbyCancels
  BY <1>4, <1>8 DEF A!CloseMedia, A!DeclineInvite, A!LobbyOpens, A!RoomOpens, A!LobbyHosts,
     A!StartHost, A!LobbyJoins, A!LobbyCancels
<1>9. CASE \/ A!Welcomed \/ A!JoinFails \/ A!OnSuccess \/ A!OnFailed \/ A!Kicked \/ A!KickLeaves
           \/ A!OnKicked
  BY <1>4, <1>9 DEF A!Welcomed, A!JoinFails, A!OnSuccess, A!OnFailed, A!Kicked, A!KickLeaves,
     A!OnKicked, A!appVars
<1>10. CASE A!AnswerLeave \/ A!AcceptInvite \/ A!ApplyKicked
  <2>1. UNCHANGED <<a_guests, a_armed, a_knocks>> /\ a_offers' \in {0, a_offers}
    BY <1>10 DEF A!AnswerLeave, A!AcceptInvite, A!ApplyKicked, A!Close, A!LeaveForLobby, A!ResetToLobby
  <2> QED
    BY <1>4, <2>1
<1>11. CASE A!AnswerOffer
  <2>1. a_offers > 0 /\ a_offers' = a_offers - 1 /\ UNCHANGED <<a_guests, a_armed, a_knocks>>
    BY <1>11 DEF A!AnswerOffer
  <2> QED
    BY <1>2, <2>1 DEF GuestsAreCounted
<1>12. CASE A!AnswerKnock \/ A!KnockExpires
  <2>1. a_knocks > 0 /\ a_knocks' = a_knocks - 1 /\ UNCHANGED <<a_guests, a_armed, a_offers>>
    BY <1>12 DEF A!AnswerKnock, A!KnockExpires
  <2> QED
    BY <1>2, <2>1 DEF GuestsAreCounted
<1>13. ASSUME NEW g \in A!Guests, A!Comes(g)
       PROVE  /\ a_guests' \in [A!Guests -> 0 .. a_MaxGuests] /\ a_guests'[g] = a_guests[g] + 1
              /\ \A h \in A!Guests \ {g} : a_guests'[h] = a_guests[h]
  BY <1>1, <1>13 DEF A!Comes, GuestsAreCounted
<1>14. CASE A!OfferArrives
  <2>1. A!Comes("offer") /\ a_offers' = a_offers + 1 /\ UNCHANGED <<a_armed, a_knocks>>
    BY <1>14 DEF A!OfferArrives
  <2>2. a_guests'["offer"] = a_guests["offer"] + 1 /\ a_guests'["knock"] = a_guests["knock"]
    BY <1>1, <1>13, <2>1
  <2>3. a_offers' \in 0 .. a_guests'["offer"]
    BY <1>2, <2>1, <2>2 DEF GuestsAreCounted
  <2> QED
    BY <1>1, <1>13, <2>1, <2>2, <2>3 DEF GuestsAreCounted
<1>15. CASE A!KnockArrives
  <2>1. A!Comes("knock") /\ a_knocks' = a_knocks + 1 /\ UNCHANGED <<a_armed, a_offers>>
    BY <1>15 DEF A!KnockArrives
  <2>2. a_guests'["knock"] = a_guests["knock"] + 1 /\ a_guests'["offer"] = a_guests["offer"]
    BY <1>1, <1>13, <2>1
  <2>3. a_knocks' \in 0 .. a_guests'["knock"]
    BY <1>2, <2>1, <2>2 DEF GuestsAreCounted
  <2> QED
    BY <1>1, <1>13, <2>1, <2>2, <2>3 DEF GuestsAreCounted
<1>16. CASE A!OpenMedia \/ A!InviteArrives
  <2>1. PICK g \in {"media", "invite"} :
          A!Comes(g) /\ a_armed' \in {a_armed, FALSE} /\ UNCHANGED <<a_offers, a_knocks>>
    BY <1>16 DEF A!OpenMedia, A!InviteArrives
  <2>2. g \in A!Guests /\ g # "offer" /\ g # "knock"
    BY DEF A!Guests
  <2>3. a_guests'["knock"] = a_guests["knock"] /\ a_guests'["offer"] = a_guests["offer"]
    BY <1>1, <1>13, <2>1, <2>2
  <2>4. a_armed' \in BOOLEAN
    BY <2>1, Zenon DEF GuestsAreCounted
  <2> QED
    BY <1>13, <2>1, <2>2, <2>3, <2>4 DEF GuestsAreCounted
<1>17. CASE A!InviteArms
  <2>1. a_armed' = TRUE /\ UNCHANGED <<a_guests, a_offers, a_knocks>>
    BY <1>17 DEF A!InviteArms
  <2>2. a_armed' \in BOOLEAN
    BY <2>1, Zenon
  <2> QED
    BY <2>1, <2>2 DEF GuestsAreCounted
<1> QED
  BY <1>5, <1>7, <1>8, <1>9, <1>10, <1>11, <1>12, <1>14, <1>15, <1>16, <1>17 DEF A!Next
=============================================================================
