------------------------------ MODULE ChatInput ------------------------------
(* The line a user types chat into (ui_room.go, handleRoomKey and paste in    *)
(* app_keys.go): its focus, the lines sent before, which the arrow keys bring *)
(* back, the draft that browsing them keeps, and the count of messages that   *)
(* came while the line was not in focus.                                      *)
EXTENDS Naturals, Sequences

CONSTANTS
  Texts,                \* what a line may hold
  MaxHistory, Kept,     \* lines at which the history is cut, and what is left (100, 50)
  MaxActs, MaxUnread    \* bounds

ChatInputAssumption == MaxHistory \in Nat /\ Kept \in 0 .. MaxHistory /\ MaxActs \in Nat

VARIABLES
  value,                \* ChatInputState.Value()
  IsChatFocused,
  chatHistory, historyIndex,    \* the index is 0-based; the length stands for the draft
  savedCurrentChat,
  UnreadChatCount,
  draft,                \* history: what the user wrote last that was not sent
  arrived,              \* history: messages of others while out of focus
  refocused,            \* history: the line was focused again while browsing
  acts

vars == <<value, IsChatFocused, chatHistory, historyIndex, savedCurrentChat, UnreadChatCount, draft,
          arrived, refocused, acts>>

None == ""   \* an empty line
Act == acts < MaxActs /\ acts' = acts + 1
AtDraft == historyIndex = Len(chatHistory)

\* NewRoomView
Init ==
  /\ value = None /\ IsChatFocused = FALSE
  /\ chatHistory = <<>> /\ historyIndex = 0 /\ savedCurrentChat = None
  /\ UnreadChatCount = 0 /\ draft = None /\ arrived = 0 /\ refocused = FALSE /\ acts = 0

\* SetChatFocused(true): Enter, Tab, "/", a click anywhere in the chat, or a paste
Focus ==
  /\ Act
  /\ IsChatFocused' = TRUE /\ UnreadChatCount' = 0 /\ arrived' = 0
  /\ historyIndex' = Len(chatHistory) /\ savedCurrentChat' = None
  /\ refocused' = (refocused \/ ~AtDraft)
  /\ \E pasted \in {value} \union Texts :
       value' = pasted /\ draft' = IF pasted = value THEN draft ELSE pasted
  /\ UNCHANGED chatHistory

\* SetChatFocused(false): Esc, Tab, Enter on an empty line; handleMouse, a click elsewhere
Unfocus ==
  /\ Act /\ IsChatFocused
  /\ IsChatFocused' = FALSE
  /\ UNCHANGED <<value, chatHistory, historyIndex, savedCurrentChat, UnreadChatCount, draft, arrived, refocused>>

\* Keys of the text field.  A line of the history that is changed is not kept.
Type ==
  /\ Act /\ IsChatFocused
  /\ value' \in (Texts \union {None}) \ {value}
  /\ draft' = IF AtDraft THEN value' ELSE draft
  /\ refocused' = (refocused /\ ~AtDraft)
  /\ UNCHANGED <<IsChatFocused, chatHistory, historyIndex, savedCurrentChat, UnreadChatCount, arrived>>

\* Faulty: the draft is kept each time, not only when the user leaves it
HistoryUp_KeepsEach ==
  /\ Act /\ IsChatFocused /\ historyIndex > 0
  /\ savedCurrentChat' = value
  /\ historyIndex' = historyIndex - 1 /\ value' = chatHistory[historyIndex]
  /\ UNCHANGED <<IsChatFocused, chatHistory, UnreadChatCount, draft, arrived, refocused>>

HistoryUp ==
  /\ Act /\ IsChatFocused /\ historyIndex > 0
  /\ savedCurrentChat' = IF AtDraft THEN value ELSE savedCurrentChat
  /\ historyIndex' = historyIndex - 1 /\ value' = chatHistory[historyIndex]
  /\ UNCHANGED <<IsChatFocused, chatHistory, UnreadChatCount, draft, arrived, refocused>>

HistoryDown ==
  /\ Act /\ IsChatFocused /\ ~AtDraft
  /\ historyIndex' = historyIndex + 1
  /\ value' = IF historyIndex' < Len(chatHistory) THEN chatHistory[historyIndex' + 1] ELSE savedCurrentChat
  /\ UNCHANGED <<IsChatFocused, chatHistory, savedCurrentChat, UnreadChatCount, draft, arrived, refocused>>

\* SendCurrentChat: every line goes into the history, commands as well.
SendCurrentChat ==
  /\ Act /\ IsChatFocused /\ value # None
  /\ LET all == Append(chatHistory, value)
     IN  chatHistory' = IF Len(all) > MaxHistory THEN SubSeq(all, Len(all) - Kept + 1, Len(all)) ELSE all
  /\ historyIndex' = Len(chatHistory')
  /\ value' = None /\ savedCurrentChat' = None /\ draft' = None /\ refocused' = FALSE
  /\ UNCHANGED <<IsChatFocused, UnreadChatCount, arrived>>

\* addChatMessage of another member, AddChatHistory
Arrives ==
  /\ arrived < MaxUnread
  /\ IF IsChatFocused THEN UNCHANGED <<arrived, UnreadChatCount>>
     ELSE arrived' = arrived + 1 /\ UnreadChatCount' = UnreadChatCount + 1
  /\ UNCHANGED <<value, IsChatFocused, chatHistory, historyIndex, savedCurrentChat, draft, refocused, acts>>

Next ==
  \/ Focus \/ Unfocus \/ Type \/ HistoryUp \/ HistoryDown \/ SendCurrentChat \/ Arrives

Spec == Init /\ [][Next]_vars

-----------------------------------------------------------------------------
(* Properties *)

\* The parts are in states the code knows.
TypeOK ==
  /\ value \in Texts \union {None} /\ IsChatFocused \in BOOLEAN
  /\ chatHistory \in Seq(Texts) /\ historyIndex \in 0 .. Len(chatHistory)
  /\ savedCurrentChat \in Texts \union {None}
  /\ UnreadChatCount = arrived /\ acts \in 0 .. MaxActs

\* A draft comes back: who browses the lines sent before and returns finds what was typed and
\* not sent (HistoryUp, HistoryDown), however often the line was focused, sent or cut in
\* between.  Only focusing the line while browsing, as any click in the chat does, takes the
\* line shown for the draft.
DraftComesBack == AtDraft /\ ~refocused => value = draft

====
