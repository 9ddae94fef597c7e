------------------------------ MODULE ChatPanel ------------------------------
(* The chat of a room on the screen (ui_room.go, ui_room_footer.go): messages *)
(* come in on goroutines of the network, a picture grows its message when it  *)
(* is decoded, history is put in by time, long chats are cut, and the event   *)
(* loop scrolls, resizes and draws.  A message is wrapped into screen lines;  *)
(* the scroll position counts lines above the newest.                         *)
EXTENDS Naturals, Sequences, SequencesExt

CONSTANTS
  MaxShown, Kept,        \* messages at which the chat is cut, and what is left (300, 200)
  Times,                 \* clock readings of senders
  MinRows, MaxRows,      \* heights of the panel the window allows
  MaxMessages, MaxActs   \* bounds: messages, and what the user does

\* A cut leaves no more than there was, the panel has a row at least, and there is a time.
ChatPanelAssumption ==
  /\ MaxShown \in Nat /\ Kept \in 0 .. MaxShown
  /\ MinRows \in Nat \ {0} /\ MaxRows \in Nat
  /\ Times # {} /\ MaxMessages \in Nat /\ MaxActs \in Nat

VARIABLES
  Messages,              \* records: id, when it was sent, whether it has a picture, its rows
  ChatScrollOffset,
  chatMaxScroll,         \* as of the last draw; 0 before it counts like no limit (drawn = FALSE)
  chatLineCount, chatPageRows,
  ChatHeight,            \* rows of the panel
  toast,                 \* a toast takes one row
  IsCompactMode,         \* the mini HUD, which draws no chat
  lastLines, view,       \* history: all lines, and those on screen, at the last draw
  drawn,                 \* the chat was drawn
  touched,               \* history: the user scrolled or resized since
  said, acts

vars == <<Messages, ChatScrollOffset, chatMaxScroll, chatLineCount, chatPageRows, ChatHeight, toast,
          IsCompactMode, lastLines, view, drawn, touched, said, acts>>

Rows == {1, 2}
Min2(a, b) == IF a < b THEN a ELSE b
Max2(a, b) == IF a > b THEN a ELSE b
Least(a, b) == IF a > b THEN a - b ELSE 0

\* NewRoomView
Init ==
  /\ Messages = <<>> /\ ChatScrollOffset = 0
  /\ chatMaxScroll = 0 /\ chatLineCount = 0 /\ chatPageRows = 0
  /\ ChatHeight \in MinRows .. MaxRows /\ toast = FALSE /\ IsCompactMode = FALSE
  /\ lastLines = <<>> /\ view = <<>> /\ drawn = FALSE /\ touched = FALSE
  /\ said = 0 /\ acts = 0

-----------------------------------------------------------------------------
(* Messages *)

\* buildDisplayLines, messageDisplayLines: a picture that is decoded takes a row more.
LinesOf(m) == [i \in 1 .. m.rows |-> <<m.id, i>>]
AddLines(lines, m) == lines \o LinesOf(m)
Lines == FoldLeft(AddLines, <<>>, Messages)

Cut(ms) == IF Len(ms) > MaxShown THEN SubSeq(ms, Len(ms) - Kept + 1, Len(ms)) ELSE ms

New(rows) == said < MaxMessages /\ said' = said + 1 /\ rows \in Rows

\* AddLog, and addChatMessage of another member: the sender's clock says when.
AddMessage ==
  \E rows \in Rows, at \in Times, picture \in BOOLEAN :
    /\ New(rows)
    /\ Messages' = Cut(Append(Messages, [id |-> said + 1, at |-> at, rows |-> rows, picture |-> picture]))
    /\ UNCHANGED <<ChatScrollOffset, chatMaxScroll, chatLineCount, chatPageRows, ChatHeight, toast,
                   IsCompactMode, lastLines, view, drawn, touched, acts>>

\* SendCurrentChat with OnSendChat, and addChatMessage of one's own: the newest lines show.
SendCurrentChat ==
  \E at \in Times :
    /\ New(1)
    /\ Messages' = Cut(Append(Messages, [id |-> said + 1, at |-> at, rows |-> 1, picture |-> FALSE]))
    /\ ChatScrollOffset' = 0 /\ touched' = TRUE
    /\ UNCHANGED <<chatMaxScroll, chatLineCount, chatPageRows, ChatHeight, toast, IsCompactMode,
                   lastLines, view, drawn, acts>>

\* SendCurrentChat with a command: /clear, a line of help, a toast, or the mini HUD
Command ==
  /\ acts < MaxActs /\ acts' = acts + 1
  /\ ChatScrollOffset' = 0 /\ touched' = TRUE
  /\ \/ /\ Messages' = <<>> /\ toast' = TRUE /\ UNCHANGED <<IsCompactMode, said>>
     \/ /\ New(2)
        /\ Messages' = Append(Messages, [id |-> said + 1, at |-> CHOOSE t \in Times : TRUE, rows |-> 2, picture |-> FALSE])
        /\ UNCHANGED <<toast, IsCompactMode>>
     \/ /\ IsCompactMode' = ~IsCompactMode /\ toast' = TRUE /\ UNCHANGED <<Messages, said>>
  /\ UNCHANGED <<chatMaxScroll, chatLineCount, chatPageRows, ChatHeight, lastLines, view, drawn>>

\* SetMediaPreview
SetMediaPreview ==
  \E i \in DOMAIN Messages :
    /\ Messages[i].picture
    /\ Messages' = [Messages EXCEPT ![i].rows = 2, ![i].picture = FALSE]
    /\ UNCHANGED <<ChatScrollOffset, chatMaxScroll, chatLineCount, chatPageRows, ChatHeight, toast,
                   IsCompactMode, lastLines, view, drawn, touched, said, acts>>

\* sort.Search: the binary search for the first message sent after a time.  Messages stand in
\* the order they came in, which the clocks of several senders need not follow.
FirstAfter(ms, at) ==
  LET search[piece \in (0 .. Len(ms)) \X (0 .. Len(ms))] ==
        LET lo == piece[1]  hi == piece[2]  h == (lo + hi) \div 2
        IN  IF lo >= hi THEN lo
            ELSE IF ms[h + 1].at > at THEN search[<<lo, h>>] ELSE search[<<h + 1, hi>>]
  IN  search[<<0, Len(ms)>>]

\* AddChatHistory
AddChatHistory ==
  \E at \in Times, rows \in Rows :
    /\ New(rows)
    /\ Messages' = Cut(InsertAt(Messages, FirstAfter(Messages, at) + 1,
                                [id |-> said + 1, at |-> at, rows |-> rows, picture |-> FALSE]))
    /\ UNCHANGED <<ChatScrollOffset, chatMaxScroll, chatLineCount, chatPageRows, ChatHeight, toast,
                   IsCompactMode, lastLines, view, drawn, touched, acts>>

-----------------------------------------------------------------------------
(* The user *)

Acts == acts < MaxActs /\ acts' = acts + 1 /\ touched' = TRUE

\* ScrollChat, ScrollChatPage: a page is a row less than the panel shows.
ScrollChat ==
  /\ Acts
  /\ LET page == Max2(1, Least(chatPageRows, 1))
         limit(n) == IF drawn THEN Min2(n, chatMaxScroll) ELSE n
     IN  \E step \in {1, page} :
           ChatScrollOffset' \in {limit(ChatScrollOffset + step), limit(Least(ChatScrollOffset, step))}
  /\ UNCHANGED <<Messages, chatMaxScroll, chatLineCount, chatPageRows, ChatHeight, toast, IsCompactMode,
                 lastLines, view, drawn, said>>

\* ResizeChat, DragChatResize with clampChatHeight, and a window of another height
ResizeChat ==
  /\ Acts
  /\ ChatHeight' \in (MinRows .. MaxRows) \ {ChatHeight}
  /\ UNCHANGED <<Messages, ChatScrollOffset, chatMaxScroll, chatLineCount, chatPageRows, toast,
                 IsCompactMode, lastLines, view, drawn, said>>

\* SetToast, and Update when its time is over
Toast ==
  /\ acts < MaxActs /\ acts' = acts + 1
  /\ toast' = ~toast
  /\ UNCHANGED <<Messages, ChatScrollOffset, chatMaxScroll, chatLineCount, chatPageRows, ChatHeight,
                 IsCompactMode, lastLines, view, drawn, touched, said>>

-----------------------------------------------------------------------------
(* A frame *)

\* renderCompactHUD
DrawCompact ==
  /\ IsCompactMode
  /\ view' = <<>> /\ lastLines' = <<>> /\ touched' = TRUE
  /\ UNCHANGED <<Messages, ChatScrollOffset, chatMaxScroll, chatLineCount, chatPageRows, ChatHeight, toast,
                 IsCompactMode, drawn, said, acts>>

\* Rows that are left for messages
AvailRows == IF toast /\ ChatHeight > 1 THEN ChatHeight - 1 ELSE ChatHeight

Shown(offset) ==
  LET n == Len(Lines)
      start == Least(n, AvailRows + offset)
  IN  SubSeq(Lines, start + 1, Min2(start + AvailRows, n))

\* Faulty: the position is kept as a number of lines above the newest
Draw_Unmoved ==
  /\ ~IsCompactMode
  /\ LET n == Len(Lines)
         maxScroll == Least(n, AvailRows)
     IN  /\ ChatScrollOffset' = Min2(ChatScrollOffset, maxScroll)
         /\ chatLineCount' = n /\ chatMaxScroll' = maxScroll /\ chatPageRows' = AvailRows
  /\ view' = Shown(ChatScrollOffset') /\ lastLines' = Lines
  /\ drawn' = TRUE /\ touched' = FALSE
  /\ UNCHANGED <<Messages, ChatHeight, toast, IsCompactMode, said, acts>>

\* renderFooter's chat: scrolled up, the position moves with the lines that came in.
Draw ==
  /\ ~IsCompactMode
  /\ LET n == Len(Lines)
         maxScroll == Least(n, AvailRows)
         moved == IF ChatScrollOffset > 0 /\ drawn /\ n > chatLineCount
                  THEN ChatScrollOffset + n - chatLineCount ELSE ChatScrollOffset
     IN  /\ ChatScrollOffset' = Min2(moved, maxScroll)
         /\ chatLineCount' = n /\ chatMaxScroll' = maxScroll /\ chatPageRows' = AvailRows
  /\ view' = Shown(ChatScrollOffset') /\ lastLines' = Lines
  /\ drawn' = TRUE /\ touched' = FALSE
  /\ UNCHANGED <<Messages, ChatHeight, toast, IsCompactMode, said, acts>>

Next ==
  \/ AddMessage \/ SendCurrentChat \/ Command \/ SetMediaPreview \/ AddChatHistory
  \/ ScrollChat \/ ResizeChat \/ Toast
  \/ DrawCompact \/ Draw

Spec == Init /\ [][Next]_vars

-----------------------------------------------------------------------------
(* Properties *)

\* The parts are in states the code knows.
TypeOK ==
  /\ Messages \in Seq([id : 1 .. MaxMessages, at : Times, rows : Rows, picture : BOOLEAN])
  /\ {chatMaxScroll, chatLineCount} \subseteq 0 .. 2 * MaxMessages
  /\ ChatScrollOffset \in 0 .. (IF drawn THEN 2 * MaxMessages ELSE MaxActs)
  /\ chatPageRows \in 0 .. MaxRows /\ ChatHeight \in MinRows .. MaxRows
  /\ {toast, IsCompactMode, drawn, touched} \subseteq BOOLEAN
  /\ said \in 0 .. MaxMessages /\ acts \in 0 .. MaxActs

\* "Scrolled up, what is on screen stays put while messages arrive below it" (renderFooter):
\* while the user touches nothing and the lines down to the last one on screen stay as they
\* were, the next frame ends with the same line, or shows the chat from its first line.
\* Messages cut away at the limit, history and pictures above the view do move it.
ScrolledViewStays ==
  [][(Draw /\ ChatScrollOffset > 0 /\ ~touched /\ view # <<>>) =>
       LET last == view[Len(view)]
           at == CHOOSE i \in DOMAIN lastLines : lastLines[i] = last
       IN  IsPrefix(SubSeq(lastLines, 1, at), Lines) =>
             view'[Len(view')] = last \/ view'[1] = Lines[1]]_vars

====
