----------------------------- MODULE RelayDialog -----------------------------
(* The relay settings dialog (handleRelayModalKey in app_keys.go, its mouse   *)
(* in app_mouse.go, app_modals.go): two text fields with cursors, a selection *)
(* that belongs to one of them.  A text is its length; what keys do within a  *)
(* field without a selection is the widget library's.                        *)
EXTENDS Integers

CONSTANTS
  MaxLen,     \* bound: length of a text
  MaxActs     \* bound: what the user does

RelayDialogAssumption == MaxLen \in Nat /\ MaxActs \in Nat

VARIABLES
  shown,                 \* showRelayModal
  active,                \* relayModalActiveField
  length, Cursor,        \* of the two fields
  selField, selStart, selEnd,   \* the selection; -1: none
  acts

selection == <<selField, selStart, selEnd>>
texts == <<length, Cursor>>
vars == <<shown, active, texts, selection, acts>>

Fields == {0, 1}    \* the address and the token; 2 to 4 are buttons
Lengths == 0 .. MaxLen

Lower(a, b) == IF a < b THEN a ELSE b
Upper(a, b) == IF a > b THEN a ELSE b

Init ==
  /\ shown = FALSE /\ active = 0
  /\ length = [f \in Fields |-> 0] /\ Cursor = length
  /\ selField = -1 /\ selStart = -1 /\ selEnd = -1
  /\ acts = 0

Act == shown /\ acts < MaxActs /\ acts' = acts + 1

\* clearRelaySelection, hasRelaySelection
ClearSelection == selField' = -1 /\ selStart' = -1 /\ selEnd' = -1
HasSelection(f) == selStart # -1 /\ selStart # selEnd /\ selField = f

\* SetValue leaves the cursor at the end.
SetValue(f, n) == length' = [length EXCEPT ![f] = n] /\ Cursor' = [Cursor EXCEPT ![f] = n]

\* openRelayModal: the address is selected.
Open ==
  /\ ~shown /\ acts < MaxActs /\ acts' = acts + 1
  /\ shown' = TRUE /\ active' = 0
  /\ \E url \in Lengths, token \in Lengths :
       /\ length' = [f \in Fields |-> IF f = 0 THEN url ELSE token] /\ Cursor' = length'
       /\ selField' = 0 /\ selStart' = 0 /\ selEnd' = url

\* closeRelayModal
Close ==
  /\ Act
  /\ shown' = FALSE /\ ClearSelection
  /\ UNCHANGED <<active, texts>>

\* Tab, up and down, which drop the selection, and the arrows on the buttons, which do not
Move ==
  /\ Act
  /\ \/ ClearSelection /\ active' \in (0 .. 4) \ {active}
     \/ active \in 2 .. 4 /\ active' \in {active - 1, active + 1} \intersect (2 .. 4) /\ UNCHANGED selection
  /\ UNCHANGED <<shown, texts>>

\* An arrow, Home or End; with Shift the selection grows from where it began.
MoveCursor ==
  /\ Act /\ active \in Fields
  /\ \E to \in {0, length[active], Cursor[active] - 1, Cursor[active] + 1} \intersect (0 .. length[active]) :
       /\ Cursor' = [Cursor EXCEPT ![active] = to]
       /\ \/ ClearSelection
          \/ /\ selField' = active /\ selEnd' = to
             /\ selStart' = IF selField # active \/ selStart = -1 THEN Cursor[active] ELSE selStart
  /\ UNCHANGED <<shown, active, length>>

\* Ctrl+A
SelectAll ==
  /\ Act /\ active \in Fields
  /\ selField' = active /\ selStart' = 0 /\ selEnd' = length[active]
  /\ Cursor' = [Cursor EXCEPT ![active] = length[active]]
  /\ UNCHANGED <<shown, active, length>>

\* handleRelayModalMouse: a click sets cursor and selection; a drag moves only its end, and may
\* go on in the other field.
Click ==
  /\ Act
  /\ \E f \in Fields, col \in Lengths, drag \in BOOLEAN :
       /\ col <= length[f]
       /\ active' = f /\ Cursor' = [Cursor EXCEPT ![f] = col]
       /\ selEnd' = col
       /\ IF drag THEN UNCHANGED <<selField, selStart>> ELSE selField' = f /\ selStart' = col
  /\ UNCHANGED <<shown, length>>

\* Faulty: the range is taken as the selection has it
Deleted_AsIs(f) ==
  LET from == Lower(selStart, selEnd)
      to == Upper(selStart, selEnd)
  IN  [n |-> Upper(length[f] - (to - from), 0), at |-> from]

\* deleteSelectedRange: the range is cut down to the text, which may be shorter by now.
Deleted(f) ==
  LET from == Lower(Lower(selStart, selEnd), length[f])
      to == Lower(Upper(selStart, selEnd), length[f])
  IN  [n |-> length[f] - (to - from), at |-> from]

\* What is typed or pasted replaces the selection (relayInsert, insertStringAtCursor).  Typing
\* without one keeps where a selection had begun.
Insert ==
  /\ Act
  /\ \E f \in Fields, n \in 1 .. MaxLen, typed \in BOOLEAN :
       LET gone == HasSelection(f)
           base == IF gone THEN Deleted(f).n ELSE length[f]
           at == IF gone THEN Deleted(f).at ELSE Cursor[f]
       IN  /\ base + n <= MaxLen
           /\ typed => n = 1 /\ f = active
           /\ length' = [length EXCEPT ![f] = base + n]
           /\ Cursor' = [Cursor EXCEPT ![f] = at + n]
           /\ active' = f
           /\ IF typed /\ ~gone THEN UNCHANGED selection ELSE ClearSelection
  /\ UNCHANGED <<shown>>

\* Backspace and Delete
Delete ==
  /\ Act /\ active \in Fields
  /\ IF HasSelection(active)
     THEN /\ length' = [length EXCEPT ![active] = Deleted(active).n]
          /\ Cursor' = [Cursor EXCEPT ![active] = Deleted(active).at]
          /\ ClearSelection
     ELSE /\ length[active] > 0
          /\ length' = [length EXCEPT ![active] = @ - 1]
          /\ Cursor' = [Cursor EXCEPT ![active] = Lower(Upper(@ - 1, 0), length[active] - 1)]
          /\ UNCHANGED selection
  /\ UNCHANGED <<shown, active>>

\* Ctrl+X: a selection that reaches past the text is left alone; without one all goes, and where
\* a selection had begun stays.
Cut ==
  /\ Act /\ active \in Fields
  /\ LET from == Lower(selStart, selEnd)
         to == Upper(selStart, selEnd)
     IN  IF ~HasSelection(active) THEN SetValue(active, 0) /\ UNCHANGED selection
         ELSE /\ from < length[active] /\ to <= length[active]
              /\ length' = [length EXCEPT ![active] = Deleted(active).n]
              /\ Cursor' = [Cursor EXCEPT ![active] = Deleted(active).at]
              /\ ClearSelection
  /\ UNCHANGED <<shown, active>>

\* relayClearAction: Ctrl+U
Clear ==
  /\ Act /\ active \in Fields
  /\ SetValue(active, 0) /\ ClearSelection
  /\ UNCHANGED <<shown, active>>

\* saveRelaySettings writes the list of relays back in its own form; switchToLAN,
\* resetRelayToDefault and toggleRelayMode set the address and drop the token.
Save ==
  /\ Act
  /\ \E url \in Lengths, token \in {0, length[1]} :
       length' = [length EXCEPT ![0] = url, ![1] = token]
  /\ Cursor' = [f \in Fields |-> IF length'[f] = length[f] THEN Cursor[f] ELSE length'[f]]
  /\ shown' = FALSE /\ ClearSelection
  /\ UNCHANGED active

Next ==
  \/ Open \/ Close \/ Move \/ MoveCursor \/ SelectAll \/ Click
  \/ Insert \/ Delete \/ Cut \/ Clear \/ Save

Spec == Init /\ [][Next]_vars

-----------------------------------------------------------------------------
(* Properties *)

\* The parts are in states the code knows.
TypeOK ==
  /\ shown \in BOOLEAN /\ active \in 0 .. 4
  /\ length \in [Fields -> Lengths] /\ Cursor \in [Fields -> 0 .. 2 * MaxLen]
  /\ selField \in -1 .. 1 /\ {selStart, selEnd} \subseteq -1 .. MaxLen
  /\ acts \in 0 .. MaxActs

\* A cursor is never past the end of its text, where inserting would end the program
\* (insertStringAtCursor slices at the cursor), although a selection may be: it can begin
\* before a text is cut or cleared, and be dragged out of a field.
CursorsStayInside == \A f \in Fields : Cursor[f] <= length[f]

====
