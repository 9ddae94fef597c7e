-------------------------- MODULE ScrolledDialogs --------------------------
(***************************************************************************)
(* The dialogs that scroll (dialogs.go, app_keys.go, app_mouse.go).  The   *)
(* settings are laid out for 28 rows; a shorter dialog leaves rows out,    *)
(* scrolls the others, and moves the click regions along with the rows it  *)
(* shows.  The debug log is drawn as wrapped rows, newest last; scrolled   *)
(* up, it is to stay where it is while lines arrive.                       *)
(*                                                                         *)
(* A setting is a number below its Size, a switch is 0 or 1.  Keys and     *)
(* clicks come between two frames as they like: what a click meets is the  *)
(* frame drawn last.                                                       *)
(***************************************************************************)
EXTENDS Integers, FiniteSetsExt, SequencesExt

CONSTANTS
    Heights,        \* rows inside the settings dialog, by the size of the terminal
    Ahead,          \* how far the wheel runs beyond the rows between frames (bound)
    Lengths,        \* of the lines of the log
    Widths, Pages,  \* widths of the log and rows shown at once, by the terminal
    Filters,        \* debugFilters; the first shows every line
    Cap, Kept,      \* a log longer than Cap is cut to its newest Kept lines
    MaxActs,        \* settings changed (bound)
    MaxLines        \* lines logged (bound)

\* A cut leaves no more than there was, and continuation rows have a width.
ScrolledDialogsAssumption ==
    /\ Heights \subseteq Nat \ {0} /\ Ahead \in Nat /\ MaxActs \in Nat /\ MaxLines \in Nat
    /\ Lengths \subseteq Nat /\ Widths \subseteq Nat \ 0 .. 2 /\ Pages \subseteq Nat \ {0}
    /\ Filters \in Nat \ {0} /\ Cap \in Nat /\ Kept \in 0 .. Cap

VARIABLES
    opened,         \* the dialog of this behaviour
    height,         \* of the settings dialog, as the terminal is now
    scroll,         \* testModalScroll
    set,            \* the settings in the engine and the application
    frame,          \* the settings as drawn last
    captured,       \* row of the slider that has the mouse, or Blank
    log,            \* debugLogsList
    view,           \* DebugView
    cut,            \* the log was cut or cleared since it was drawn
    acts

settings == <<height, scroll, set, frame, captured>>
debug == <<log, view, cut>>
vars == <<opened, settings, debug, acts>>

Least(a, b) == IF a < b THEN a ELSE b
Most(a, b) == IF a > b THEN a ELSE b
Clamp(x, top) == Most(0, Least(x, top))     \* max(0, min(x, top))

UpTo(max) == acts < max /\ acts' = acts + 1

-----------------------------------------------------------------------------
(* The rows of the settings dialog                                         *)

Blank == -1
Buttons == 26               \* testRowButtons
SettingRow(i) == 2 + 2 * i  \* testRowFirst .. testRowLast, every other row
Count == 11                 \* of the settings
SettingRows == {SettingRow(i) : i \in 1 .. Count}

\* Rows kept above the settings: the status and the level meter.
Top(h) ==
    LET meter == IF h < 4 + Count + 1 THEN 2 ELSE 4
    IN  IF h < meter + 4 THEN Clamp(meter, h - 2) ELSE meter

\* Lines left for settings, above the buttons.
Window(h) == Most(0, h - Top(h) - 1)

\* The settings a spare line goes under (the first is 0), spread evenly; one
\* spare line stays above the buttons.
Gaps(h) ==
    LET g == Least(h - 2 - Top(h) - Count, Count - 1)
    IN  {((2 * j + 1) * (Count - 1)) \div (2 * g) : j \in 0 .. g - 1}

Line(h, i) == Top(h) + i + Cardinality({k \in Gaps(h) : k < i - 1})

Scrolled(h, s) == IF Window(h) >= Count THEN 0 ELSE Clamp(s, Count - Window(h))

\* The content row on line y of a dialog of h < 26 rows, above its buttons.
Spread(h, y) ==
    IF \E i \in 1 .. Count : Line(h, i) = y
    THEN SettingRow(CHOOSE i \in 1 .. Count : Line(h, i) = y) ELSE Blank
Squeezed(h, s, y) ==
    IF y <= Top(h) THEN y - 1
    ELSE IF Window(h) >= Count THEN Spread(h, y)
    ELSE SettingRow(Scrolled(h, s) + y - Top(h))

\* testModalRowMap: the content row of every line.
RowMap(h, s) ==
    IF h >= 28 THEN [y \in 1 .. 28 |-> y - 1]
    ELSE [y \in 1 .. h |->
            IF y = h THEN Buttons
            ELSE IF h >= 26 THEN IF y <= 25 THEN y - 1 ELSE Blank
            ELSE Squeezed(h, s, y)]

-----------------------------------------------------------------------------
(* What each row controls                                                  *)

Size == [microphone |-> 2, output |-> 2, gain |-> 3, volume |-> 3, noise |-> 4,
         mode |-> 2, listening |-> 2, sensitivity |-> 3, loopback |-> 2,
         notifications |-> 2, smoothing |-> 2, echo |-> 2, global |-> 2, theme |-> 2,
         hud |-> 2, language |-> 2, muted |-> 2, deafened |-> 2]
Names == DOMAIN Size
PushToTalk == 1             \* set.mode

Cycled(n, by) == [set EXCEPT ![n] = (@ + by) % Size[n]]
AnyOf(n) == {[set EXCEPT ![n] = v] : v \in 0 .. Size[n] - 1}

\* The row that shows a setting.
RowOf == [microphone |-> 4, output |-> 6, gain |-> 8, volume |-> 10, noise |-> 12,
          mode |-> 14, listening |-> 14, sensitivity |-> 16, loopback |-> 18,
          notifications |-> 18, smoothing |-> 18, echo |-> 20, global |-> 20, theme |-> 22,
          hud |-> 22, language |-> 24, muted |-> Buttons, deafened |-> Buttons]
Shown(row) == {n \in Names : RowOf[n] = row}

Sliders == {"gain", "volume", "sensitivity"}
SliderAt(row) == Sliders \cap Shown(row)

\* The device rows: back, and on by the name or the arrow.
MicrophoneRow == {Cycled("microphone", 1), Cycled("microphone", -1)}
OutputRow == {Cycled("output", 1), Cycled("output", -1)}
VolumeRows(row) == UNION {AnyOf(n) : n \in SliderAt(row)}
NoiseRow == AnyOf("noise")
\* The box of the talk key is there in push-to-talk.
ModeRow(keyBox) ==
    AnyOf("mode") \cup IF keyBox THEN {Cycled("listening", 1)} ELSE {}
ListenRow == {Cycled(n, 1) : n \in {"loopback", "notifications", "smoothing"}}
\* toggleGlobalPTT: switching it on means push-to-talk.
GlobalToggled ==
    [Cycled("global", 1) EXCEPT !.mode = IF set.global = 0 THEN PushToTalk ELSE @]
EchoRow == {Cycled("echo", 1), GlobalToggled}
ThemeRow == {Cycled("theme", 1), Cycled("hud", 1)}
LanguageRow == {Cycled("language", 1)}
\* ToggleDeafen: deafened means muted.
Deafened == [Cycled("deafened", 1) EXCEPT !.muted = IF set.deafened = 0 THEN 1 ELSE @]
ButtonRow == {Cycled("muted", 1), Deafened}

\* What a click on a content row can do to the settings.
Clicked(row, keyBox) ==
    CASE row = 4 -> MicrophoneRow
      [] row = 6 -> OutputRow
      [] row \in {8, 10, 16} -> VolumeRows(row)
      [] row = 12 -> NoiseRow
      [] row = 14 -> ModeRow(keyBox)
      [] row = 18 -> ListenRow
      [] row = 20 -> EchoRow
      [] row = 22 -> ThemeRow
      [] row = 24 -> LanguageRow
      [] row = Buttons -> ButtonRow
      [] OTHER -> {}

\* A line is shown by the filters whose tags are in it.
Lines == [tags : SUBSET (1 .. Filters - 1), length : Lengths]
Matches(f, l) == f = 0 \/ f \in l.tags

NoFrame == [rows |-> <<>>, regions |-> {}, keyBox |-> FALSE, above |-> FALSE, below |-> FALSE]

Init ==
    /\ opened \in {"settings", "log"}
    /\ height \in Heights /\ scroll = 0 /\ set = [n \in Names |-> 0]
    /\ frame = NoFrame /\ captured = Blank
    /\ log = <<>> /\ cut = FALSE
    /\ view = [Scroll |-> 0, Filter |-> 0, maxScroll |-> -1, page |-> 0, rows |-> 0,
               width |-> 0, filter |-> 0]
    /\ acts = 0

TypeOK ==
    /\ opened \in {"settings", "log"}
    /\ height \in Heights /\ scroll \in -Ahead .. Count + Ahead
    /\ set \in [Names -> Nat] /\ \A n \in Names : set[n] < Size[n]
    /\ frame.rows \in Seq({Blank} \cup 0 .. 27)
    /\ frame.regions \subseteq [line : DOMAIN frame.rows, row : 0 .. 27]
    /\ frame.keyBox \in BOOLEAN /\ frame.above \in BOOLEAN /\ frame.below \in BOOLEAN
    /\ captured \in {RowOf[n] : n \in Sliders} \cup {Blank}
    /\ log \in Seq(Lines) /\ Len(log) <= Cap /\ cut \in BOOLEAN
    /\ view.Scroll \in Nat /\ view.Filter \in 0 .. Filters - 1
    /\ view.maxScroll \in Nat \cup {-1} /\ view.page \in Nat /\ view.rows \in Nat
    /\ view.width \in Widths \cup {0} /\ view.filter \in 0 .. Filters - 1
    /\ acts \in 0 .. Most(MaxActs, MaxLines)

-----------------------------------------------------------------------------
(* The settings dialog                                                     *)

Settings == opened = "settings" /\ UNCHANGED <<opened, debug>>

Resize ==
    /\ Settings
    /\ height' \in Heights
    /\ UNCHANGED <<scroll, set, frame, captured, acts>>

\* The regions of the rows that are shown, on the lines they are shown on.
Regions(rows) ==
    {[line |-> y, row |-> rows[y]] : y \in {z \in DOMAIN rows : Shown(rows[z]) # {}}}

\* The dialog of h rows scrolled to s, with arrows at settings left out.
Drawn(h, s, keyBox) ==
    [rows |-> RowMap(h, s), regions |-> Regions(RowMap(h, s)), keyBox |-> keyBox,
     above |-> Scrolled(h, s) > 0, below |-> Scrolled(h, s) + Window(h) < Count]

\* DrawTestModal.
Draw ==
    /\ Settings
    /\ scroll' = Scrolled(height, scroll)
    /\ frame' = Drawn(height, scroll, set.mode = PushToTalk)
    /\ UNCHANGED <<height, set, captured, acts>>

\* The mouse wheel, or an arrow key.  Bound: Ahead.
Scroll(by) ==
    /\ Settings
    /\ scroll + by \in -Ahead .. Count + Ahead
    /\ scroll' = scroll + by
    /\ UNCHANGED <<height, set, frame, captured, acts>>

\* openTestModal once more.
Reopen ==
    /\ Settings
    /\ scroll' = 0
    /\ UNCHANGED <<height, set, frame, captured, acts>>

\* A click on line y.  A slider keeps the mouse until it is released.
Click(y) ==
    /\ Settings /\ UpTo(MaxActs) /\ captured = Blank
    /\ \E r \in frame.regions :
          /\ r.line = y
          /\ set' \in Clicked(r.row, frame.keyBox)
          /\ captured' = IF SliderAt(r.row) = {} THEN Blank ELSE r.row
    /\ UNCHANGED <<height, scroll, frame>>

\* The wheel over a slider moves it by a step.
Wheel(y, by) ==
    /\ Settings /\ UpTo(MaxActs) /\ captured = Blank
    /\ \E r \in frame.regions, n \in Sliders :
          /\ r.line = y /\ r.row = RowOf[n]
          /\ set' = [set EXCEPT ![n] = Clamp(@ + by, Size[n] - 1)]
    /\ UNCHANGED <<height, scroll, frame, captured>>

\* The mouse moves while a slider has it, wherever the row is by now.
Drag ==
    /\ Settings /\ UpTo(MaxActs) /\ captured # Blank
    /\ set' \in VolumeRows(captured)
    /\ UNCHANGED <<height, scroll, frame, captured>>

Release ==
    /\ Settings
    /\ captured # Blank /\ captured' = Blank
    /\ UNCHANGED <<height, scroll, set, frame, acts>>

\* What the keys do (handleTestModalKey); asked for the talk key, the next key is it.
KeySettings ==
    IF set.listening = 1 THEN {[set EXCEPT !.listening = 0]}
    ELSE MicrophoneRow \cup {Cycled("output", 1), Cycled("noise", 1), Cycled("mode", 1)}
         \cup {[set EXCEPT ![n] = Clamp(@ + by, Size[n] - 1)] :
                  n \in {"gain", "volume"}, by \in {-1, 1}}
         \cup ListenRow \cup EchoRow \cup LanguageRow \cup ButtonRow
         \cup IF set.mode = PushToTalk THEN {[set EXCEPT !.listening = 1]} ELSE {}

Key ==
    /\ Settings /\ UpTo(MaxActs)
    /\ set' \in KeySettings
    /\ UNCHANGED <<height, scroll, frame, captured>>

-----------------------------------------------------------------------------
(* The debug log                                                           *)

Debug == opened = "log" /\ UNCHANGED <<opened, settings>>

\* wrapDebugLine, of a line without blanks: what the first row does not hold goes on in
\* rows two cells narrower.
Wrapped(w, n) == 1 + (Most(0, n - w) + w - 3) \div (w - 2)

\* The rows the lines of a log take.
Rows(f, w, l) == IF Matches(f, l) THEN Wrapped(w, l.length) ELSE 0
Plus(n, k) == n + k
RowCount(lines, f, w) == FoldLeft(Plus, 0, [i \in DOMAIN lines |-> Rows(f, w, lines[i])])

\* AddDebugLog.
AddDebugLog(l) ==
    /\ Debug /\ UpTo(MaxLines)
    /\ LET more == Append(log, l)
       IN  /\ log' = IF Len(more) > Cap THEN SubSeq(more, Len(more) - Kept + 1, Len(more)) ELSE more
           /\ cut' = (cut \/ Len(more) > Cap)
    /\ UNCHANGED view

\* ClearDebugLogs.
ClearDebugLogs ==
    /\ Debug
    /\ log' = <<>> /\ cut' = TRUE
    /\ UNCHANGED <<view, acts>>

Within(x) == LET s == Most(0, x) IN IF view.maxScroll >= 0 THEN Least(s, view.maxScroll) ELSE s

ScrollBy(delta) == view' = [view EXCEPT !.Scroll = Within(@ + delta)]

\* A row, a turn of the wheel, or a page with a row of context.  Bound: 3 * Cap rows.
ScrollLog ==
    /\ Debug
    /\ \E d \in {-1, 1} :
          \/ ScrollBy(d)
          \/ ScrollBy(3 * d)
          \/ ScrollBy(d * Most(1, view.page - 1))
    /\ view'.Scroll <= 3 * Cap
    /\ UNCHANGED <<log, cut, acts>>

Jump ==
    /\ Debug
    /\ \E s \in {Most(view.maxScroll, 0), 0} : view' = [view EXCEPT !.Scroll = s]
    /\ UNCHANGED <<log, cut, acts>>

NextFilter ==
    /\ Debug
    /\ view' = [view EXCEPT !.Filter = (@ + 1) % Filters, !.Scroll = 0]
    /\ UNCHANGED <<log, cut, acts>>

\* openDebugModal: the filter stays, the view starts at the newest line.
OpenLog ==
    /\ Debug
    /\ view' = [view EXCEPT !.Scroll = 0, !.maxScroll = -1, !.page = 0, !.rows = 0,
                            !.width = 0, !.filter = 0]
    /\ UNCHANGED <<log, cut, acts>>

\* Scrolled up, the rows that arrived below are added.
Followed(rows, w) ==
    IF view.Scroll > 0 /\ view.width = w /\ view.filter = view.Filter /\ rows > view.rows
    THEN view.Scroll + rows - view.rows ELSE view.Scroll

\* DrawDebugModal.
DrawLog(w, page) ==
    /\ Debug
    /\ LET rows == RowCount(log, view.Filter, w)
           last == Most(0, rows - page)
       IN  view' = [view EXCEPT !.Scroll = Least(Followed(rows, w), last),
                                !.maxScroll = last, !.page = page, !.rows = rows,
                                !.width = w, !.filter = view.Filter]
    /\ cut' = FALSE
    /\ UNCHANGED <<log, acts>>

Next ==
    \/ Resize \/ Draw \/ Reopen \/ Drag \/ Release \/ Key
    \/ \E by \in {-1, 1} : Scroll(by) \/ \E y \in DOMAIN frame.rows : Wheel(y, by)
    \/ \E y \in DOMAIN frame.rows : Click(y)
    \/ \E l \in Lines : AddDebugLog(l)
    \/ ClearDebugLogs \/ ScrollLog \/ Jump \/ NextFilter \/ OpenLog
    \/ \E w \in Widths, p \in Pages : DrawLog(w, p)

Spec == Init /\ [][Next]_vars

-----------------------------------------------------------------------------
(* Properties                                                              *)

Visible == {frame.rows[y] : y \in DOMAIN frame.rows} \cap SettingRows

\* The rows of the settings dialog stand in their order, none twice; the buttons are
\* there at any height, and a setting that is not shown is where an arrow points,
\* with no line wasted.
SettingsStayInReach ==
    frame.rows # <<>> =>
        /\ \A y, z \in DOMAIN frame.rows :
              y < z /\ Blank \notin {frame.rows[y], frame.rows[z]} =>
                  frame.rows[y] < frame.rows[z]
        /\ \E y \in DOMAIN frame.rows : frame.rows[y] = Buttons
        /\ \A r \in SettingRows \ Visible :
              /\ \/ frame.above /\ \A v \in Visible : r < v
                 \/ frame.below /\ \A v \in Visible : r > v
              /\ \A y \in DOMAIN frame.rows : frame.rows[y] # Blank
        /\ Len(frame.rows) > 1 => Visible # {}

\* The setting scrolled to is shown.
ScrollReachesAll ==
    [][height > 1 /\ Draw => SettingRow(Clamp(scroll, Count - 1) + 1) \in Visible']_vars

\* A click changes what is drawn under it and nothing else, but that the global talk key
\* brings push-to-talk with it.
ClickMeansTheRow ==
    [][set' # set => \A y \in DOMAIN frame.rows :
          Click(y) => \A n \in Names : set'[n] # set[n] =>
              n \in Shown(frame.rows[y]) \/ (n = "mode" /\ frame.rows[y] = 20)]_vars

\* The rows of the log up to the last one shown.
LastShown == view.rows - view.Scroll

\* Scrolled up, the last row shown stays the same however many lines arrive, unless the
\* page would not be full.
LogStaysPut ==
    [][\A w \in Widths, p \in Pages :
          view.Scroll > 0 /\ ~cut /\ view.width = w /\ view.filter = view.Filter /\ DrawLog(w, p)
              => LastShown' = Most(LastShown, Least(view'.rows, p))]_vars
=============================================================================
