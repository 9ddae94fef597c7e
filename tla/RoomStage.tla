------------------------------ MODULE RoomStage ------------------------------
(***************************************************************************)
(* The members of a room on the screen (ui_room_members.go, ui_room_hud.go) *)
(* and what the mouse and the keys do to them.  With nobody sharing, the   *)
(* members are cards in a grid, or a list in a low window; with a share,   *)
(* a sidebar beside a stage on which every share is a tile; the mini HUD   *)
(* lists them in a window lower still.                                     *)
(*                                                                         *)
(* A frame is drawn from the room as it is then; a click meets the frame   *)
(* drawn last, and the room as it is by now.  Where areas overlap, the one *)
(* registered last takes the click.                                        *)
(***************************************************************************)
EXTENDS Integers, FiniteSets

CONSTANTS
    Peers,          \* the other members there may be, in the order of their IDs
    Limit,          \* RoomLimit
    Widths, Heights, \* of the room on the screen, by the terminal
    Footer,         \* rows of the footer with its border
    Status, Ping, Pill,     \* widths of a card's texts,
    Volume, Name, Watch,    \* of the volume control, of what a row has before it and after,
    Stop, Preview, Sound,   \* and of the controls on the stage
    HudLines,       \* lines the mini HUD's controls may take (bound)
    MaxActs         \* what the user and the others do (bound)

RoomStageAssumption ==
    /\ Peers \subseteq Nat \ {0} /\ IsFiniteSet(Peers)
    /\ {Limit, Footer, HudLines, MaxActs} \subseteq Nat
    /\ {Status, Ping, Pill, Name, Watch, Stop, Preview} \subseteq Nat
    /\ Limit > 0 /\ Volume \in Nat \ 0 .. 7 /\ Sound \in Nat \ 0 .. 12
    /\ Widths \subseteq Nat \ 0 .. 7 /\ Heights \subseteq Nat

VARIABLES
    present,        \* members in the room beside this one (Peers of the node)
    live,           \* those that share their screen
    own,            \* IsSharingScreen
    watched,        \* WatchingPeerID (0: IsWatchingScreen is false)
    volume,         \* PeerVolumes, in quarters
    sound,          \* screenVolumes, in tenths
    jobs,           \* goroutines that start or stop watching or sharing, on their way
    seen,           \* the frame drawn last: the room as it was then
    acts

room == <<present, live, own, watched>>
levels == <<volume, sound>>
vars == <<room, levels, jobs, seen, acts>>

Least(a, b) == IF a < b THEN a ELSE b
Most(a, b) == IF a > b THEN a ELSE b

-----------------------------------------------------------------------------
(* Areas of the screen                                                     *)

Rect(x, y, w, h) == [x |-> x, y |-> y, w |-> w, h |-> h]

\* Inside a border.
Inner(a) == Rect(a.x + 1, a.y + 1, Most(0, a.w - 2), Most(0, a.h - 2))

Holds(a, x, y) == a.x <= x /\ x < a.x + a.w /\ a.y <= y /\ y < a.y + a.h

\* drawClipped keeps what is inside.
Cut(a, b) ==
    LET x == Most(a.x, b.x)
        y == Most(a.y, b.y)
    IN  Rect(x, y, Most(0, Least(a.x + a.w, b.x + b.w) - x),
                   Most(0, Least(a.y + a.h, b.y + b.h) - y))

\* A click area: what it is for, whose it is, and when it was registered.
Area(rect, does, who, nth) == [rect |-> rect, does |-> does, who |-> who, nth |-> nth]

-----------------------------------------------------------------------------
(* The frame of a room s as it was                                         *)

\* GetPeersList is in the order of the IDs.
Place(s, m) == Cardinality({k \in s.members : k < m}) + 1
Count(s) == Cardinality(s.members)

GridHeight(s) == s.h - 3 - Footer
Mini(s) == s.compact \/ s.h <= 6 \/ GridHeight(s) < 4
Staged(s) == s.live # {} \/ s.own \/ s.watched # 0
Grid(s) == Rect(0, 3, s.w, GridHeight(s))

\* gridSlots, gridShape, gridCell
GridSlots(members) ==
    Most(IF members < Limit THEN members + 1 ELSE members, Least(4, Limit))
Columns(slots) == IF slots > 9 THEN 4 ELSE IF slots > 4 THEN 3 ELSE 2
Lines(slots, cols) == (slots + cols - 1) \div cols
GridCell(a, rows, cols, i) ==
    LET r == i \div cols
        c == i % cols
        x0 == (a.w * c) \div cols
        y0 == (a.h * r) \div rows
    IN  Rect(a.x + x0, a.y + y0, (a.w * (c + 1)) \div cols - x0, (a.h * (r + 1)) \div rows - y0)

Slots(s) == GridSlots(Count(s) + 1)
CardRows(s) == Lines(Slots(s), Columns(Slots(s)))
Card(s, i) == GridCell(Grid(s), CardRows(s), Columns(Slots(s)), i)
Listed(s) == GridHeight(s) < 4 * CardRows(s)

\* The volume of a member on its card, unless the card is too narrow.
PillArea(s, m) ==
    LET inner == Inner(Card(s, Place(s, m)))
        x == inner.x + inner.w - Ping - Pill - 2
    IN  IF x < inner.x + Status + 2 THEN {}
        ELSE {Area(Cut(Rect(x, inner.y, Pill, 1), inner), "next", m, Place(s, m))}

\* A share that began while the cards were drawn is on the own card already.
Banner(s) ==
    LET inner == Inner(Card(s, 0))
    IN  IF s.late /\ inner.h >= 5
        THEN {Area(Cut(Rect(inner.x + 1, inner.y + inner.h - 2, inner.w - 2, 2), inner),
                   "stopShare", 0, 0)}
        ELSE {}
\* An empty card: the code of the room.
Invite(s, i) == Area(Card(s, i), "copy", 0, i)

Cards(s) ==
    (UNION {PillArea(s, m) : m \in s.members}) \cup Banner(s)
        \cup {Invite(s, i) : i \in Count(s) + 1 .. Slots(s) - 1}

\* "[-] 100% [+]" at (x, y), if it fits before right.
VolumeAreas(m, x, y, right, nth) ==
    IF x + Volume > right THEN {}
    ELSE {Area(Rect(x, y, 3, 1), "softer", m, nth),
          Area(Rect(x + Volume - 3, y, 3, 1), "louder", m, nth + 1)}

\* A row of drawHUDMembers: the volume, and the share of the member.
Row(s, inner, m, y) ==
    LET right == inner.x + inner.w
        x == inner.x + Name
        after == IF x + Volume > right THEN x ELSE x + Volume + 2
    IN  VolumeAreas(m, x, y, right, 3 * Place(s, m)) \cup
        IF m \in s.live /\ after + Watch <= right
        THEN {Area(Rect(after, y, Watch, 1),
                   IF s.watched = m THEN "stopWatching" ELSE "watch", m, 3 * Place(s, m) + 2)}
        ELSE {}

\* Members beyond the rows there are (the first is one's own) are left out.
ListRows(s, inner, y, rows) ==
    UNION {Row(s, inner, m, y + Place(s, m)) : m \in {k \in s.members : Place(s, k) < rows}}

\* renderMemberList
ListInner(s) == LET i == Inner(Grid(s)) IN Rect(i.x + 1, i.y, i.w - 2, i.h)
List(s) == IF Inner(Grid(s)).w < 6 THEN {}
           ELSE ListRows(s, ListInner(s), ListInner(s).y, ListInner(s).h)

\* renderCompactHUD: the status line, the controls in lines, a divider if there is room.
HudInner(s) ==
    IF s.h < 4 \/ s.w < 32 THEN Rect(0, 0, s.w, s.h)
    ELSE Rect(2, 1, s.w - 4, s.h - 2)
HudTop(s) == 1 + Least(s.lines, HudInner(s).h - 1)
HudRest(s) == HudInner(s).h - HudTop(s)
HudDivider(s) == IF HudRest(s) >= Count(s) + 2 + (IF s.footer THEN 1 ELSE 0) THEN 1 ELSE 0
Hud(s) ==
    IF HudInner(s).h < 2 THEN {}
    ELSE ListRows(s, HudInner(s), HudInner(s).y + HudTop(s) + HudDivider(s),
                  Least(Count(s) + 1, HudRest(s) - HudDivider(s)))

\* renderSidebarMembers: a card after the other, at least three rows each.
Sidebar(s) == Inner(Rect(0, 3, (s.w * 32) \div 100, GridHeight(s)))
CardHeight(s) == Most(3, Sidebar(s).h \div (Count(s) + 1))
MiniCard(s, i) == Rect(Sidebar(s).x, Sidebar(s).y + i * CardHeight(s), Sidebar(s).w, CardHeight(s))
Fits(s, i) == (i + 1) * CardHeight(s) <= Sidebar(s).h
\* renderMemberMiniCard: title, status, level.
Meter(card) == card.y + 2

SidebarAreas(s, m) ==
    LET card == MiniCard(s, Place(s, m))
        right == card.x + card.w
    IN  (IF m \in s.live THEN {Area(card, "watch", m, 3 * Place(s, m))} ELSE {}) \cup
        IF card.h < 4
        THEN VolumeAreas(m, right - Least(card.w, Volume + 1), card.y + 1, right, 3 * Place(s, m) + 1)
        ELSE VolumeAreas(m, card.x + 2, card.y + 3, right, 3 * Place(s, m) + 1)

\* renderStreamStage: the controls of what is watched and shared, from the top,
Stage(s) ==
    LET left == (s.w * 32) \div 100
    IN  Inner(Rect(left, 3, s.w - left, GridHeight(s)))
Buttons(s) == Stage(s).x + 3
\* of the stream's sound beside the stop button, or under it,
SoundX(s) ==
    IF Buttons(s) + Stop + 2 + Sound > Stage(s).x + Stage(s).w THEN Buttons(s)
    ELSE Buttons(s) + Stop + 2
SoundY(s) == Stage(s).y + IF SoundX(s) = Buttons(s) THEN 3 ELSE 2
WatchControls(s) ==
    {Area(Rect(Buttons(s), Stage(s).y + 2, Stop, 1), "stopWatching", 0, 0)} \cup
    IF SoundX(s) + Sound > Stage(s).x + Stage(s).w THEN {}
    ELSE {Area(Rect(SoundX(s) + Sound - 13, SoundY(s), 3, 1), "quieter", s.watched, 1),
          Area(Rect(SoundX(s) + Sound - 3, SoundY(s), 3, 1), "clearer", s.watched, 2)}

\* and of one's own share below (drawOwnShareControls).
OwnTop(s) == IF s.watched # 0 THEN SoundY(s) + 2 ELSE Stage(s).y + 1
PreviewX(s) ==
    IF Buttons(s) + Stop + 2 + Preview > Stage(s).x + Stage(s).w THEN Buttons(s)
    ELSE Buttons(s) + Stop + 2
PreviewY(s) == OwnTop(s) + IF PreviewX(s) = Buttons(s) THEN 2 ELSE 1
OwnControls(s) ==
    {Area(Rect(Buttons(s), OwnTop(s) + 1, Stop, 1), "stopShare", 0, 3),
     Area(Rect(PreviewX(s), PreviewY(s), Preview, 1), "preview", 0, 4)}

\* The tiles take the rest, one's own first (drawStreamTiles).
TilesTop(s) == IF s.own THEN PreviewY(s) + 2
               ELSE IF s.watched # 0 THEN SoundY(s) + 2 ELSE Stage(s).y + 3
Tiles(s) == Rect(Stage(s).x + 1, TilesTop(s), Stage(s).w - 2,
                 Stage(s).y + Stage(s).h - TilesTop(s))
Streams(s) == Cardinality(s.live) + IF s.own THEN 1 ELSE 0
TileColumns(n) == IF n > 4 THEN 3 ELSE Least(n, 2)
Nth(s, m) == Cardinality({k \in s.live : k < m}) + IF s.own THEN 1 ELSE 0

\* A picture of 16:9, in cells twice as high as wide, with its border and label, in the
\* middle of its slot.
TileIn(slot) ==
    LET fit == ((slot.h - 3) * 32) \div 9 + 2
        w == IF fit < slot.w THEN Most(fit, 12) ELSE slot.w
        h == IF fit < slot.w THEN slot.h ELSE Least(slot.h, ((slot.w - 2) * 9) \div 32 + 3)
        x == IF w > slot.w THEN slot.x - (w - slot.w) \div 2 ELSE slot.x + (slot.w - w) \div 2
    IN  Rect(x, slot.y + (slot.h - h) \div 2, w, h)

\* drawStreamTile
Tile(s, i, does, who) ==
    LET n == Streams(s)
        tile == TileIn(GridCell(Tiles(s), Lines(n, TileColumns(n)), TileColumns(n), i))
    IN  IF tile.w < 6 \/ tile.h < 4 THEN {} ELSE {Area(tile, does, who, 5 + i)}
TileAreas(s) ==
    IF Tiles(s).w < 12 \/ Tiles(s).h < 5 THEN {}
    ELSE (UNION {Tile(s, Nth(s, m), IF s.watched = m THEN "unwatch" ELSE "watch", m) : m \in s.live})
         \cup (IF s.own THEN Tile(s, 0, "preview", 0) ELSE {})

StageAreas(s) ==
    LET all == TileAreas(s) \cup (IF s.watched # 0 THEN WatchControls(s) ELSE {})
                            \cup IF s.own THEN OwnControls(s) ELSE {}
    IN  {[a EXCEPT !.rect = Cut(@, Stage(s))] : a \in all}

\* The click areas of a frame, but those of the header and the footer.
Areas(s) ==
    IF Mini(s) THEN Hud(s)
    ELSE IF Staged(s)
    THEN (UNION {SidebarAreas(s, m) : m \in {k \in s.members : Fits(s, Place(s, k))}})
         \cup StageAreas(s)
    ELSE IF Listed(s) THEN List(s) ELSE Cards(s)

-----------------------------------------------------------------------------
(* The room around                                                         *)

Act == acts < MaxActs /\ acts' = acts + 1

Nobody == [w |-> 0, h |-> 0, compact |-> TRUE, members |-> {}, live |-> {}, own |-> FALSE,
           late |-> FALSE, watched |-> 0, lines |-> 0, footer |-> FALSE]
Scenes == [w : Widths, h : Heights, compact : BOOLEAN, members : SUBSET Peers, live : SUBSET Peers,
           own : BOOLEAN, late : BOOLEAN, watched : Peers \cup {0}, lines : 0 .. HudLines, footer : BOOLEAN]
Jobs == {"stop", "unshare"} \X {0} \cup {"watch", "open"} \X Peers

Init ==
    /\ present \in SUBSET Peers /\ live = {} /\ own = FALSE /\ watched = 0
    /\ volume = [m \in Peers |-> 4] /\ sound = [m \in Peers |-> 10]
    /\ jobs = {} /\ seen = Nobody /\ acts = 0

TypeOK ==
    /\ present \subseteq Peers /\ live \subseteq present /\ own \in BOOLEAN
    /\ watched \in Peers \cup {0}
    /\ volume \in [Peers -> 0 .. 8] /\ sound \in [Peers -> 0 .. 20]
    /\ jobs \subseteq Jobs /\ seen \in Scenes \cup {Nobody} /\ acts \in 0 .. MaxActs

Joins(m) ==
    /\ Act /\ m \notin present
    /\ present' = present \cup {m}
    /\ UNCHANGED <<live, own, watched, levels, jobs, seen>>

\* A member leaves, times out, or is put out; RemovePeer forgets its volume.  Heard from the
\* relay, the end of any share ends the watching, and so does the last member's leaving;
\* heard from the member, that of the share watched.
Leaves(m) ==
    /\ Act /\ m \in present
    /\ present' = present \ {m} /\ live' = live \ {m}
    /\ volume' = [volume EXCEPT ![m] = 4]
    /\ \E relay \in BOOLEAN :
          jobs' = IF \/ relay /\ watched # 0 /\ (m \in live \/ present = {m})
                     \/ ~relay /\ watched = m /\ m \in live
                  THEN jobs \cup {<<"stop", 0>>} ELSE jobs
    /\ UNCHANGED <<own, watched, sound, seen>>

\* Announced, or told by a ping.
Shares(m) ==
    /\ Act /\ m \in present \ live
    /\ live' = live \cup {m}
    /\ UNCHANGED <<present, own, watched, levels, jobs, seen>>
ShareEnds(m) ==
    /\ Act /\ m \in live
    /\ live' = live \ {m}
    /\ jobs' \in {jobs, IF watched = m THEN jobs \cup {<<"stop", 0>>} ELSE jobs}
    /\ UNCHANGED <<present, own, watched, levels, seen>>

\* One's own share begins, or ends by itself.
OwnShare ==
    /\ Act
    /\ own' = ~own
    /\ UNCHANGED <<present, live, watched, levels, jobs, seen>>

\* The player is closed, or got nothing for long.
ViewerEnds ==
    /\ watched # 0 /\ watched' = 0
    /\ UNCHANGED <<present, live, own, levels, jobs, seen, acts>>

-----------------------------------------------------------------------------
(* What clicks and keys have started                                       *)

\* StartWatchingScreen: what was watched is closed first; the player takes a while.
StartWatching(m) ==
    /\ <<"watch", m>> \in jobs
    /\ watched' = 0
    /\ jobs' = (jobs \ {<<"watch", m>>}) \cup IF m \in present THEN {<<"open", m>>} ELSE {}
    /\ UNCHANGED <<present, live, own, levels, seen, acts>>
PlayerOpened(m) ==
    /\ <<"open", m>> \in jobs /\ jobs' = jobs \ {<<"open", m>>}
    /\ watched' \in {m, watched}            \* or it cannot be started
    /\ UNCHANGED <<present, live, own, levels, seen, acts>>
StopWatching ==
    /\ <<"stop", 0>> \in jobs /\ jobs' = jobs \ {<<"stop", 0>>}
    /\ watched' = 0
    /\ UNCHANGED <<present, live, own, levels, seen, acts>>
StopShare ==
    /\ <<"unshare", 0>> \in jobs /\ jobs' = jobs \ {<<"unshare", 0>>}
    /\ own' = FALSE
    /\ UNCHANGED <<present, live, watched, levels, seen, acts>>

-----------------------------------------------------------------------------
(* The screen, the mouse and the keys                                      *)

\* Render.  A share may begin while it draws.  Only the mini HUD has lines and a footer.
Draw(w, h, compact, lines, footer) ==
    /\ own' \in {own, TRUE}
    /\ IF Mini([h |-> h, compact |-> compact]) THEN lines > 0 ELSE lines = 0 /\ ~footer
    /\ seen' = [w |-> w, h |-> h, compact |-> compact, members |-> present, live |-> live,
                own |-> own, late |-> own', watched |-> watched, lines |-> lines,
                footer |-> footer]
    /\ UNCHANGED <<present, live, watched, levels, jobs, acts>>

\* The areas that get clicks: somewhere, no area registered later lies above.
OnTop(s) ==
    LET areas == Areas(s)
    IN  {a \in areas :
            \E x \in a.rect.x .. a.rect.x + a.rect.w - 1, y \in a.rect.y .. a.rect.y + a.rect.h - 1 :
                \A b \in areas : Holds(b.rect, x, y) => b.nth <= a.nth}

SetVolume(m, v) == volume' = [volume EXCEPT ![m] = Most(0, Least(v, 8))]
SetSound(m, v) == sound' = [sound EXCEPT ![m] = Most(0, Least(v, 20))]
Starts(job) == jobs' = jobs \cup {job}

\* A member's volume: the card goes round, the buttons go up and down.
VolumeClick(a) ==
    /\ \/ a.does = "next" /\ SetVolume(a.who, IF volume[a.who] = 8 THEN 0
                                              ELSE IF volume[a.who] = 0 THEN 2
                                              ELSE volume[a.who] + 1)
       \/ a.does = "softer" /\ SetVolume(a.who, volume[a.who] - 1)
       \/ a.does = "louder" /\ SetVolume(a.who, volume[a.who] + 1)
    /\ UNCHANGED <<room, sound, jobs>>
SoundClick(a) ==
    /\ \/ a.does = "quieter" /\ SetSound(a.who, sound[a.who] - 1)
       \/ a.does = "clearer" /\ SetSound(a.who, sound[a.who] + 1)
    /\ UNCHANGED <<room, volume, jobs>>
WatchClick(a) ==
    /\ \/ a.does = "watch" /\ Starts(<<"watch", a.who>>) /\ UNCHANGED watched
       \/ a.does = "unwatch" /\ Starts(<<"stop", 0>>) /\ UNCHANGED watched
       \/ a.does = "stopWatching" /\ watched' = 0 /\ UNCHANGED jobs
    /\ UNCHANGED <<present, live, own, levels>>
ShareClick(a) ==
    /\ a.does = "stopShare" /\ own' = FALSE
    /\ UNCHANGED <<present, live, watched, levels, jobs>>

Click(a) ==
    /\ Act
    /\ VolumeClick(a) \/ SoundClick(a) \/ WatchClick(a) \/ ShareClick(a)
    /\ UNCHANGED seen

First(members) == CHOOSE m \in members : \A k \in members : m <= k
WatchFirst(members) ==
    members # {} /\ Starts(<<"watch", First(members)>>) /\ UNCHANGED <<own, watched>>

\* The footer's buttons look at the room again; the member to watch is the one they name.
FooterButton ==
    /\ ~Mini(seen)
    /\ \/ own /\ own' = FALSE /\ UNCHANGED <<watched, jobs>>
       \/ watched # 0 /\ Starts(<<"stop", 0>>) /\ UNCHANGED <<own, watched>>
       \/ watched = 0 /\ WatchFirst(seen.live)

\* The mini HUD's button does what it says.
HudButton ==
    /\ Mini(seen)
    /\ IF seen.own THEN own' = FALSE /\ UNCHANGED <<watched, jobs>>
       ELSE IF seen.watched # 0 THEN watched' = 0 /\ UNCHANGED <<own, jobs>>
       ELSE WatchFirst(seen.live)

\* [W], [V] and Escape.
Key ==
    \/ watched # 0 /\ watched' = 0 /\ UNCHANGED <<own, jobs>>
    \/ watched = 0 /\ WatchFirst(live)
    \/ own /\ Starts(<<"unshare", 0>>) /\ UNCHANGED <<own, watched>>
    \/ watched = 0 /\ own /\ own' = FALSE /\ UNCHANGED <<watched, jobs>>

Press ==
    /\ Act
    /\ FooterButton \/ HudButton \/ Key
    /\ UNCHANGED <<present, live, levels, seen>>

\* [,] and [.]
SoundKey ==
    /\ Act /\ watched # 0
    /\ \E by \in {-1, 1} : SetSound(watched, sound[watched] + by)
    /\ UNCHANGED <<room, volume, jobs, seen>>

Next ==
    \/ \E m \in Peers : Joins(m) \/ Leaves(m) \/ Shares(m) \/ ShareEnds(m)
                        \/ StartWatching(m) \/ PlayerOpened(m)
    \/ OwnShare \/ ViewerEnds \/ StopWatching \/ StopShare \/ Press \/ SoundKey
    \/ \E w \in Widths, h \in Heights, compact \in BOOLEAN, lines \in 0 .. HudLines, footer \in BOOLEAN :
          Draw(w, h, compact, lines, footer)
    \/ \E a \in OnTop(seen) : Click(a)

Spec == Init /\ [][Next]_vars

-----------------------------------------------------------------------------
(* Properties                                                              *)

\* The members a frame shows, and where.
RowsOf(s) ==
    IF Mini(s)
    THEN [inner |-> HudInner(s), y |-> HudInner(s).y + HudTop(s) + HudDivider(s),
          n |-> IF HudInner(s).h < 2 THEN 0
                ELSE Least(Count(s) + 1, HudRest(s) - HudDivider(s))]
    ELSE [inner |-> ListInner(s), y |-> ListInner(s).y,
          n |-> IF Inner(Grid(s)).w < 6 THEN 0 ELSE ListInner(s).h]
InRows(s) == Mini(s) \/ (~Staged(s) /\ Listed(s))
Shown(s) ==
    {m \in s.members : IF InRows(s) THEN Place(s, m) < RowsOf(s).n
                       ELSE Staged(s) => Fits(s, Place(s, m))}
PlaceOf(s, m) ==
    IF InRows(s)
    THEN Rect(RowsOf(s).inner.x, RowsOf(s).y + Place(s, m), RowsOf(s).inner.w, 1)
    ELSE IF Staged(s) THEN MiniCard(s, Place(s, m)) ELSE Card(s, Place(s, m))

Within(a, b) == a.x >= b.x /\ a.y >= b.y /\ a.x + a.w <= b.x + b.w /\ a.y + a.h <= b.y + b.h
Apart(a, b) ==
    a.x + a.w <= b.x \/ b.x + b.w <= a.x \/ a.y + a.h <= b.y \/ b.y + b.h <= a.y

\* No member is drawn over another, those left out are the last, and a window that has room
\* for cards has one for everybody, of four rows and more.
MembersAreShown ==
    seen # Nobody =>
        /\ \A m, k \in Shown(seen) : m # k => Apart(PlaceOf(seen, m), PlaceOf(seen, k))
        /\ \A m \in Shown(seen), k \in seen.members : k < m => k \in Shown(seen)
        /\ ~InRows(seen) /\ ~Staged(seen) =>
              Shown(seen) = seen.members /\ \A m \in seen.members : PlaceOf(seen, m).h >= 4

Levels == {"next", "softer", "louder"}

\* The volume of a member is on its card or row, off the level meter, and no other area
\* takes its clicks.
VolumeIsAtHand ==
    LET areas == Areas(seen)
    IN  \A a \in areas : a.does \in Levels =>
            /\ a.who \in Shown(seen) /\ Within(a.rect, PlaceOf(seen, a.who))
            /\ ~InRows(seen) /\ Staged(seen) => a.rect.y # Meter(PlaceOf(seen, a.who))
            /\ \A b \in areas : b # a => b.nth < a.nth \/ Apart(a.rect, b.rect)

\* A click on the card or row of a member changes the volume of no other, and asks for no
\* other's stream, whoever came and left since it was drawn.
ClickIsForTheMember ==
    [][<<levels, jobs>>' # <<levels, jobs>> =>
       \A a \in OnTop(seen), m \in Shown(seen) :
          Click(a) /\ ~Apart(a.rect, PlaceOf(seen, m)) =>
              \A k \in Peers \ {m} : /\ volume'[k] = volume[k] /\ sound'[k] = sound[k]
                                     /\ <<"watch", k>> \in jobs' => <<"watch", k>> \in jobs]_vars
=============================================================================
