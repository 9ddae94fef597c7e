------------------------------ MODULE Clipboard ------------------------------
(* The clipboard on Linux.  It belongs to the program that copied last: that
   program keeps a connection to the display and hands the text out whenever
   another one pastes.  The app opens a connection for every copy, over Wayland
   or else X11, serves it in the background, and falls back on tools.

   The display keeps one clipboard for both protocols.  The terminal, which is
   asked to copy too when there is no display, is not part of it.            *)
EXTENDS Naturals, Sequences, FiniteSets

CONSTANTS
  Reachable,   \* the protocols of the displays the app can reach
  Tools,       \* clipboard tools installed
  MaxCopies,   \* connections and copies there may be
  MaxPastes    \* pastes there may be

Protocols == {"wayland", "x11"}
ClipboardAssumption ==
  /\ Reachable \subseteq Protocols
  /\ Tools \in Nat /\ MaxCopies \in Nat /\ MaxPastes \in Nat

Conns == 1 .. MaxCopies
Texts == 1 .. MaxCopies   \* every copy is of another text
Nobody == 0
Tool == MaxCopies + 1     \* a tool, or another program, that has the clipboard
Other == MaxCopies + 2

VARIABLES
  owner,   \* who has the clipboard: a connection, Tool, Other or Nobody
  held,    \* what it holds, 0 for nothing
  conn,    \* Conns -> the app's connection: its protocol, text and state
  told,    \* connections the display has told that they lost the clipboard
  kept,    \* Protocols -> waylandOwner.conn, x11Owner.conn, 0 for nil
  copy,    \* the copy under way: its text, connection and the ways to try still
  asks,    \* pastes of other programs: the connection asked and what came of it
  open,    \* the app runs
  read,    \* a paste of the app's own: the ways to try still, whom it asked, and what it got
  copies,  \* copies so far, the app's and others'
  last     \* history: the text of the last copy of the app that went well, 0 since another

vars == <<owner, held, conn, told, kept, copy, asks, open, read, copies, last>>

Unused == [by |-> "none", text |-> 0, state |-> "unused"]
NoCopy == [text |-> 0, conn |-> 0, ways |-> <<>>]
NoRead == [ways |-> <<>>, from |-> Nobody, text |-> 0, got |-> 0]

Init ==
  /\ owner = Nobody /\ held = 0
  /\ conn = [c \in Conns |-> Unused] /\ told = {}
  /\ kept = [p \in Protocols |-> 0]
  /\ copy = NoCopy /\ asks = {} /\ open = TRUE /\ copies = 0 /\ last = 0
  /\ read = NoRead

\* CopyToClipboard tries the display first, then the tools.
Ways == [i \in 1 .. 2 + Tools |-> IF i = 1 THEN "wayland" ELSE IF i = 2 THEN "x11" ELSE "tool"]

\* The clipboard changes hands: a connection that had it is told so.
Take(who, text) ==
  /\ owner' = who /\ held' = text
  /\ told' = IF owner \in Conns THEN told \cup {owner} ELSE told

\* The display takes the clipboard from a connection that is closed.
Close(c, change) ==
  /\ conn' = [change EXCEPT ![c].state = "closed"]
  /\ told' = told \ {c}
  /\ IF owner = c THEN owner' = Nobody /\ held' = 0 ELSE UNCHANGED <<owner, held>>

CopyToClipboard ==
  /\ open /\ copy = NoCopy /\ copies < MaxCopies
  /\ copies' = copies + 1
  /\ copy' = [text |-> copies + 1, conn |-> 0, ways |-> Ways]
  /\ UNCHANGED <<owner, held, conn, told, kept, asks, open, last, read>>

NextWay == [copy EXCEPT !.conn = 0, !.ways = Tail(@)]

\* A way that is not there, or fails before it took the clipboard
WayFails ==
  /\ copy.ways # <<>> /\ copy.conn = 0
  /\ copy' = NextWay
  /\ UNCHANGED <<owner, held, conn, told, kept, asks, open, copies, last, read>>

\* writeWayland, writeX11: a connection of its own takes the clipboard,
SetSelection ==
  \E c \in Conns :
    LET p == Head(copy.ways) IN
    /\ copy.ways # <<>> /\ copy.conn = 0 /\ p \in Reachable
    /\ conn[c] = Unused /\ \A d \in Conns : conn[d] = Unused => c <= d
    /\ conn' = [conn EXCEPT ![c] = [by |-> p, text |-> copy.text, state |-> "new"]]
    /\ copy' = [copy EXCEPT !.conn = c]
    /\ Take(c, copy.text)
    /\ UNCHANGED <<kept, asks, open, copies, last, read>>

\* the display does not confirm it in time, or another program was quicker on X11: what was
\* copied before is gone as well,
Unconfirmed ==
  /\ copy.conn # 0
  /\ Close(copy.conn, conn)
  /\ copy' = NextWay /\ last' = 0
  /\ UNCHANGED <<kept, asks, open, copies, read>>

\* or it does: the connection is kept and served, and the one kept before is closed.
Before_Swapped(c) == c
Before(c) == kept[conn[c].by]

Confirmed ==
  LET c == copy.conn
      p == conn[c].by
      before == Before(c)
  IN
  /\ c # 0 /\ (p = "x11" => owner = c)
  /\ IF before # 0
     THEN Close(before, [conn EXCEPT ![c].state = "served"])
     ELSE conn' = [conn EXCEPT ![c].state = "served"] /\ UNCHANGED <<owner, held, told>>
  /\ kept' = [kept EXCEPT ![p] = c]
  /\ copy' = NoCopy
  /\ last' = IF owner = c THEN copy.text ELSE last
  /\ UNCHANGED <<asks, open, copies, read>>

\* A tool takes it and stays behind to serve it.
UseTool ==
  /\ copy.ways # <<>> /\ Head(copy.ways) \notin Protocols
  /\ Take(Tool, copy.text)
  /\ last' = copy.text /\ copy' = NoCopy
  /\ UNCHANGED <<conn, kept, asks, open, copies, read>>

\* No way was left: it is reported as done all the same.
NoWay ==
  /\ copy # NoCopy /\ copy.ways = <<>>
  /\ copy' = NoCopy
  /\ UNCHANGED <<owner, held, conn, told, kept, asks, open, copies, last, read>>

\* Another program copies.
OtherCopies ==
  /\ copies < MaxCopies /\ copies' = copies + 1
  /\ Take(Other, copies + 1) /\ last' = 0
  /\ UNCHANGED <<conn, kept, copy, asks, open, read>>

\* The goroutine of a connection that was told, or closed: it clears the variable, if that
\* still holds this connection.
Forgets(c) == [kept EXCEPT ![conn[c].by] = IF @ = c THEN 0 ELSE @]

\* The loop of a connection that was told it lost the clipboard ends.
Cancelled_Ignored(c) == FALSE
Cancelled(c) == c \in told /\ conn[c].state = "served"

Lost(c) ==
  /\ open
  /\ \/ Cancelled(c) /\ Close(c, [conn EXCEPT ![c].text = 0])
     \/ /\ conn[c].state = "closed" /\ conn[c].text # 0
        /\ conn' = [conn EXCEPT ![c].text = 0] /\ UNCHANGED <<owner, held, told>>
  /\ kept' = Forgets(c)
  /\ UNCHANGED <<copy, asks, open, copies, last, read>>

\* Another program pastes what the app holds: the app is asked
Paste ==
  /\ Cardinality(asks) < MaxPastes /\ owner \in Conns
  /\ asks' = asks \cup {[of |-> owner, text |-> held, got |-> 0]}
  /\ UNCHANGED <<owner, held, conn, told, kept, copy, open, copies, last, read>>

\* and hands out the text of that connection, once its copy was confirmed.
Serve ==
  \E a \in asks :
    /\ open /\ a.got = 0 /\ conn[a.of].state = "served"
    /\ asks' = (asks \ {a}) \cup {[a EXCEPT !.got = conn[a.of].text]}
    /\ UNCHANGED <<owner, held, conn, told, kept, copy, open, copies, last, read>>

\* The app pastes: Read asks the owner over each display, then GetClipboardText the tools.
StartRead ==
  /\ open /\ read.ways = <<>> /\ read.got = 0 /\ copies > 0
  /\ read' = [NoRead EXCEPT !.ways = Ways]
  /\ UNCHANGED <<owner, held, conn, told, kept, copy, asks, open, copies, last>>

\* readWaylandAs, readX11As: whoever has the clipboard is asked to write
Request ==
  /\ open /\ read.ways # <<>> /\ read.from = Nobody
  /\ Head(read.ways) \in Protocols => Head(read.ways) \in Reachable
  /\ read' = IF owner # Nobody THEN [read EXCEPT !.from = owner, !.text = held]
             ELSE [read EXCEPT !.ways = <<>>]
  /\ UNCHANGED <<owner, held, conn, told, kept, copy, asks, open, copies, last>>

\* and is read to the end, or times out: then the next way is tried.  A connection of the
\* app itself answers while it is served.
Receive ==
  /\ read.from \in Conns => conn[read.from].state = "served"
  /\ read.from # Nobody
  /\ read' = [read EXCEPT !.ways = <<>>, !.from = Nobody,
                         !.got = IF read.from \in Conns THEN conn[read.from].text ELSE read.text]
  /\ UNCHANGED <<owner, held, conn, told, kept, copy, asks, open, copies, last>>

ReadFails ==
  /\ read.ways # <<>>
  /\ read' = [NoRead EXCEPT !.ways = Tail(read.ways)]
  /\ UNCHANGED <<owner, held, conn, told, kept, copy, asks, open, copies, last>>

\* The app ends, and its connections with it.
Exit ==
  /\ open /\ open' = FALSE
  /\ conn' = [c \in Conns |-> IF conn[c] = Unused THEN Unused
                              ELSE [conn[c] EXCEPT !.state = "closed"]]
  /\ told' = {} /\ copy' = NoCopy /\ last' = 0 /\ read' = NoRead
  /\ IF owner \in Conns THEN owner' = Nobody /\ held' = 0 ELSE UNCHANGED <<owner, held>>
  /\ UNCHANGED <<kept, asks, copies>>

Next ==
  \/ CopyToClipboard \/ WayFails \/ SetSelection \/ Unconfirmed \/ Confirmed \/ UseTool
  \/ NoWay \/ OtherCopies \/ Paste \/ Serve \/ Exit
  \/ StartRead \/ Request \/ Receive \/ ReadFails
  \/ \E c \in Conns : Lost(c)

\* The loops of the connections run.
Spec == Init /\ [][Next]_vars /\ \A c \in Conns : WF_vars(Lost(c))

-----------------------------------------------------------------------------
\* Types.
TypeOK ==
  /\ owner \in Conns \cup {Tool, Other, Nobody} /\ held \in Texts \cup {0}
  /\ conn \in [Conns -> [by : Protocols \cup {"none"}, text : Texts \cup {0},
                         state : {"unused", "new", "served", "closed"}]]
  /\ told \subseteq Conns /\ kept \in [Protocols -> Conns \cup {0}]
  /\ copy.text \in Texts \cup {0} /\ copy.conn \in Conns \cup {0}
  /\ \A a \in asks : a.of \in Conns /\ a.text \in Texts /\ a.got \in Texts \cup {0}
  /\ read.from \in Conns \cup {Tool, Other, Nobody} /\ read.got \in Texts \cup {0}
  /\ open \in BOOLEAN /\ copies \in 0 .. MaxCopies /\ last \in Texts \cup {0}

\* What was copied stays there to be pasted: between two copies the clipboard has the text of
\* the last copy that went well, from a connection that is served, although the loops of
\* earlier connections end at any time; and a paste gets the text it was of, or nothing.
CopiedTextIsPasted ==
  /\ open /\ copy = NoCopy /\ last # 0 =>
       /\ held = last
       /\ owner = Tool \/ (owner \in Conns /\ conn[owner].state = "served")
  /\ \A a \in asks : a.got \in {0, a.text}
  /\ read.got \in {0, read.text}

\* No connection outlives its copy: the app ends with at most the one that has the clipboard.
ConnectionsEnd ==
  \A c \in Conns : (open /\ conn[c].state = "served" /\ owner # c) ~> (conn[c].state = "closed")
=============================================================================
