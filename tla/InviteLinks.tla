----------------------------- MODULE InviteLinks -----------------------------
(* Invite links and the copies of the app.  Every link that is opened starts a
   process.  It hands the link to the open app through a socket and ends, or
   goes on as the app, first moving to a terminal or to another window where it
   must.  The socket has a name in the file system, which any copy may remove
   and bind again.                                                           *)
EXTENDS Naturals, Sequences, FiniteSets

CONSTANTS
  Procs,    \* processes there may be
  Links,    \* invite links
  Cap       \* links an app keeps for its loop

None == "none"
InviteLinksAssumption == Procs \subseteq Nat \ {0} /\ Cap \in Nat \ {0} /\ None \notin Links

VARIABLES
  at,       \* Procs -> the step of main the process is at
  link,     \* Procs -> the link it was started for, or None
  env,      \* Procs -> which of the two variables of the environment are set
  window,   \* Procs -> what it runs in: a terminal, and one that has to be moved
  socket,   \* the process whose socket has the name, 0 for none
  bound,    \* processes that hold a socket, whether it still has the name or not
  wire,     \* Procs -> what became of the link it sent: "none", "sent", "taken", "ok"
  peer,     \* Procs -> the app it sent the link to
  invites,  \* Procs -> links handed to this app, for its loop
  asked,    \* history: links a copy has asked its user about
  lost,     \* history: links of a full queue, of an app that ended, or without a terminal
  starts    \* history: Links -> processes started for it

vars == <<at, link, env, window, socket, bound, wire, peer, invites, asked, lost, starts>>

Init ==
  /\ at = [p \in Procs |-> "unused"] /\ link = [p \in Procs |-> None]
  /\ env = [p \in Procs |-> {}] /\ window = [p \in Procs |-> {}]
  /\ socket = 0 /\ bound = {}
  /\ wire = [p \in Procs |-> "none"] /\ peer = [p \in Procs |-> 0]
  /\ invites = [p \in Procs |-> <<>>]
  /\ asked = {} /\ lost = {} /\ starts = [l \in Links |-> 0]

Apps == {p \in Procs : at[p] = "open"}
Step(p, s) == at' = [at EXCEPT ![p] = s]
Sockets == <<socket, bound>>
Sending == <<wire, peer>>
Past == <<asked, lost>>

\* A process starts, with what its environment and its window are: the next one.
Start(p, l, e, w) ==
  /\ at[p] = "unused" /\ \A q \in Procs : at[q] = "unused" => p <= q
  /\ link' = [link EXCEPT ![p] = l]
  /\ env' = [env EXCEPT ![p] = e] /\ window' = [window EXCEPT ![p] = w]
  /\ starts' = IF l \in Links THEN [starts EXCEPT ![l] = @ + 1] ELSE starts

\* The user opens the app, in a terminal, or a link that was not opened before.  The
\* launcher of links gives it no terminal.
Open(p) ==
  /\ \/ \E w \in {{"tty"}, {"tty", "wayland"}} : Start(p, None, {}, w)
     \/ \E l \in Links : starts[l] = 0 /\ Start(p, l, {}, {})
  /\ Step(p, "started")
  /\ UNCHANGED <<Sockets, Sending, invites, Past>>

\* A process starts another one for what it was started for, and ends.
Succeed(p, variable, windows) ==
  \E q \in Procs, w \in windows :
    /\ Start(q, link[p], env[p] \cup {variable}, w)
    /\ at' = [at EXCEPT ![p] = "ended", ![q] = "started"]
    /\ UNCHANGED <<Sockets, Sending, invites, Past>>

\* forwardInvite: connect to the socket of that name, if an app listens there
ForwardInvite(p) ==
  /\ at[p] = "started"
  /\ IF link[p] # None /\ socket \in Apps
     THEN /\ Step(p, "sending")
          /\ wire' = [wire EXCEPT ![p] = "sent"] /\ peer' = [peer EXCEPT ![p] = socket]
     ELSE Step(p, "alone") /\ UNCHANGED Sending
  /\ UNCHANGED <<link, env, window, Sockets, invites, Past, starts>>

\* serveInvite: the app keeps the link for its loop, if there is room, then answers
ServeInvite(p) ==
  LET q == peer[p] IN
  /\ wire[p] = "sent" /\ q \in Apps
  /\ IF Len(invites[q]) < Cap
     THEN invites' = [invites EXCEPT ![q] = Append(@, link[p])] /\ UNCHANGED lost
     ELSE lost' = lost \cup {link[p]} /\ UNCHANGED invites
  /\ wire' = [wire EXCEPT ![p] = "taken"]
  /\ UNCHANGED <<at, link, env, window, Sockets, peer, asked, starts>>

Answer(p) ==
  /\ wire[p] = "taken" /\ peer[p] \in Apps
  /\ wire' = [wire EXCEPT ![p] = "ok"]
  /\ UNCHANGED <<at, link, env, window, Sockets, peer, invites, Past, starts>>

\* Only an answer lets the process end.
Handed_Sent(p) == wire[p] \in {"sent", "taken", "ok"}
Handed(p) == wire[p] = "ok"

Forwarded(p) ==
  /\ at[p] = "sending" /\ Handed(p)
  /\ Step(p, "ended")
  /\ UNCHANGED <<link, env, window, Sockets, Sending, invites, Past, starts>>

\* No answer in two seconds, or the app is gone: this process goes on as the app, although
\* the link may still be taken.
NoAnswer(p) ==
  /\ at[p] = "sending" /\ wire[p] # "ok"
  /\ Step(p, "alone")
  /\ UNCHANGED <<link, env, window, Sockets, Sending, invites, Past, starts>>

\* relaunchForDragAndDrop: from a terminal on Wayland to a window of its own, once
NeedsX11Relaunch(p) == "wayland" \in window[p] /\ "moved" \notin env[p]

RelaunchForDragAndDrop(p) ==
  /\ at[p] = "alone" /\ NeedsX11Relaunch(p)
  /\ Succeed(p, "moved", {{"tty", "wayland"}})

\* openInUserTerminal: without a terminal, in one the user prefers, once.  That terminal may
\* give it none after all.
MayOpenTerminal_Again(p) == link[p] # None
MayOpenTerminal(p) == link[p] # None /\ "terminal" \notin env[p]

OpenInUserTerminal(p) ==
  /\ at[p] = "alone" /\ "tty" \notin window[p] /\ MayOpenTerminal(p)
  /\ Succeed(p, "terminal", {{}, {"tty"}, {"tty", "wayland"}})

NoTerminal(p) ==
  /\ at[p] = "alone" /\ "tty" \notin window[p]
  /\ Step(p, "ended") /\ lost' = lost \cup ({link[p]} \ {None})
  /\ UNCHANGED <<link, env, window, Sockets, Sending, invites, asked, starts>>

\* main goes on: NewApp.  The socket is found in use, or not,
StartApp(p) ==
  /\ at[p] = "alone" /\ "tty" \in window[p]
  /\ Step(p, IF socket \in Apps THEN "deaf" ELSE "binding")
  /\ UNCHANGED <<link, env, window, Sockets, Sending, invites, Past, starts>>

\* listenForInvites: and is then removed and bound, whoever has bound it meanwhile.
\* openInvite asks about the link this process was started for.
Run(p) ==
  /\ at[p] \in {"deaf", "binding"}
  /\ IF at[p] = "binding"
     THEN socket' = p /\ bound' = bound \cup {p}
     ELSE UNCHANGED Sockets
  /\ asked' = asked \cup ({link[p]} \ {None})
  /\ Step(p, "open")
  /\ UNCHANGED <<link, env, window, Sending, invites, lost, starts>>

\* The app's loop asks about the next link.
ReceiveInvite(p) ==
  /\ p \in Apps /\ invites[p] # <<>>
  /\ asked' = asked \cup {Head(invites[p])}
  /\ invites' = [invites EXCEPT ![p] = Tail(@)]
  /\ UNCHANGED <<at, link, env, window, Sockets, Sending, lost, starts>>

\* cleanExit closes the socket, which removes its name, whoever has bound it since; an app
\* that dies leaves the name behind.  The links it has taken go with it.
CleanExit(p) ==
  /\ p \in Apps
  /\ Step(p, "ended") /\ bound' = bound \ {p}
  /\ socket' \in {IF p \in bound THEN 0 ELSE socket, socket}
  /\ lost' = lost \cup {invites[p][i] : i \in DOMAIN invites[p]}
  /\ invites' = [invites EXCEPT ![p] = <<>>]
  /\ UNCHANGED <<link, env, window, Sending, asked, starts>>

Next ==
  \E p \in Procs :
    \/ Open(p) \/ ForwardInvite(p) \/ ServeInvite(p) \/ Answer(p) \/ Forwarded(p)
    \/ NoAnswer(p) \/ RelaunchForDragAndDrop(p) \/ OpenInUserTerminal(p) \/ NoTerminal(p)
    \/ StartApp(p) \/ Run(p) \/ ReceiveInvite(p) \/ CleanExit(p)

Spec == Init /\ [][Next]_vars

-----------------------------------------------------------------------------
\* Types.
TypeOK ==
  /\ at \in [Procs -> {"unused", "started", "sending", "alone", "deaf", "binding", "open",
                       "ended"}]
  /\ link \in [Procs -> Links \cup {None}]
  /\ env \in [Procs -> SUBSET {"terminal", "moved"}]
  /\ window \in [Procs -> SUBSET {"tty", "wayland"}]
  /\ socket \in Procs \cup {0} /\ bound \subseteq Procs
  /\ wire \in [Procs -> {"none", "sent", "taken", "ok"}] /\ peer \in [Procs -> Procs \cup {0}]
  /\ \A p \in Procs : invites[p] \in Seq(Links) /\ Len(invites[p]) <= Cap
  /\ asked \subseteq Links /\ lost \subseteq Links /\ starts \in [Links -> Nat]

\* A link is not forgotten between the processes: the user is asked about it, or a process
\* still has it, unless the queue was full, the app that took it ended, or no terminal could
\* be had.
LinkIsTaken ==
  \A l \in Links :
    starts[l] > 0 =>
      \/ l \in asked \cup lost
      \/ \E p \in Procs : link[p] = l /\ at[p] \notin {"ended", "unused"}
      \/ \E p \in Apps : \E i \in DOMAIN invites[p] : invites[p][i] = l

\* A link does not start process after process: one more for the terminal it is given, and
\* one more for the window it is moved to, each once.
FewProcesses ==
  \A l \in Links :
    starts[l] <= 1 + Cardinality(UNION {env[p] : p \in {q \in Procs : link[q] = l}})
=============================================================================
