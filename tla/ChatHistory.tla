---------------------------- MODULE ChatHistory ----------------------------
(* The chat of a room and what members hand to those who join later          *)
(* (internal/p2p/chathistory.go, node.go, ui_room.go).  A message arrives    *)
(* live, over more than one path, and in the histories that every member     *)
(* sends twice to a joiner; a long one arrives in parts.  The host's pings   *)
(* carry whether the room keeps a history.  Messages are numbered in the     *)
(* order they are said; packets are lost, late or repeated.                  *)
EXTENDS Naturals, Sequences, FiniteSets, SequencesExt

CONSTANTS
  Members, Founders,   \* who is there; who is in the room from the start
  Host,
  Long,                \* messages that need two packets
  Limit,               \* chatHistoryLimit
  MaxSaid,             \* bound: messages
  MaxJoins,            \* bound: joins
  MaxSwitches          \* bound: switches of the history

\* Who is in the room from the start belongs to it, the host among them.
ChatHistoryAssumption ==
  /\ {Limit, MaxSaid, MaxJoins, MaxSwitches} \subseteq Nat
  /\ Founders \subseteq Members /\ Host \in Founders

VARIABLES
  inRoom, said, joins, switches,
  chatLog, chatSeen, chatHistoryOff,   \* of each member
  heard,                               \* chatDedup
  chatParts, chatPartsDone,            \* parts that arrived, long messages complete
  shown,                               \* how often each message is on the screen
  owed, net                            \* histories still to be sent; packets

kept == <<chatLog, chatSeen>>
parts == <<chatParts, chatPartsDone>>
vars == <<inRoom, said, joins, switches, kept, chatHistoryOff, heard, parts, shown, owed, net>>
Said == 1..MaxSaid

Init ==
  /\ inRoom = Founders /\ said = 0 /\ joins = 0 /\ switches = 0
  /\ chatLog = [n \in Members |-> <<>>] /\ chatSeen = [n \in Members |-> {}]
  /\ chatHistoryOff = [n \in Members |-> FALSE] /\ heard = [n \in Members |-> {}]
  /\ chatParts = [n \in Members |-> {}] /\ chatPartsDone = [n \in Members |-> {}]
  /\ shown = [n \in Members |-> [m \in Said |-> 0]]
  /\ owed = [p \in Members \X Members |-> 0] /\ net = {}

Live(m, to) == [type |-> "live", m |-> m, to |-> to]
Parts(m, history, to) == {[type |-> "part", m |-> m, part |-> i, history |-> history, to |-> to] : i \in {1, 2}}
History(entries, to) == [type |-> "history", entries |-> entries, to |-> to]
Ping(off, to) == [type |-> "ping", off |-> off, to |-> to]

-----------------------------------------------------------------------------
(* What a member keeps *)

Newest(log) == IF Len(log) > Limit THEN SubSeq(log, Len(log) - Limit + 1, Len(log)) ELSE log

\* recordChat on [log, seen, off, fresh]; fresh collects the messages that were not kept already.
RecordChat(k, m) ==
  LET log == Newest(Append(k.log, m))
  IN IF m \in k.seen THEN k
     ELSE [log |-> IF k.off THEN k.log ELSE log,
           seen |-> (k.seen \union {m}) \ (IF k.off THEN {} ELSE ToSet(k.log) \ ToSet(log)),
           off |-> k.off, fresh |-> k.fresh \union {m}]

RecordAll(n, entries) ==
  FoldLeft(RecordChat,
           [log |-> chatLog[n], seen |-> chatSeen[n], off |-> chatHistoryOff[n], fresh |-> {}], entries)

\* Member n keeps entries; what Show picks of the new ones goes to its screen.
Keep(n, entries, Show(_, _)) ==
  LET k == RecordAll(n, entries)
  IN /\ chatLog' = [chatLog EXCEPT ![n] = k.log] /\ chatSeen' = [chatSeen EXCEPT ![n] = k.seen]
     /\ shown' = [shown EXCEPT ![n] = [m \in Said |-> IF m \in k.fresh THEN Show(m, @[m]) ELSE @[m]]]

AddChatMessage(m, times) == IF times < 2 THEN times + 1 ELSE times
\* AddChatHistory leaves out what is on the screen.
AddChatHistory(m, times) == 1

\* SetChatHistory
SetChatHistory(n, on) ==
  /\ chatHistoryOff' = [chatHistoryOff EXCEPT ![n] = ~on]
  /\ chatLog' = IF on THEN chatLog ELSE [chatLog EXCEPT ![n] = <<>>]

-----------------------------------------------------------------------------

\* Both ends take the other one for a new peer: each will send its history twice.
Join(n) ==
  /\ n \notin inRoom /\ joins < MaxJoins /\ joins' = joins + 1
  /\ inRoom' = inRoom \union {n}
  /\ owed' = [p \in DOMAIN owed |-> IF n \in {p[1], p[2]} /\ p[1] # p[2] /\ {p[1], p[2]} \subseteq inRoom'
                                    THEN 2 ELSE owed[p]]
  /\ UNCHANGED <<said, switches, kept, chatHistoryOff, heard, parts, shown, net>>

\* resetChatHistory; the room is entered anew with an empty screen.
Leave(n) ==
  /\ n \in inRoom \ {Host}
  /\ inRoom' = inRoom \ {n}
  /\ chatLog' = [chatLog EXCEPT ![n] = <<>>] /\ chatSeen' = [chatSeen EXCEPT ![n] = {}]
  /\ chatHistoryOff' = [chatHistoryOff EXCEPT ![n] = FALSE]
  /\ shown' = [shown EXCEPT ![n] = [m \in Said |-> 0]]
  /\ UNCHANGED <<said, joins, switches, heard, parts, owed, net>>

\* SendChatMessage
SendChatMessage(n) ==
  LET m == said + 1
      others == inRoom \ {n}
  IN /\ n \in inRoom /\ said < MaxSaid /\ said' = m
     /\ Keep(n, <<m>>, AddChatMessage)
     /\ net' = net \union (IF m \in Long THEN UNION {Parts(m, FALSE, o) : o \in others} ELSE {Live(m, o) : o \in others})
     /\ UNCHANGED <<inRoom, joins, switches, chatHistoryOff, heard, parts, owed>>

AppendShort(entries, m) == IF m \in Long THEN entries ELSE Append(entries, m)

\* sendChatHistory: long messages go in parts of their own.
SendChatHistory(n, to) ==
  LET log == chatLog[n]
      short == FoldLeft(AppendShort, <<>>, log)
  IN /\ owed[<<n, to>>] > 0 /\ owed' = [owed EXCEPT ![<<n, to>>] = @ - 1]
     /\ net' = IF {n, to} \subseteq inRoom
               THEN net \union (IF short = <<>> THEN {} ELSE {History(short, to)})
                        \union UNION {Parts(m, TRUE, to) : m \in ToSet(log) \intersect Long}
               ELSE net
     /\ UNCHANGED <<inRoom, said, joins, switches, kept, chatHistoryOff, heard, parts, shown>>

\* Faulty: a live message is shown although a history brought it
ReceiveLive_NotRecorded(p) ==
  /\ p.type = "live" /\ p.to \in inRoom
  /\ IF p.m \in heard[p.to]
     THEN UNCHANGED <<heard, kept, shown>>
     ELSE /\ heard' = [heard EXCEPT ![p.to] = @ \union {p.m}]
          /\ LET k == RecordAll(p.to, <<p.m>>)
             IN chatLog' = [chatLog EXCEPT ![p.to] = k.log] /\ chatSeen' = [chatSeen EXCEPT ![p.to] = k.seen]
          /\ shown' = [shown EXCEPT ![p.to][p.m] = AddChatMessage(p.m, @)]
  /\ UNCHANGED <<inRoom, said, joins, switches, chatHistoryOff, parts, owed, net>>

\* PacketChatMessage
ReceiveLive(p) ==
  /\ p.type = "live" /\ p.to \in inRoom
  /\ IF p.m \in heard[p.to]
     THEN UNCHANGED <<heard, kept, shown>>
     ELSE /\ heard' = [heard EXCEPT ![p.to] = @ \union {p.m}]
          /\ Keep(p.to, <<p.m>>, AddChatMessage)
  /\ UNCHANGED <<inRoom, said, joins, switches, chatHistoryOff, parts, owed, net>>

\* handleChatHistoryLocked
ReceiveHistory(p) ==
  /\ p.type = "history" /\ p.to \in inRoom /\ ~chatHistoryOff[p.to]
  /\ Keep(p.to, p.entries, AddChatHistory)
  /\ UNCHANGED <<inRoom, said, joins, switches, chatHistoryOff, heard, parts, owed, net>>

\* handleChatPartLocked: the copies of one message, live and of a history, are put together
\* apart; the last part of a copy brings the message.
ReceivePart(p) ==
  LET n == p.to
      arrived == chatParts[n] \union {<<p.m, p.history, p.part>>}
      complete == \A i \in {1, 2} : <<p.m, p.history, i>> \in arrived
  IN /\ p.type = "part" /\ n \in inRoom
     /\ p.history => ~chatHistoryOff[n]
     /\ <<p.m, p.history>> \notin chatPartsDone[n]
     /\ chatParts' = [chatParts EXCEPT ![n] = IF complete THEN arrived \ {<<p.m, p.history, i>> : i \in {1, 2}} ELSE arrived]
     /\ chatPartsDone' = IF complete THEN [chatPartsDone EXCEPT ![n] = @ \union {<<p.m, p.history>>}] ELSE chatPartsDone
     /\ IF ~complete \/ (~p.history /\ p.m \in heard[n])
        THEN UNCHANGED <<kept, shown, heard>>
        ELSE /\ heard' = IF p.history THEN heard ELSE [heard EXCEPT ![n] = @ \union {p.m}]
             /\ IF p.history THEN Keep(n, <<p.m>>, AddChatHistory) ELSE Keep(n, <<p.m>>, AddChatMessage)
     /\ UNCHANGED <<inRoom, said, joins, switches, chatHistoryOff, owed, net>>

\* chatPartTimeout: parts that took too long are dropped.
DropParts(n) ==
  /\ chatParts[n] # {}
  /\ chatParts' = [chatParts EXCEPT ![n] = {}]
  /\ UNCHANGED <<inRoom, said, joins, switches, kept, chatHistoryOff, heard, chatPartsDone, shown, owed, net>>

\* /history at the host
Switch ==
  /\ switches < MaxSwitches /\ switches' = switches + 1
  /\ SetChatHistory(Host, chatHistoryOff[Host])
  /\ UNCHANGED <<inRoom, said, joins, chatSeen, heard, parts, shown, owed, net>>

SendPing(n) ==
  /\ n \in inRoom \ {Host}
  /\ net' = net \union {Ping(chatHistoryOff[Host], n)}
  /\ UNCHANGED <<inRoom, said, joins, switches, kept, chatHistoryOff, heard, parts, shown, owed>>

\* PacketPing: the setting is taken over before duplicates are sorted out.
ReceivePing(p) ==
  /\ p.type = "ping" /\ p.to \in inRoom /\ p.off # chatHistoryOff[p.to]
  /\ SetChatHistory(p.to, ~p.off)
  /\ UNCHANGED <<inRoom, said, joins, switches, chatSeen, heard, parts, shown, owed, net>>

Next ==
  \/ \E n \in Members :
       \/ Join(n) \/ Leave(n) \/ SendChatMessage(n) \/ DropParts(n) \/ SendPing(n)
       \/ \E to \in Members : SendChatHistory(n, to)
  \/ \E p \in net : ReceiveLive(p) \/ ReceiveHistory(p) \/ ReceivePart(p) \/ ReceivePing(p)
  \/ Switch

Spec == Init /\ [][Next]_vars

-----------------------------------------------------------------------------
(* Properties *)

\* The ring of every member holds no message twice, at most Limit, each known as seen.
TypeOK ==
  /\ inRoom \subseteq Members /\ said \in 0..MaxSaid /\ joins \in 0..MaxJoins /\ switches \in 0..MaxSwitches
  /\ \A n \in Members :
       /\ Len(chatLog[n]) <= Limit /\ IsInjective(chatLog[n])
       /\ ToSet(chatLog[n]) \subseteq chatSeen[n] /\ chatSeen[n] \subseteq 1..said
       /\ heard[n] \subseteq 1..said
       /\ chatParts[n] \subseteq Long \X BOOLEAN \X {1, 2} /\ chatPartsDone[n] \subseteq Long \X BOOLEAN
       /\ chatHistoryOff[n] => chatLog[n] = <<>>
  /\ owed \in [Members \X Members -> 0..2]

\* "every member sends its history, and sends it twice" (handleChatHistoryLocked), and live
\* messages come over several paths: however the copies interleave, also with a switch of the
\* history and a member that comes back, nothing is on a screen twice, as long as the room
\* keeps everything that was said.
ShownOnce == said <= Limit => \A n \in Members : \A m \in Said : shown[n][m] <= 1
=============================================================================
