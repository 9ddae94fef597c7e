---- MODULE MCMembers ----
(* What the members of a room do among themselves, on small instances, one
   component at a time. *)
EXTENDS Naturals, Sequences

CONSTANT NoKey

CONSTANTS
  h_Nodes, h_FirstHost, h_Relay, h_MaxEpoch, h_MaxLeaves, h_MaxLosses,
  a_Joiners, a_Limit, a_MaxPeers, a_MaxSessions, a_MaxAttempts, a_MaxServers, a_MaxSwitches,
  t_Members, t_Founders, t_Host, t_Long, t_Limit, t_MaxSaid, t_MaxJoins, t_MaxSwitches

VARIABLE part   \* the component whose steps are taken; the others stay as they start

VARIABLES h_in, h_Peers, h_memberKeys, h_departed, h_HostID, h_IsHost, h_ring, h_timers,
  h_rekeyDue, h_rekey, h_net, h_leaving, h_batches, h_relayHost, h_losses
VARIABLES a_relayed, a_IsLocked, a_KnockToJoin, a_Peers, a_sessions, a_servers, a_calls,
  a_requests, a_answering, a_net, a_state, a_attempt, a_auth, a_allowed, a_forgotten,
  a_members, a_returned, a_switches
VARIABLES t_inRoom, t_said, t_joins, t_switches, t_chatLog, t_chatSeen, t_chatHistoryOff, t_heard,
  t_chatParts, t_chatPartsDone, t_shown, t_owed, t_net
VARIABLES f_next, f_relay, f_direct, f_incoming, f_verifying, f_refused, f_current, f_pending,
  f_order, f_media, f_offered, f_lost, f_expired
VARIABLES g_phase, g_stay, g_ring, g_timers, g_hostKnown, g_peers, g_ident, g_removed, g_session,
  g_rot, g_due, g_spawned, g_net, g_given
VARIABLES p_port, p_open, p_holes, p_learnt, p_announcing, p_signals, p_endpoint, p_addr, p_via,
  p_recent, p_late

H == INSTANCE HostHandover WITH
  Nodes <- h_Nodes, FirstHost <- h_FirstHost, Relay <- h_Relay, MaxEpoch <- h_MaxEpoch,
  MaxLeaves <- h_MaxLeaves, MaxLosses <- h_MaxLosses, in <- h_in, Peers <- h_Peers,
  memberKeys <- h_memberKeys, departed <- h_departed, HostID <- h_HostID,
  IsHost <- h_IsHost, ring <- h_ring, timers <- h_timers, rekeyDue <- h_rekeyDue,
  rekey <- h_rekey, net <- h_net, leaving <- h_leaving, batches <- h_batches,
  relayHost <- h_relayHost, losses <- h_losses
A == INSTANCE Admission WITH
  Joiners <- a_Joiners, Limit <- a_Limit, MaxPeers <- a_MaxPeers, MaxSessions <- a_MaxSessions,
  MaxAttempts <- a_MaxAttempts, MaxServers <- a_MaxServers, MaxSwitches <- a_MaxSwitches,
  relayed <- a_relayed, IsLocked <- a_IsLocked, KnockToJoin <- a_KnockToJoin,
  Peers <- a_Peers, sessions <- a_sessions, servers <- a_servers, calls <- a_calls,
  requests <- a_requests, answering <- a_answering, net <- a_net, state <- a_state,
  attempt <- a_attempt, auth <- a_auth, allowed <- a_allowed, forgotten <- a_forgotten,
  members <- a_members, returned <- a_returned, switches <- a_switches
T == INSTANCE ChatHistory WITH
  Members <- t_Members, Founders <- t_Founders, Host <- t_Host, Long <- t_Long,
  Limit <- t_Limit, MaxSaid <- t_MaxSaid, MaxJoins <- t_MaxJoins,
  MaxSwitches <- t_MaxSwitches, inRoom <- t_inRoom, said <- t_said, joins <- t_joins,
  switches <- t_switches, chatLog <- t_chatLog, chatSeen <- t_chatSeen,
  chatHistoryOff <- t_chatHistoryOff, heard <- t_heard, chatParts <- t_chatParts,
  chatPartsDone <- t_chatPartsDone, shown <- t_shown, owed <- t_owed, net <- t_net
F == INSTANCE FileTransfer WITH
  Files <- {"f", "g"}, Media <- {"g"}, Large <- {"f"}, Slots <- 1, MaxKept <- 1,
  MaxOffers <- 2, next <- f_next, relay <- f_relay, direct <- f_direct,
  incoming <- f_incoming, verifying <- f_verifying, refused <- f_refused,
  current <- f_current, pending <- f_pending, order <- f_order, media <- f_media,
  offered <- f_offered, lost <- f_lost, expired <- f_expired
G == INSTANCE GroupRekey WITH
  Host <- "h", Members <- {"m"}, Initial <- {"m"}, MaxEpoch <- 2, MaxTries <- 2,
  MaxStays <- 1, Lapses <- {"h", "m"} \X (1 .. 2), phase <- g_phase, stay <- g_stay,
  ring <- g_ring, timers <- g_timers, hostKnown <- g_hostKnown, peers <- g_peers,
  ident <- g_ident, removed <- g_removed, session <- g_session, rot <- g_rot,
  due <- g_due, spawned <- g_spawned, net <- g_net, given <- g_given
P == INSTANCE PeerPath WITH
  Preserving <- FALSE, Talking <- TRUE, MaxHops <- 1, MaxLate <- 1, port <- p_port,
  open <- p_open, holes <- p_holes, learnt <- p_learnt, announcing <- p_announcing,
  signals <- p_signals, endpoint <- p_endpoint, addr <- p_addr, via <- p_via,
  recent <- p_recent, late <- p_late

\* What the components assume of their parameters
ASSUME MCMembersAssumption ==
  /\ H!HostHandoverAssumption
  /\ A!AdmissionAssumption
  /\ T!ChatHistoryAssumption
  /\ G!GroupRekeyAssumption
  /\ G!NoKeyAssumption

hVars ==
  <<h_in, h_Peers, h_memberKeys, h_departed, h_HostID, h_IsHost, h_ring, h_timers,
    h_rekeyDue, h_rekey, h_net, h_leaving, h_batches, h_relayHost, h_losses>>
aVars ==
  <<a_relayed, a_IsLocked, a_KnockToJoin, a_Peers, a_sessions, a_servers, a_calls,
    a_requests, a_answering, a_net, a_state, a_attempt, a_auth, a_allowed, a_forgotten,
    a_members, a_returned, a_switches>>
tVars ==
  <<t_inRoom, t_said, t_joins, t_switches, t_chatLog, t_chatSeen, t_chatHistoryOff,
    t_heard, t_chatParts, t_chatPartsDone, t_shown, t_owed, t_net>>
fVars ==
  <<f_next, f_relay, f_direct, f_incoming, f_verifying, f_refused, f_current, f_pending,
    f_order, f_media, f_offered, f_lost, f_expired>>
gVars ==
  <<g_phase, g_stay, g_ring, g_timers, g_hostKnown, g_peers, g_ident, g_removed,
    g_session, g_rot, g_due, g_spawned, g_net, g_given>>
pVars ==
  <<p_port, p_open, p_holes, p_learnt, p_announcing, p_signals, p_endpoint, p_addr, p_via,
    p_recent, p_late>>

all == <<part, hVars, aVars, tVars, fVars, gVars, pVars>>

Init ==
  /\ part \in {"host", "door", "chat", "files", "keys", "path"}
  /\ H!Init /\ A!Init /\ T!Init /\ F!Init
  /\ G!Init /\ P!Init
  /\ part = "door" \/ (~a_relayed /\ ~a_KnockToJoin)
  /\ part = "path" \/ p_via["a"]

Others(p) ==
  /\ part = p /\ UNCHANGED part
  /\ p = "host" \/ UNCHANGED hVars
  /\ p = "door" \/ UNCHANGED aVars
  /\ p = "chat" \/ UNCHANGED tVars
  /\ p = "files" \/ UNCHANGED fVars
  /\ p = "keys" \/ UNCHANGED gVars
  /\ p = "path" \/ UNCHANGED pVars

Next ==
  \/ Others("host") /\ H!Next
  \/ Others("door") /\ A!Next
  \/ Others("chat") /\ T!Next
  \/ Others("files") /\ F!Next
  \/ Others("keys") /\ G!Next
  \/ Others("path") /\ P!Next /\ p_port'["b"] = 1   \* it is a that hops: b is like it

\* The fairness of each component
Fairness ==
  /\ WF_(fVars)(part = "files" /\ F!SendPacket)
  /\ WF_(fVars)(part = "files" /\ F!ReceiveRelayed)
  /\ WF_(fVars)(part = "files" /\ F!Offer)
  /\ WF_(gVars)(part = "keys" /\ G!RotateOnTimer)
  /\ WF_(gVars)(part = "keys" /\ G!RotateOnRemoval)
  /\ WF_(gVars)(part = "keys" /\ G!RekeyAttempt)
  /\ WF_(gVars)(part = "keys" /\ G!FinishRotation)
  /\ WF_(gVars)(part = "keys" /\ G!PromoteStaged("m"))
  /\ WF_(gVars)(part = "keys" /\ G!AskForKey("m"))
  /\ WF_(gVars)(part = "keys" /\ G!AnswerKeyRequest("m"))
  /\ WF_(gVars)(part = "keys" /\ G!InstallKeyGrant("m"))
  /\ \A x \in P!Members: WF_(pVars)(part = "path" /\ P!Ping(x))
  /\ \A x \in P!Members: WF_(pVars)(part = "path" /\ P!Relay(x))
  /\ \A x \in P!Members: WF_(pVars)(part = "path" /\ P!punchPeer(x))
  /\ \A x \in P!Members: WF_(pVars)(part = "path" /\ P!Forget(x))
  /\ \A x \in P!Members: WF_(pVars)(part = "path" /\ P!Signals(x))

Spec == Init /\ [][Next]_all /\ Fairness

-----------------------------------------------------------------------------
\* Every component is in a state the code can be in.
TypeOK ==
  /\ part = "host" => H!TypeOK
  /\ part = "door" => A!TypeOK
  /\ part = "chat" => T!TypeOK
  /\ part = "files" => F!TypeOK
  /\ part = "keys" => G!TypeOK
  /\ part = "path" => P!TypeOK

\* Whoever has heard the relay out holds its host for the host.
HostsAgree == part = "host" => H!HostsAgree

\* A host on the LAN never lets in more members than the room holds, nor lists more than any room
\* does when members it dropped come back, and nobody gets the key whom the user did not let in
\* while knocking is on.
DoorIsKept ==
  /\ part = "door" => A!RoomFits
  /\ part = "door" => A!OnlyTheAllowedGetIn

\* No joiner waits for a decision the user is not asked for.
KnockersAreAsked == part = "door" => A!KnockersAreAsked

\* No message is on a screen twice.
ShownOnce == part = "chat" => T!ShownOnce

\* A file that was sent is offered, or refused in the log, unless a packet of it was lost on the
\* relay's path or its transfer dropped for its age.
EveryFileIsOffered == part = "files" => F!EveryFileIsOffered

\* A member that missed every rekey reads the host again, as long as both still know each
\* other, and after the last hop the members end up with a direct path.
MembersRecover ==
  /\ part = "keys" => G!TrackedMembersRecover
  /\ part = "path" => P!PathRecovers
====
