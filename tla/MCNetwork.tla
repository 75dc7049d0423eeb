----------------------------- MODULE MCNetwork -----------------------------
(***************************************************************************)
(* Small instances of the conversations of origin-network that have to     *)
(* end: a ratcheted stream, the relay and its watchers, the handshake, the *)
(* framing of the three transports, the client's calls to the relay, and a *)
(* punched connection.  One of them runs in each behaviour, chosen at the  *)
(* start, and the variables of the others stay as their Init has them.     *)
(***************************************************************************)
EXTENDS Channel, Session, Framing, Mailbox, Punch

CONSTANTS Parts, None

VARIABLES
  part,
  online, tokens, relayPairs, relayConns, senders, byTarget, byClient, pc, owner,
  relayEvents, data, job, known, overlapped, leaked, dials, relayFrames

watchVars == <<online, tokens, relayPairs, relayConns, senders, byTarget, byClient, pc, owner,
               relayEvents, data, job, known, overlapped, leaked, dials, relayFrames>>

\* Relay: a watcher and its target on two connections, without forwarding.
Watch == INSTANCE Relay WITH
  Peers <- {"a", "b"}, Conns <- {"c1", "c2"}, None <- None,
  MaxForwardings <- 0, MaxTargets <- 1, MaxWatchers <- 1, MaxDials <- 4,
  MaxPairs <- 0, MaxFrames <- 0, pairs <- relayPairs, conns <- relayConns,
  events <- relayEvents, frames <- relayFrames

\* Framing: an empty frame, one that fits in a buffer and one that does not.
MCPayloads == {<<>>, <<0, 1>>, <<1, 1, 1>>}

\* Punch: a caller on the keeper's host without STUN, one behind a router that passes
\* everything, and one on the keeper's network whose datagrams are swallowed.
MCProfile ==
  [b |-> [host |-> TRUE,  net |-> "k", stun |-> FALSE, passes |-> {}],
   f |-> [host |-> FALSE, net |-> "z", stun |-> TRUE,  passes |-> {"in", "out"}],
   g |-> [host |-> FALSE, net |-> "k", stun |-> TRUE,  passes |-> {}]]

-----------------------------------------------------------------------------
netVars == <<part, vars, watchVars, sessionVars, framingVars, mailVars, punchVars>>

ChannelRuns == part = "channel" /\
  UNCHANGED <<part, watchVars, sessionVars, framingVars, mailVars, punchVars>>
WatchRuns == part = "watch" /\
  UNCHANGED <<part, vars, sessionVars, framingVars, mailVars, punchVars>>
SessionRuns == part = "session" /\
  UNCHANGED <<part, vars, watchVars, framingVars, mailVars, punchVars>>
FramingRuns == part = "framing" /\
  UNCHANGED <<part, vars, watchVars, sessionVars, mailVars, punchVars>>
MailRuns == part = "mailbox" /\
  UNCHANGED <<part, vars, watchVars, sessionVars, framingVars, punchVars>>
PunchRuns == part = "punch" /\
  UNCHANGED <<part, vars, watchVars, sessionVars, framingVars, mailVars>>

NetworkInit ==
  /\ part \in Parts
  /\ Init /\ Watch!Init /\ SessionInit /\ FramingInit /\ MailInit /\ PunchInit
  /\ part = "framing" \/ medium = "tcp"
  /\ part = "punch" \/ calm

NetworkNext ==
  \/ ChannelRuns /\ Next
  \/ WatchRuns /\ Watch!Next
  \/ SessionRuns /\ SessionNext
  \/ FramingRuns /\ FramingNext
  \/ MailRuns /\ MailNext
  \/ PunchRuns /\ PunchNext

NetworkSpec == NetworkInit /\ [][NetworkNext]_netVars

\* What the runtime keeps polling: the receivers of the stream, the relay's tasks,
\* the calls of a handshake (each await has a deadline or a peer that is polled), the
\* loops over recv_frame, the relay's loop and the client's reads, the keeper and the
\* callers.  Nobody has to send, to dial or to place a call.
\* The steps of a part that does not run are never taken.
NetworkFairness ==
  /\ \A p \in {Initiator, Responder} : WF_vars(part = "channel" /\ Receive(p))
  /\ \A c \in {"c1", "c2"} : WF_watchVars(part = "watch" /\ Watch!ServerStep(c))
  /\ WF_sessionVars(part = "session" /\ SessionStep)
  /\ \A e \in Ends2 :
       /\ WF_framingVars(part = "framing" /\ RecvFrame(e))
       /\ WF_framingVars(part = "framing" /\ EnsureStream(e))
       /\ WF_framingVars(part = "framing" /\ RecvLoop(e))
  /\ WF_mailVars(part = "mailbox" /\ ControlLoop)
  /\ \A t \in Tasks : WF_mailVars(part = "mailbox" /\ ClientReads(t))
  /\ WF_punchVars(part = "punch" /\ KeeperStep)
  /\ \A c \in Callers : WF_punchVars(part = "punch" /\ CallerStep(c))

NetworkFairSpec == NetworkSpec /\ NetworkFairness

-----------------------------------------------------------------------------
\* The push latency bound: a served watcher is eventually told that a target has
\* left, unless it leaves itself, the target returns, or one of them overlaps or
\* loses its AuthOk meanwhile (Relay!WatchersLearnOfDepartures).
WatchersLearnOfDepartures == Watch!WatchersLearnOfDepartures

\* Every conversation comes to its end: what is sent is opened, departures are told,
\* dialing gives up or succeeds, frames are received, calls and punches return.
ConversationsEnd ==
  /\ SentIsOpened /\ WatchersLearnOfDepartures /\ ConnectEnds
  /\ FramesAreReceived /\ CallsReturn /\ PunchedCallsEnd
=============================================================================
