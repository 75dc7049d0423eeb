------------------------------- MODULE Relay -------------------------------
(***************************************************************************)
(* The relay server of origin-network: one task per connection             *)
(* (relay_server.rs, handle_connection and control_loop) over the shared   *)
(* registries of RelayState (relay.rs), the presence registry and the map  *)
(* of outbound senders.                                                    *)
(*                                                                         *)
(* Each registry has a mutex of its own and a task holds one at a time, so *)
(* a step here is one critical section or one frame sent.  The registries  *)
(* are keyed by the peer's fingerprint and hold channel ends of a          *)
(* connection; a channel is named by the connection that reads it.         *)
(***************************************************************************)
EXTENDS Naturals, Sequences, FiniteSets

CONSTANTS
  Peers,           \* fingerprints the resolver knows and the eviction set does not hold
  Conns,           \* connections, reused when nothing refers to them any more
  None,            \* no peer / no connection / no pair
  MaxForwardings,  \* RelayState.max_forwardings
  MaxTargets,      \* MAX_SUBSCRIPTIONS_PER_CLIENT
  MaxWatchers,     \* MAX_SUBSCRIBERS_PER_TARGET
  MaxDials,        \* bound on connections that authenticate
  MaxPairs,        \* bound on forwarding pairs opened
  MaxFrames        \* bound on RelayData frames sent

ASSUME RelayAssumption ==
  /\ IsFiniteSet(Peers) /\ None \notin Peers /\ None \notin Conns
  /\ MaxForwardings \in Nat /\ MaxTargets \in Nat /\ MaxWatchers \in Nat
  /\ MaxDials \in Nat /\ MaxPairs \in Nat /\ MaxFrames \in Nat

VARIABLES
  online,    \* RelayState.online
  tokens,    \* RelayState.tokens: the peer the token of a connection stands for
  pairs,     \* RelayState.forwarding, by pair id (1 .. pairs opened so far)
  conns,     \* RelayServer.conns: the connection that gets a peer's relayed data
  senders,   \* PresenceRegistry.senders
  byTarget,  \* PresenceRegistry.by_target
  byClient,  \* PresenceRegistry.by_client
  pc,        \* where the task of each connection is
  owner,     \* the peer that authenticated on it
  events,    \* its presence channel
  data,      \* its outbound channel
  job,       \* the target its handler works on, and the pair when it relays data
  known,     \* history: what the last PresenceEvent sent on it said of a peer
  overlapped,  \* history: peers that had two connections at a time since they were last gone
  leaked,    \* history: peers whose AuthOk got lost since their last whole connection
  dials, frames  \* bounds

registry == <<online, tokens, pairs>>
presence == <<senders, byTarget, byClient>>
task     == <<owner, events, data, job, known>>
bounds   == <<dials, frames>>
history  == <<overlapped, leaked>>
vars     == <<registry, conns, presence, pc, task, history, bounds>>

\* The connection has passed AuthOk and runs its control loop: it drains the
\* presence channel, then the outbound channel, then waits for a frame.
Serving == {"presence", "data", "select", "replying", "forwarding"}
\* The receiving ends of both channels exist (the outbound one from "attached" on).
Open == Serving \cup {"announced", "attached", "tokened"}
\* Tear-down after the control loop.
Closing == {"ended", "detached", "deregistered"}
PC == {"closed", "registered"} \cup Open \cup Closing

Known == {"unknown", "online", "offline"}
Pair  == [from: Peers, to: Peers]
Job   == [peer: Peers, pair: Pair \cup {None}]

ASSUME NoneAssumption == None \notin Pair /\ None \notin Job

Event == [target: Peers, online: BOOLEAN]
Datum == [from: Peers, pair: Pair]

\* A task has a peer, a job and receiving ends where its code has them.
TaskShape ==
  \A c \in Conns : /\ pc[c] = "closed" <=> owner[c] = None
                   /\ job[c] # None <=> pc[c] \in {"replying", "forwarding"}
                   /\ pc[c] = "forwarding" => job[c].pair # None
                   /\ pc[c] \notin Open => events[c] = <<>> /\ data[c] = <<>>

TypeOK ==
  /\ online \subseteq Peers
  /\ tokens \in [Conns -> Peers \cup {None}]
  /\ pairs \in Seq(Pair \cup {None})
  /\ conns \in [Peers -> Conns \cup {None}]
  /\ senders \in [Peers -> Conns \cup {None}]
  /\ byTarget \in [Peers -> [Peers -> Conns \cup {None}]]
  /\ byClient \in [Peers -> SUBSET Peers]
  /\ pc \in [Conns -> PC]
  /\ owner \in [Conns -> Peers \cup {None}]
  /\ events \in [Conns -> Seq(Event)]
  /\ data \in [Conns -> Seq(Datum)]
  /\ job \in [Conns -> Job \cup {None}]
  /\ known \in [Conns -> [Peers -> Known]]
  /\ overlapped \subseteq Peers /\ leaked \subseteq Peers
  /\ dials \in Nat /\ frames \in Nat
  /\ TaskShape

Nobody == [f \in Peers |-> None]
Nothing == [f \in Peers |-> "unknown"]

Init ==
  /\ online = {} /\ tokens = [c \in Conns |-> None] /\ pairs = <<>>
  /\ conns = Nobody
  /\ senders = Nobody
  /\ byTarget = [t \in Peers |-> Nobody]
  /\ byClient = [f \in Peers |-> {}]
  /\ pc = [c \in Conns |-> "closed"]
  /\ owner = [c \in Conns |-> None]
  /\ events = [c \in Conns |-> <<>>] /\ data = [c \in Conns |-> <<>>]
  /\ job = [c \in Conns |-> None]
  /\ known = [c \in Conns |-> Nothing]
  /\ overlapped = {} /\ leaked = {}
  /\ dials = 0 /\ frames = 0

-----------------------------------------------------------------------------
(* Helpers *)

Goto(c, l) == pc' = [pc EXCEPT ![c] = l]

\* Nothing holds an end of a channel of c: the slot stands for a new connection.
Fresh(c) ==
  /\ pc[c] = "closed" /\ tokens[c] = None
  /\ \A f \in Peers : conns[f] # c /\ senders[f] # c /\ \A t \in Peers : byTarget[t][f] # c

\* The connection ends: the receiving ends of its channels are dropped.
HangUp(c) ==
  /\ events' = [events EXCEPT ![c] = <<>>]
  /\ data' = [data EXCEPT ![c] = <<>>]
  /\ job' = [job EXCEPT ![c] = None]
  /\ known' = [known EXCEPT ![c] = Nothing]

\* The task of c ends: a peer whose last connection is gone overlaps no more.
Leave(c) ==
  /\ owner' = [owner EXCEPT ![c] = None]
  /\ overlapped' = {f \in overlapped : \E d \in Conns \ {c} : owner[d] = f}

\* Connections whose presence channel is registered for t and still has a receiver.
Watching(t) == {c \in Conns : pc[c] \in Open /\ \E f \in Peers : byTarget[t][f] = c}

\* Subscribers of t whose channel is closed.
Dead(t) == {f \in Peers : byTarget[t][f] # None /\ pc[byTarget[t][f]] \notin Open}

\* PresenceRegistry::notify: every live subscriber of t gets the event ...
Notify(t, on) ==
  events' = [c \in Conns |-> IF c \in Watching(t)
                               THEN Append(events[c], [target |-> t, online |-> on])
                               ELSE events[c]]

\* Mutant: notify forgets the per-client set of a dead subscriber.
PrunedForgetful(t) ==
  [targets |-> [byTarget EXCEPT ![t] = [f \in Peers |-> IF f \in Dead(t) THEN None ELSE @[f]]],
   clients |-> byClient]

\* ... and the dead ones are pruned from both maps.
Pruned(t) ==
  [targets |-> [byTarget EXCEPT ![t] = [f \in Peers |-> IF f \in Dead(t) THEN None ELSE @[f]]],
   clients |-> [f \in Peers |-> IF f \in Dead(t) THEN byClient[f] \ {t} ELSE byClient[f]]]

Watchers(t) == {f \in Peers : byTarget[t][f] # None}

LivePairs == {i \in 1..Len(pairs) : pairs[i] # None}

-----------------------------------------------------------------------------
(* handle_connection: from the handshake to AuthOk *)

\* authenticate succeeds and RelayState::register marks the peer online.  A
\* connection of a peer whose earlier one is not torn down yet is not refused.
Register(c, f) ==
  /\ Fresh(c)
  /\ dials < MaxDials /\ dials' = dials + 1
  /\ overlapped' = IF \E d \in Conns : owner[d] = f THEN overlapped \cup {f} ELSE overlapped
  /\ online' = online \cup {f}
  /\ owner' = [owner EXCEPT ![c] = f]
  /\ Goto(c, "registered")
  /\ UNCHANGED <<tokens, pairs, conns, presence, events, data, job, known, leaked, frames>>

\* register_client and notify(online) under one lock.
Announce(c) ==
  LET f == owner[c] IN
  /\ pc[c] = "registered"
  /\ senders' = [senders EXCEPT ![f] = c]
  /\ Notify(f, TRUE)
  /\ byTarget' = Pruned(f).targets
  /\ byClient' = Pruned(f).clients
  /\ Goto(c, "announced")
  /\ UNCHANGED <<registry, conns, owner, data, job, known, history, bounds>>

Attach(c) ==
  /\ pc[c] = "announced"
  /\ conns' = [conns EXCEPT ![owner[c]] = c]
  /\ Goto(c, "attached")
  /\ UNCHANGED <<registry, presence, task, history, bounds>>

IssueToken(c) ==
  /\ pc[c] = "attached"
  /\ tokens' = [tokens EXCEPT ![c] = owner[c]]
  /\ Goto(c, "tokened")
  /\ UNCHANGED <<online, pairs, conns, presence, task, history, bounds>>

AuthOkSent(c) ==
  /\ pc[c] = "tokened"
  /\ Goto(c, "presence")
  /\ UNCHANGED <<registry, conns, presence, task, history, bounds>>

\* AuthOk cannot be sent: handle_connection returns with `?`, past the tear-down.
AuthOkLost(c) ==
  /\ pc[c] = "tokened"
  /\ leaked' = leaked \cup {owner[c]}
  /\ Leave(c)
  /\ HangUp(c)
  /\ Goto(c, "closed")
  /\ UNCHANGED <<registry, conns, presence, bounds>>

-----------------------------------------------------------------------------
(* control_loop: pushing what other tasks have queued *)

PushPresence(c) ==
  LET e == Head(events[c]) IN
  /\ pc[c] = "presence" /\ events[c] # <<>>
  /\ known' = [known EXCEPT ![c][e.target] = IF e.online THEN "online" ELSE "offline"]
  /\ events' = [events EXCEPT ![c] = Tail(@)]
  /\ UNCHANGED <<registry, conns, presence, pc, owner, data, job, history, bounds>>

PresenceDrained(c) ==
  /\ pc[c] = "presence" /\ events[c] = <<>>
  /\ Goto(c, "data")
  /\ UNCHANGED <<registry, conns, presence, task, history, bounds>>

\* The drain of the outbound channel, or the `select!` arm that waits on it.
PushData(c) ==
  /\ pc[c] \in {"data", "select"} /\ data[c] # <<>>
  /\ data' = [data EXCEPT ![c] = Tail(@)]
  /\ Goto(c, IF pc[c] = "select" THEN "presence" ELSE "data")
  /\ UNCHANGED <<registry, conns, presence, owner, events, job, known, history, bounds>>

DataDrained(c) ==
  /\ pc[c] = "data" /\ data[c] = <<>>
  /\ Goto(c, "select")
  /\ UNCHANGED <<registry, conns, presence, task, history, bounds>>

\* PRESENCE_PUSH_LATENCY passes, or a frame arrives whose handler changes no
\* state (Probe, a refused or unknown frame).
Idle(c) ==
  /\ pc[c] = "select"
  /\ Goto(c, "presence")
  /\ UNCHANGED <<registry, conns, presence, task, history, bounds>>

-----------------------------------------------------------------------------
(* control_loop: frames from the client *)

\* SessionOpen: both ends registered and room for one more pair.
OpenPair(c, t) ==
  /\ pc[c] = "select" /\ Len(pairs) < MaxPairs
  /\ owner[c] \in online /\ t \in online
  /\ Cardinality(LivePairs) < MaxForwardings
  /\ pairs' = Append(pairs, [from |-> owner[c], to |-> t])
  /\ Goto(c, "presence")
  /\ UNCHANGED <<online, tokens, conns, presence, task, history, bounds>>

\* SessionClose: any client may close any pair.
ClosePair(c, i) ==
  /\ pc[c] = "select" /\ i \in LivePairs
  /\ pairs' = [pairs EXCEPT ![i] = None]
  /\ Goto(c, "presence")
  /\ UNCHANGED <<online, tokens, conns, presence, task, history, bounds>>

\* PresenceRegistry::subscribe; a client over its cap, a full target or a client
\* whose sender is gone gets an error (Idle).
Subscribe(c, t) ==
  LET f == owner[c] IN
  /\ pc[c] = "select"
  /\ Cardinality(byClient[f]) < MaxTargets \/ t \in byClient[f]
  /\ Cardinality(Watchers(t)) < MaxWatchers \/ f \in Watchers(t)
  /\ senders[f] # None
  /\ byTarget' = [byTarget EXCEPT ![t][f] = senders[f]]
  /\ byClient' = [byClient EXCEPT ![f] = @ \cup {t}]
  /\ job' = [job EXCEPT ![c] = [peer |-> t, pair |-> None]]
  /\ Goto(c, "replying")
  /\ UNCHANGED <<registry, conns, senders, owner, events, data, known, history, bounds>>

\* Mutant: the reply leaves out the current state.
SubscribeReplySilent(c) ==
  /\ pc[c] = "replying"
  /\ job' = [job EXCEPT ![c] = None]
  /\ Goto(c, "presence")
  /\ UNCHANGED <<registry, conns, presence, owner, events, data, known, history, bounds>>

\* The registry's lock is released; the reply carries is_online(target) as it is now.
SubscribeReply(c) ==
  /\ pc[c] = "replying"
  /\ known' = [known EXCEPT ![c][job[c].peer] = IF job[c].peer \in online THEN "online" ELSE "offline"]
  /\ job' = [job EXCEPT ![c] = None]
  /\ Goto(c, "presence")
  /\ UNCHANGED <<registry, conns, presence, owner, events, data, history, bounds>>

\* The end of pair p that peer f talks to.
OtherEnd(p, f) == IF p.from = f THEN p.to ELSE p.from

\* RelayData: look the pair up; the sender must be one of its ends.
RelayLookup(c, i) ==
  LET f == owner[c] IN
  /\ pc[c] = "select" /\ frames < MaxFrames
  /\ i \in LivePairs /\ f \in {pairs[i].from, pairs[i].to}
  /\ frames' = frames + 1
  /\ job' = [job EXCEPT ![c] = [peer |-> OtherEnd(pairs[i], f), pair |-> pairs[i]]]
  /\ Goto(c, "forwarding")
  /\ UNCHANGED <<registry, conns, presence, owner, events, data, known, history, dials>>

\* Hand the frame to the other end's task.  A missing entry is reported to the
\* sender; a frame for an entry whose receiver is gone is dropped.
RelayForward(c) ==
  LET d == conns[job[c].peer] IN
  /\ pc[c] = "forwarding"
  /\ data' = IF d # None /\ pc[d] \in Open
               THEN [data EXCEPT ![d] = Append(@, [from |-> owner[c], pair |-> job[c].pair])]
               ELSE data
  /\ job' = [job EXCEPT ![c] = None]
  /\ Goto(c, "presence")
  /\ UNCHANGED <<registry, conns, presence, owner, events, known, history, bounds>>

\* The client hangs up or a frame cannot be sent: control_loop returns.
\* Nothing can fail between the lookup of a pair and the hand-over.
Disconnect(c) ==
  /\ pc[c] \in Serving \ {"forwarding"}
  /\ HangUp(c)
  /\ Goto(c, "ended")
  /\ UNCHANGED <<registry, conns, presence, owner, history, bounds>>

-----------------------------------------------------------------------------
(* handle_connection: tear-down, by fingerprint *)

Detach(c) ==
  /\ pc[c] = "ended"
  /\ conns' = [conns EXCEPT ![owner[c]] = None]
  /\ Goto(c, "detached")
  /\ UNCHANGED <<registry, presence, task, history, bounds>>

\* Mutant: the forwardings of the peer survive it.
DeregisterKeepsPairs(c) ==
  LET f == owner[c] IN
  /\ pc[c] = "detached"
  /\ online' = online \ {f}
  /\ tokens' = [d \in Conns |-> IF tokens[d] = f THEN None ELSE tokens[d]]
  /\ Goto(c, "deregistered")
  /\ UNCHANGED <<pairs, conns, presence, task, history, bounds>>

\* RelayState::deregister: the registration, the tokens and the pairs of the peer.
Deregister(c) ==
  LET f == owner[c] IN
  /\ pc[c] = "detached"
  /\ online' = online \ {f}
  /\ tokens' = [d \in Conns |-> IF tokens[d] = f THEN None ELSE tokens[d]]
  /\ pairs' = [i \in 1..Len(pairs) |->
                 IF i \in LivePairs /\ f \in {pairs[i].from, pairs[i].to} THEN None ELSE pairs[i]]
  /\ Goto(c, "deregistered")
  /\ UNCHANGED <<conns, presence, task, history, bounds>>

\* notify(offline), then remove_client, under one lock.
Farewell(c) ==
  LET f == owner[c]
      left == Pruned(f)
  IN
  /\ pc[c] = "deregistered"
  /\ Notify(f, FALSE)
  /\ senders' = [senders EXCEPT ![f] = None]
  /\ byTarget' = [t \in Peers |-> IF t \in left.clients[f]
                                    THEN [left.targets[t] EXCEPT ![f] = None]
                                    ELSE left.targets[t]]
  /\ byClient' = [left.clients EXCEPT ![f] = {}]
  /\ leaked' = IF f \in overlapped THEN leaked ELSE leaked \ {f}
  /\ Leave(c)
  /\ Goto(c, "closed")
  /\ UNCHANGED <<registry, conns, data, job, known, bounds>>

-----------------------------------------------------------------------------

\* Steps of the server on its own behalf.
ServerStep(c) ==
  \/ Announce(c) \/ Attach(c) \/ IssueToken(c) \/ AuthOkSent(c)
  \/ PushPresence(c) \/ PresenceDrained(c) \/ PushData(c) \/ DataDrained(c) \/ Idle(c)
  \/ SubscribeReply(c) \/ RelayForward(c)
  \/ Detach(c) \/ Deregister(c) \/ Farewell(c)

\* Frames a client sends.
ClientFrame(c) ==
  \/ \E t \in Peers : OpenPair(c, t) \/ Subscribe(c, t)
  \/ \E i \in 1..Len(pairs) : ClosePair(c, i) \/ RelayLookup(c, i)

Next ==
  \E c \in Conns :
    \/ \E f \in Peers : Register(c, f)
    \/ ServerStep(c) \/ ClientFrame(c)
    \/ AuthOkLost(c) \/ Disconnect(c)

Spec == Init /\ [][Next]_vars

\* Every connection has a tokio task of its own, which the runtime keeps polling.
Fairness == \A c \in Conns : WF_vars(ServerStep(c))

FairSpec == Spec /\ Fairness

-----------------------------------------------------------------------------
(* Properties *)

\* open_pair and deregister: a forwarding pair joins registered peers only, within
\* the cap, even when connections of one peer overlap.
PairsJoinOnlinePeers ==
  /\ Cardinality(LivePairs) <= MaxForwardings
  /\ \A i \in LivePairs : pairs[i].from \in online /\ pairs[i].to \in online

\* subscribe, notify and remove_client keep the two maps of the presence registry
\* converse to each other and within their caps.
SubscriptionsMirrored ==
  \A f, t \in Peers :
    /\ byTarget[t][f] # None <=> t \in byClient[f]
    /\ Cardinality(byClient[f]) <= MaxTargets /\ Cardinality(Watchers(t)) <= MaxWatchers

\* control_loop "the sender must be one of the pair's two endpoints": what waits in
\* a connection's outbound channel came through a pair whose two ends are the sender
\* and the peer of that connection, however connections come and go between the
\* lookup and the hand-over.
DataStaysInItsPair ==
  \A c \in Conns : \A i \in 1..Len(data[c]) :
    {data[c][i].from, owner[c]} = {data[c][i].pair.from, data[c][i].pair.to}

\* Forwarding pairs are sound: they join registered peers, within the cap, and what
\* waits in a channel came from the other end of its pair.
PairsAreSound == PairsJoinOnlinePeers /\ DataStaysInItsPair

\* A served peer that uses one connection at a time can be reached: all four
\* registries hold that connection, whatever an earlier one left behind.
ServedPeersAreReachable ==
  \A c \in Conns : pc[c] \in Serving /\ owner[c] \notin overlapped =>
    /\ owner[c] \in online /\ tokens[c] = owner[c]
    /\ conns[owner[c]] = c /\ senders[owner[c]] = c

\* Tear-down leaves nothing: a peer with no connection is in no registry, even when
\* its connections overlapped; only a lost AuthOk leaves traces, and the peer's next
\* whole connection takes them away.
DepartedPeersAreGone ==
  \A f \in Peers \ leaked : (\A c \in Conns : owner[c] # f) =>
    /\ f \notin online /\ conns[f] = None /\ senders[f] = None
    /\ \A c \in Conns : tokens[c] # f
    /\ byClient[f] = {}
    /\ \A i \in LivePairs : f \notin {pairs[i].from, pairs[i].to}

\* "The subscriber never waits for the next transition to learn the current
\* situation": once its queue is empty and the target is not being torn down, what a
\* watcher was told last is what the registry says.
WatchersAreUpToDate ==
  \A c \in Conns : \A t \in Peers \ (overlapped \cup leaked) :
    LET f == owner[c] IN
    /\ pc[c] \in Serving \ {"replying"} /\ f \notin overlapped
    /\ byTarget[t][f] = c /\ events[c] = <<>>
    /\ \A d \in Conns : owner[d] = t => pc[d] \in Open
    => known[c][t] = IF t \in online THEN "online" ELSE "offline"

\* Presence is true: served peers are reachable, departed ones are gone, and
\* watchers were told so.
PresenceIsTrue == ServedPeersAreReachable /\ DepartedPeersAreGone /\ WatchersAreUpToDate

\* A served watcher of t that has not been told that t has left.
Untold(c, t) ==
  /\ pc[c] \in Serving /\ t \notin online /\ byTarget[t][owner[c]] = c
  /\ known[c][t] # "offline"
  /\ t \notin leaked /\ {t, owner[c]} \cap overlapped = {}

\* The push latency bound: no departure stays untold.  A served watcher is eventually
\* told that a target has left, unless it leaves itself, the target returns, or one of
\* them overlaps or loses its AuthOk meanwhile.
WatchersLearnOfDepartures == \A c \in Conns : \A t \in Peers : []<>~Untold(c, t)

=============================================================================
