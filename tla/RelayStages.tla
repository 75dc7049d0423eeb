----------------------------- MODULE RelayStages -----------------------------
(***************************************************************************)
(* Types of the relay, what each of its steps does entry by entry, and     *)
(* what the steps keep of a connection: whose end each channel is, which   *)
(* registry holds a peer at which stage of its connection, that every      *)
(* entry has a connection that will remove it, and which events a          *)
(* connection may hold.                                                    *)
(***************************************************************************)
EXTENDS Relay, TLAPS

-----------------------------------------------------------------------------
(* Channel ends belong to the peer they are registered for. *)

\* An entry of one of the three maps whose channel still has a receiver is the
\* connection of the peer it is entered under.
EndsOwned ==
  \A f \in Peers :
    /\ conns[f] # None /\ pc[conns[f]] \in Open => owner[conns[f]] = f
    /\ senders[f] # None /\ pc[senders[f]] \in Open => owner[senders[f]] = f
    /\ \A t \in Peers :
         byTarget[t][f] # None /\ pc[byTarget[t][f]] \in Open => owner[byTarget[t][f]] = f

\* A connection is entered nowhere before its task gets there.
NotYetEntered ==
  \A c \in Conns, f \in Peers :
    /\ pc[c] \in {"registered", "announced"} => conns[f] # c
    /\ pc[c] = "registered" => senders[f] # c /\ \A t \in Peers : byTarget[t][f] # c

\* A frame between lookup and hand-over is for the other end of its pair.
JobsFit ==
  \A c \in Conns : pc[c] = "forwarding" =>
    {owner[c], job[c].peer} = {job[c].pair.from, job[c].pair.to}

PairInv == EndsOwned /\ NotYetEntered /\ JobsFit /\ PairsAreSound

\* From Attach to Detach, from IssueToken to Deregister, from Announce to Farewell.
Attached  == (Open \ {"announced"}) \cup {"ended"}
Tokened   == {"tokened"} \cup Serving \cup {"ended", "detached"}
Announced == Open \cup Closing

-----------------------------------------------------------------------------
(* Which registry holds a peer at which stage of its connection. *)

\* A peer that does not overlap has one connection, one that does has some.
OneConnection ==
  /\ \A c, d \in Conns : owner[c] = owner[d] /\ owner[c] \in Peers \ overlapped => c = d
  /\ \A f \in Peers : f \in overlapped => \E c \in Conns : owner[c] = f

Staged ==
  \A c \in Conns : owner[c] \in Peers \ overlapped =>
    /\ pc[c] # "deregistered" => owner[c] \in online
    /\ pc[c] \in Announced => senders[owner[c]] = c
    /\ pc[c] \in Attached => conns[owner[c]] = c
    /\ pc[c] \in Tokened => tokens[c] = owner[c]
    /\ pc[c] \in {"detached", "deregistered"} => conns[owner[c]] = None
    /\ pc[c] = "deregistered" =>
         owner[c] \notin online /\ \A d \in Conns : tokens[d] # owner[c]

\* Unless an AuthOk was lost, every entry has a connection that will remove it: the
\* registration,
RootedOnline ==
  \A f \in Peers \ leaked :
    f \in online => \E c \in Conns : owner[c] = f /\ pc[c] # "deregistered"

\* the channel ends and tokens,
RootedEntries ==
  \A f \in Peers \ leaked :
    /\ conns[f] # None => owner[conns[f]] = f /\ pc[conns[f]] \in Attached
    /\ senders[f] # None => owner[senders[f]] = f /\ pc[senders[f]] \in Announced
    /\ \A c \in Conns : tokens[c] = f => owner[c] = f /\ pc[c] \in Tokened

\* and the subscriptions.
RootedClients ==
  \A f \in Peers \ leaked :
    byClient[f] # {} => \E c \in Conns : owner[c] = f /\ pc[c] \in Serving \cup Closing

Rooted == RootedOnline /\ RootedEntries /\ RootedClients

StageInv == OneConnection /\ Staged /\ Rooted

\* Events are only about what their connection watches, and before AuthOk it
\* watches nothing.
EventsWatched ==
  \A c \in Conns : pc[c] \in Open /\ owner[c] \notin overlapped =>
    /\ \A i \in 1..Len(events[c]) : byTarget[events[c][i].target][owner[c]] = c
    /\ pc[c] \notin Serving => \A t \in Peers : byTarget[t][owner[c]] # c

-----------------------------------------------------------------------------
(* Types *)

\* The rest of a queue is the queue from its second place on.
LEMMA TailShifts ==
  ASSUME NEW S, NEW q \in Seq(S), q # <<>>
  PROVE  \A i \in 1..Len(Tail(q)) : i + 1 \in 1..Len(q) /\ Tail(q)[i] = q[i + 1]
OBVIOUS

\* What notify leaves of the two maps, entry by entry.
LEMMA PrunedEntries ==
  ASSUME TypeOK, NEW t \in Peers
  PROVE  /\ Pruned(t).targets \in [Peers -> [Peers -> Conns \cup {None}]]
         /\ Pruned(t).clients \in [Peers -> SUBSET Peers]
         /\ \A s, f \in Peers : Pruned(t).targets[s][f] =
              IF s = t /\ f \in Dead(t) THEN None ELSE byTarget[s][f]
         /\ \A f \in Peers : Pruned(t).clients[f] =
              IF f \in Dead(t) THEN byClient[f] \ {t} ELSE byClient[f]
BY DEF Pruned, TypeOK

\* notify, queue by queue: a live subscriber's grows by one event.
Notified(t, on) ==
  \A d \in Conns : events'[d] = IF d \in Watching(t)
                                  THEN Append(events[d], [target |-> t, online |-> on])
                                  ELSE events[d]

\* This is what Notify does.
LEMMA NotifyQueues ==
  ASSUME TypeOK, NEW t \in Peers, NEW on \in BOOLEAN, Notify(t, on)
  PROVE  /\ events' \in [Conns -> Seq(Event)]
         /\ Notified(t, on)
<1>1. [target |-> t, online |-> on] \in Event
  BY Zenon DEF Event
<1> QED
  BY <1>1 DEF Notify, Notified, TypeOK

\* The task of c goes on to l, the others stay where they are.
Moved(c, l) == pc'[c] = l /\ \A d \in Conns \ {c} : pc'[d] = pc[d]

\* Leave, entry by entry.
Left(c) ==
  /\ owner'[c] = None /\ \A d \in Conns \ {c} : owner'[d] = owner[d]
  /\ \A g \in Peers : g \in overlapped' <=>
       g \in overlapped /\ \E d \in Conns \ {c} : owner[d] = g

\* register_client and notify, entry by entry.
AnnounceEffect(c, f) ==
  /\ f = owner[c] /\ f \in Peers /\ pc[c] = "registered" /\ Moved(c, "announced")
  /\ \A g \in Peers : senders'[g] = IF g = f THEN c ELSE senders[g]
  /\ \A s, g \in Peers : byTarget'[s][g] =
       IF s = f /\ g \in Dead(f) THEN None ELSE byTarget[s][g]
  /\ \A g \in Peers : byClient'[g] =
       IF g \in Dead(f) THEN byClient[g] \ {f} ELSE byClient[g]
  /\ Notified(f, TRUE)
  /\ UNCHANGED <<online, tokens, pairs, conns, owner, data, job, known, overlapped, leaked>>

\* This is what Announce does.
LEMMA AnnounceEntries ==
  ASSUME TypeOK, NEW c \in Conns, Announce(c)
  PROVE  AnnounceEffect(c, owner[c])
<1> DEFINE f == owner[c]
<1>1. f \in Peers
  BY Zenon DEF Announce, TypeOK, TaskShape
<1>2. \A g \in Peers : senders'[g] = IF g = f THEN c ELSE senders[g]
  BY <1>1, Zenon DEF Announce, TypeOK
<1>3. Notified(f, TRUE)
  <2>1. Notify(f, TRUE)
    BY Zenon DEF Announce
  <2> QED
    BY <1>1, <2>1, NotifyQueues, Zenon
<1>4. byTarget' = Pruned(f).targets /\ byClient' = Pruned(f).clients
  BY Zenon DEF Announce
<1>5. /\ \A s, g \in Peers : byTarget'[s][g] =
           IF s = f /\ g \in Dead(f) THEN None ELSE byTarget[s][g]
      /\ \A g \in Peers : byClient'[g] =
           IF g \in Dead(f) THEN byClient[g] \ {f} ELSE byClient[g]
  BY <1>1, <1>4, PrunedEntries, ZenonT(40)
<1>6. /\ pc[c] = "registered"
      /\ UNCHANGED <<online, tokens, pairs, conns, owner, data, job, known, overlapped, leaked>>
  BY Zenon DEF Announce, registry, history
<1>7. Moved(c, "announced")
  BY Zenon DEF Announce, Goto, Moved, TypeOK
<1> QED
  BY <1>1, <1>2, <1>3, <1>5, <1>6, <1>7, Zenon DEF AnnounceEffect

\* notify and remove_client, entry by entry.
FarewellEffect(c, f) ==
  /\ f = owner[c] /\ f \in Peers /\ pc[c] = "deregistered" /\ Moved(c, "closed") /\ Left(c)
  /\ \A g \in Peers : g \in leaked' <=> g \in leaked /\ (g = f => f \in overlapped)
  /\ \A g \in Peers : senders'[g] = IF g = f THEN None ELSE senders[g]
  /\ \A s, g \in Peers : byTarget'[s][g] =
       IF (s = f /\ g \in Dead(f)) \/ (g = f /\ s \in byClient[f])
         THEN None ELSE byTarget[s][g]
  /\ \A g \in Peers : byClient'[g] =
       IF g = f THEN {} ELSE IF g \in Dead(f) THEN byClient[g] \ {f} ELSE byClient[g]
  /\ Notified(f, FALSE)
  /\ UNCHANGED <<online, tokens, pairs, conns, data, job, known>>

\* This is what Farewell does.
LEMMA FarewellEntries ==
  ASSUME TypeOK, NEW c \in Conns, Farewell(c)
  PROVE  FarewellEffect(c, owner[c])
<1> DEFINE f == owner[c]
<1>1. f \in Peers
  BY Zenon DEF Farewell, TypeOK, TaskShape
<1>2. \A g \in Peers : senders'[g] = IF g = f THEN None ELSE senders[g]
  BY <1>1, Zenon DEF Farewell, TypeOK
<1>3. Notified(f, FALSE)
  <2>1. Notify(f, FALSE)
    BY Zenon DEF Farewell
  <2> QED
    BY <1>1, <2>1, NotifyQueues, Zenon
<1>4. \A s, g \in Peers : byTarget'[s][g] =
        IF g = f /\ s \in Pruned(f).clients[f] THEN None ELSE Pruned(f).targets[s][g]
  BY <1>1, PrunedEntries DEF Farewell
<1>5. /\ \A s, g \in Peers : Pruned(f).targets[s][g] =
           IF s = f /\ g \in Dead(f) THEN None ELSE byTarget[s][g]
      /\ \A g \in Peers : Pruned(f).clients[g] =
           IF g \in Dead(f) THEN byClient[g] \ {f} ELSE byClient[g]
  BY <1>1, PrunedEntries, Zenon
<1> HIDE DEF f
<1>6. ASSUME NEW s \in Peers, NEW g \in Peers
      PROVE  byTarget'[s][g] = IF (s = f /\ g \in Dead(f)) \/ (g = f /\ s \in byClient[f])
                                 THEN None ELSE byTarget[s][g]
  <2>1. CASE s = f /\ g \in Dead(f)
    BY <1>4, <1>5, <2>1, Zenon
  <2>2. CASE ~(s = f /\ g \in Dead(f)) /\ g = f
    <3>1. s \in Pruned(f).clients[f] <=> s \in byClient[f]
      BY <1>5, <2>2, Zenon
    <3> QED
      BY <1>4, <1>5, <2>2, <3>1
  <2>3. CASE ~(s = f /\ g \in Dead(f)) /\ g # f
    BY <1>4, <1>5, <2>3
  <2> QED
    BY <2>1, <2>2, <2>3, Zenon
<1>7. \A g \in Peers : byClient'[g] = IF g = f THEN {} ELSE Pruned(f).clients[g]
  BY <1>1, PrunedEntries, Zenon DEF Farewell, f
<1>8. \A g \in Peers : byClient'[g] =
        IF g = f THEN {} ELSE IF g \in Dead(f) THEN byClient[g] \ {f} ELSE byClient[g]
  BY <1>5, <1>7, Zenon
<1>9. /\ f = owner[c] /\ pc[c] = "deregistered"
      /\ \A g \in Peers : g \in leaked' <=> g \in leaked /\ (g = f => f \in overlapped)
      /\ UNCHANGED <<online, tokens, pairs, conns, data, job, known>>
  BY Zenon DEF Farewell, Leave, registry, f
<1>10. Moved(c, "closed")
  BY Zenon DEF Farewell, Goto, Moved, TypeOK
<1>11. Left(c)
  BY Zenon DEF Farewell, Leave, Left, TypeOK
<1>12. FarewellEffect(c, f)
  BY <1>1, <1>2, <1>3, <1>6, <1>8, <1>9, <1>10, <1>11, Zenon DEF FarewellEffect
<1> QED
  BY <1>12, Zenon DEF f

\* The initial state is well typed.
LEMMA TypeInit == Init => TypeOK
BY RelayAssumption DEF Init, TypeOK, TaskShape, Nobody, Nothing, PC, Open, Serving,
  Closing, Known

\* Every step keeps the registries, the channels and the handlers well typed.
LEMMA TypeStep == TypeOK /\ [Next]_vars => TypeOK'
<1> SUFFICES ASSUME TypeOK, [Next]_vars PROVE TypeOK'
  OBVIOUS
<1> USE RelayAssumption, NoneAssumption
<1>1. ASSUME NEW c \in Conns, NEW f \in Peers, Register(c, f) PROVE TypeOK'
  <2>1. TaskShape'
    BY <1>1 DEF Register, Fresh, TypeOK, TaskShape, Goto, Open, Serving
  <2>2. /\ owner' \in [Conns -> Peers \cup {None}] /\ pc' \in [Conns -> PC]
        /\ online' \subseteq Peers /\ overlapped' \subseteq Peers /\ dials' \in Nat
    BY <1>1 DEF Register, TypeOK, Goto, PC
  <2> QED
    BY <1>1, <2>1, <2>2, Zenon DEF Register, TypeOK, presence
<1>2. ASSUME NEW c \in Conns, Announce(c) PROVE TypeOK'
  <2> DEFINE f == owner[c]
  <2>1. f \in Peers
    BY <1>2, Zenon DEF Announce, TypeOK, TaskShape
  <2>2. events' \in [Conns -> Seq(Event)]
    BY <1>2, <2>1, NotifyQueues, Zenon DEF Announce
  <2>3. TaskShape'
    <3>1. /\ pc[c] = "registered" /\ pc' = [pc EXCEPT ![c] = "announced"]
          /\ UNCHANGED <<owner, job, data>>
      BY <1>2, Zenon DEF Announce, Goto
    <3>2. \A d \in Conns : pc[d] \notin Open => events'[d] = events[d]
      BY <1>2, AnnounceEntries, Zenon DEF AnnounceEffect, Notified, Watching
    <3> QED
      BY <3>1, <3>2, Zenon DEF TypeOK, TaskShape, Open, Serving
  <2>4. /\ byTarget' \in [Peers -> [Peers -> Conns \cup {None}]]
        /\ byClient' \in [Peers -> SUBSET Peers]
    BY <1>2, <2>1, PrunedEntries, Zenon DEF Announce
  <2>5. senders' \in [Peers -> Conns \cup {None}] /\ pc' \in [Conns -> PC]
    BY <1>2, Zenon DEF Announce, TypeOK, Goto, PC, Open
  <2> QED
    BY <1>2, <2>2, <2>3, <2>4, <2>5, Zenon DEF Announce, TypeOK, registry, history, bounds
<1>3. ASSUME NEW c \in Conns, Attach(c) PROVE TypeOK'
  BY <1>3, Zenon DEF Attach, TypeOK, TaskShape, Goto, PC, Open, Serving, registry, presence,
    task, history, bounds
<1>4. ASSUME NEW c \in Conns, IssueToken(c) PROVE TypeOK'
  BY <1>4, Zenon DEF IssueToken, TypeOK, TaskShape, Goto, PC, Open, Serving, presence, task,
    history, bounds
<1>5. ASSUME NEW c \in Conns, AuthOkSent(c) PROVE TypeOK'
  BY <1>5, Zenon DEF AuthOkSent, TypeOK, TaskShape, Goto, PC, Open, Serving, registry, presence,
    task, history, bounds
<1>6. ASSUME NEW c \in Conns, PushPresence(c) PROVE TypeOK'
  <2>1. events[c] \in Seq(Event) /\ events[c] # <<>> /\ Head(events[c]) \in Event
    BY <1>6 DEF PushPresence, TypeOK
  <2>2. events' \in [Conns -> Seq(Event)]
    BY <1>6, <2>1 DEF PushPresence, TypeOK
  <2>3. known' \in [Conns -> [Peers -> Known]]
    BY <1>6, <2>1, Zenon DEF PushPresence, TypeOK, Event, Known
  <2>4. TaskShape'
    BY <1>6, Zenon DEF PushPresence, TypeOK, TaskShape, Open, Serving
  <2> QED
    BY <1>6, <2>2, <2>3, <2>4, Zenon DEF PushPresence, TypeOK, registry, presence, history, bounds
<1>7. ASSUME NEW c \in Conns, PresenceDrained(c) PROVE TypeOK'
  BY <1>7, Zenon DEF PresenceDrained, TypeOK, TaskShape, Goto, PC, Open, Serving, registry,
    presence, task, history, bounds
<1>8. ASSUME NEW c \in Conns, PushData(c) PROVE TypeOK'
  <2>1. data' \in [Conns -> Seq(Datum)]
    BY <1>8 DEF PushData, TypeOK
  <2>2. pc' \in [Conns -> PC]
    BY <1>8, Zenon DEF PushData, TypeOK, Goto, PC, Open, Serving
  <2>3. TaskShape'
    BY <1>8, Zenon DEF PushData, TypeOK, TaskShape, Goto, Open, Serving
  <2> QED
    BY <1>8, <2>1, <2>2, <2>3, Zenon DEF PushData, TypeOK, registry, presence, history, bounds
<1>9. ASSUME NEW c \in Conns, DataDrained(c) PROVE TypeOK'
  BY <1>9, Zenon DEF DataDrained, TypeOK, TaskShape, Goto, PC, Open, Serving, registry,
    presence, task, history, bounds
<1>10. ASSUME NEW c \in Conns, Idle(c) PROVE TypeOK'
  BY <1>10, Zenon DEF Idle, TypeOK, TaskShape, Goto, PC, Open, Serving, registry, presence,
    task, history, bounds
<1>11. ASSUME NEW c \in Conns, NEW t \in Peers, OpenPair(c, t) PROVE TypeOK'
  <2>1. [from |-> owner[c], to |-> t] \in Pair
    BY <1>11, Zenon DEF OpenPair, TypeOK, Pair
  <2>2. pairs' \in Seq(Pair \cup {None})
    BY <1>11, <2>1 DEF OpenPair, TypeOK
  <2>3. pc' \in [Conns -> PC] /\ TaskShape'
    BY <1>11, Zenon DEF OpenPair, TypeOK, TaskShape, Goto, PC, Open, Serving, task
  <2> QED
    BY <1>11, <2>2, <2>3, Zenon DEF OpenPair, TypeOK, presence, task, history, bounds
<1>12. ASSUME NEW c \in Conns, NEW i \in 1..Len(pairs), ClosePair(c, i) PROVE TypeOK'
  <2>1. pairs' \in Seq(Pair \cup {None})
    BY <1>12 DEF ClosePair, TypeOK
  <2>2. pc' \in [Conns -> PC] /\ TaskShape'
    BY <1>12, Zenon DEF ClosePair, TypeOK, TaskShape, Goto, PC, Open, Serving, task
  <2> QED
    BY <1>12, <2>1, <2>2, Zenon DEF ClosePair, TypeOK, presence, task, history, bounds
<1>13. ASSUME NEW c \in Conns, NEW t \in Peers, Subscribe(c, t) PROVE TypeOK'
  <2>1. owner[c] \in Peers
    BY <1>13 DEF Subscribe, TypeOK, TaskShape
  <2>2. /\ byTarget' \in [Peers -> [Peers -> Conns \cup {None}]]
        /\ byClient' \in [Peers -> SUBSET Peers]
    BY <1>13, <2>1, Zenon DEF Subscribe, TypeOK
  <2>3. [peer |-> t, pair |-> None] \in Job
    BY Zenon DEF Job
  <2>4. job' \in [Conns -> Job \cup {None}] /\ pc' \in [Conns -> PC]
    BY <1>13, <2>3, Zenon DEF Subscribe, TypeOK, Goto, PC, Open, Serving
  <2>5. TaskShape'
    BY <1>13, <2>3 DEF Subscribe, TypeOK, TaskShape, Goto, Open, Serving
  <2> QED
    BY <1>13, <2>2, <2>4, <2>5, Zenon DEF Subscribe, TypeOK, registry, history, bounds
<1>14. ASSUME NEW c \in Conns, SubscribeReply(c) PROVE TypeOK'
  <2>1. job[c].peer \in Peers
    BY <1>14, Zenon DEF SubscribeReply, TypeOK, TaskShape, Job
  <2>2. known' \in [Conns -> [Peers -> Known]]
    BY <1>14, <2>1, Zenon DEF SubscribeReply, TypeOK, Known
  <2>3. job' \in [Conns -> Job \cup {None}] /\ pc' \in [Conns -> PC]
    BY <1>14, Zenon DEF SubscribeReply, TypeOK, Goto, PC, Open, Serving
  <2>4. TaskShape'
    BY <1>14, Zenon DEF SubscribeReply, TypeOK, TaskShape, Goto, Open, Serving
  <2> QED
    BY <1>14, <2>2, <2>3, <2>4, Zenon DEF SubscribeReply, TypeOK, registry, presence, history, bounds
<1>15. ASSUME NEW c \in Conns, NEW i \in 1..Len(pairs), RelayLookup(c, i) PROVE TypeOK'
  <2>1. pairs[i] \in Pair
    BY <1>15 DEF RelayLookup, TypeOK, LivePairs
  <2>2. [peer |-> OtherEnd(pairs[i], owner[c]), pair |-> pairs[i]] \in Job
    BY <2>1, Zenon DEF Job, OtherEnd, Pair
  <2>3. job' \in [Conns -> Job \cup {None}] /\ pc' \in [Conns -> PC]
    BY <1>15, <2>2, Zenon DEF RelayLookup, TypeOK, Goto, PC, Open, Serving
  <2>4. TaskShape'
    <3>1. job'[c] # None /\ job'[c].pair # None /\ \A d \in Conns \ {c} : job'[d] = job[d]
      BY <1>15, <2>1, <2>2, Zenon DEF RelayLookup, TypeOK
    <3> QED
      BY <1>15, <3>1 DEF RelayLookup, TypeOK, TaskShape, Goto, Open, Serving
  <2>5. frames' \in Nat
    BY <1>15 DEF RelayLookup, TypeOK
  <2> QED
    BY <1>15, <2>3, <2>4, <2>5, Zenon DEF RelayLookup, TypeOK, registry, presence, history
<1>16. ASSUME NEW c \in Conns, RelayForward(c) PROVE TypeOK'
  <2> DEFINE m == [from |-> owner[c], pair |-> job[c].pair]
  <2>1. owner[c] \in Peers /\ job[c].peer \in Peers /\ job[c].pair \in Pair
    BY <1>16, Zenon DEF RelayForward, TypeOK, TaskShape, Job
  <2>2. m \in Datum
    BY <2>1, Zenon DEF Datum
  <2>3. data' \in [Conns -> Seq(Datum)]
    <3>1. data \in [Conns -> Seq(Datum)]
      BY Zenon DEF TypeOK
    <3>2. data' = data \/ \E e \in Conns : data' = [data EXCEPT ![e] = Append(@, m)]
      <4>1. conns[job[c].peer] \in Conns \cup {None}
        BY <2>1, Zenon DEF TypeOK
      <4> QED
        BY <1>16, <4>1, Zenon DEF RelayForward
    <3> HIDE DEF m
    <3>3. \A e \in Conns : Append(data[e], m) \in Seq(Datum)
      BY <2>2, <3>1
    <3> QED
      BY <3>1, <3>2, <3>3, Zenon
  <2>4. job' \in [Conns -> Job \cup {None}] /\ pc' \in [Conns -> PC]
    BY <1>16, Zenon DEF RelayForward, TypeOK, Goto, PC, Open, Serving
  <2>5. \A d \in Conns : data'[d] = data[d] \/ pc[d] \in Open
    BY <1>16, Zenon DEF RelayForward, TypeOK
  <2>6. TaskShape'
    BY <1>16, <2>5, ZenonT(40) DEF RelayForward, TypeOK, TaskShape, Goto, Open, Serving
  <2> QED
    BY <1>16, <2>3, <2>4, <2>6, Zenon DEF RelayForward, TypeOK, registry, presence, history, bounds
<1>17. ASSUME NEW c \in Conns, AuthOkLost(c) PROVE TypeOK'
  <2>1. /\ owner' \in [Conns -> Peers \cup {None}] /\ pc' \in [Conns -> PC]
        /\ overlapped' \subseteq Peers /\ leaked' \subseteq Peers
    BY <1>17, Zenon DEF AuthOkLost, Leave, TypeOK, TaskShape, Goto, PC
  <2>2. events' \in [Conns -> Seq(Event)] /\ data' \in [Conns -> Seq(Datum)]
    BY <1>17 DEF AuthOkLost, HangUp, TypeOK
  <2>3. job' \in [Conns -> Job \cup {None}] /\ known' \in [Conns -> [Peers -> Known]]
    BY <1>17, Zenon DEF AuthOkLost, HangUp, TypeOK, Nothing, Known
  <2>4. TaskShape'
    BY <1>17, Zenon DEF AuthOkLost, HangUp, Leave, TypeOK, TaskShape, Goto, Open, Serving
  <2> QED
    BY <1>17, <2>1, <2>2, <2>3, <2>4, Zenon DEF AuthOkLost, TypeOK, registry, presence, bounds
<1>18. ASSUME NEW c \in Conns, Disconnect(c) PROVE TypeOK'
  <2>1. pc' \in [Conns -> PC]
    BY <1>18, Zenon DEF Disconnect, TypeOK, Goto, PC, Closing
  <2>2. events' \in [Conns -> Seq(Event)] /\ data' \in [Conns -> Seq(Datum)]
    BY <1>18 DEF Disconnect, HangUp, TypeOK
  <2>3. job' \in [Conns -> Job \cup {None}] /\ known' \in [Conns -> [Peers -> Known]]
    BY <1>18, Zenon DEF Disconnect, HangUp, TypeOK, Nothing, Known
  <2>4. TaskShape'
    BY <1>18 DEF Disconnect, HangUp, TypeOK, TaskShape, Goto, Open, Serving
  <2> QED
    BY <1>18, <2>1, <2>2, <2>3, <2>4, Zenon DEF Disconnect, TypeOK, registry, presence, history, bounds
<1>19. ASSUME NEW c \in Conns, Detach(c) PROVE TypeOK'
  BY <1>19 DEF Detach, TypeOK, TaskShape, Goto, PC, Open, Serving, Closing, registry,
    presence, task, history, bounds
<1>20. ASSUME NEW c \in Conns, Deregister(c) PROVE TypeOK'
  <2>1. pc' \in [Conns -> PC] /\ online' \subseteq Peers
    BY <1>20, Zenon DEF Deregister, TypeOK, Goto, PC, Closing
  <2>2. tokens' \in [Conns -> Peers \cup {None}]
    BY <1>20, Zenon DEF Deregister, TypeOK
  <2>3. pairs' \in Seq(Pair \cup {None})
    <3>1. \A i \in 1..Len(pairs) : pairs[i] \in Pair \cup {None}
      BY DEF TypeOK
    <3> QED
      BY <1>20, <3>1 DEF Deregister, TypeOK
  <2>4. TaskShape'
    BY <1>20, Zenon DEF Deregister, TypeOK, TaskShape, Goto, Open, Serving, task
  <2> QED
    BY <1>20, <2>1, <2>2, <2>3, <2>4, Zenon DEF Deregister, TypeOK, presence, task, history, bounds
<1>21. ASSUME NEW c \in Conns, Farewell(c) PROVE TypeOK'
  <2> DEFINE f == owner[c]
  <2>1. f \in Peers
    BY <1>21, Zenon DEF Farewell, TypeOK, TaskShape
  <2>2. events' \in [Conns -> Seq(Event)]
    BY <1>21, <2>1, NotifyQueues, Zenon DEF Farewell
  <2>3. TaskShape'
    <3>1. /\ pc[c] = "deregistered" /\ pc' = [pc EXCEPT ![c] = "closed"]
          /\ owner' = [owner EXCEPT ![c] = None] /\ UNCHANGED <<job, data>>
      BY <1>21, Zenon DEF Farewell, Leave, Goto
    <3>2. \A d \in Conns : pc[d] \notin Open => events'[d] = events[d]
      BY <1>21, FarewellEntries, Zenon DEF FarewellEffect, Notified, Watching
    <3> QED
      BY <3>1, <3>2 DEF TypeOK, TaskShape, Open, Serving
  <2>4. byTarget' \in [Peers -> [Peers -> Conns \cup {None}]]
    BY <1>21, <2>1, PrunedEntries, Zenon DEF Farewell
  <2>5. byClient' \in [Peers -> SUBSET Peers]
    BY <1>21, <2>1, PrunedEntries, Zenon DEF Farewell
  <2>6. senders' \in [Peers -> Conns \cup {None}] /\ pc' \in [Conns -> PC]
    BY <1>21, Zenon DEF Farewell, TypeOK, Goto, PC
  <2>7. /\ owner' \in [Conns -> Peers \cup {None}]
        /\ overlapped' \subseteq Peers /\ leaked' \subseteq Peers
    BY <1>21, Zenon DEF Farewell, Leave, TypeOK
  <2> QED
    BY <1>21, <2>2, <2>3, <2>4, <2>5, <2>6, <2>7, Zenon DEF Farewell, TypeOK, registry, bounds
<1>22. CASE UNCHANGED vars
  BY <1>22, Zenon DEF TypeOK, TaskShape, vars, registry, presence, task, history, bounds
<1> QED
  BY <1>1, <1>2, <1>3, <1>4, <1>5, <1>6, <1>7, <1>8, <1>9, <1>10, <1>11, <1>12, <1>13,
    <1>14, <1>15, <1>16, <1>17, <1>18, <1>19, <1>20, <1>21, <1>22
  DEF Next, ServerStep, ClientFrame

-----------------------------------------------------------------------------
(* Steps by what they leave alone *)

\* A turn of the control loop (or AuthOk): the task stays among those served and
\* no registry of peers or channel ends changes.
Turn(c) ==
  /\ pc[c] \in Serving \cup {"tokened"} /\ pc'[c] \in Serving
  /\ \A d \in Conns \ {c} : pc'[d] = pc[d]
  /\ UNCHANGED <<online, tokens, conns, senders, byTarget, byClient, owner, overlapped, leaked>>

\* A turn that says nothing about presence.
Calm(c) ==
  /\ Turn(c) /\ pc[c] \notin {"tokened", "replying"}
  /\ \A d \in Conns \ {c} : job'[d] = job[d]
  /\ UNCHANGED <<events, known>>

\* The turns of the control loop.
LEMMA Turns ==
  ASSUME TypeOK, NEW c \in Conns
  PROVE  /\ AuthOkSent(c) \/ PushPresence(c) \/ SubscribeReply(c) => Turn(c)
         /\ \/ PresenceDrained(c) \/ PushData(c) \/ DataDrained(c) \/ Idle(c) \/ RelayForward(c)
            \/ \E t \in Peers : OpenPair(c, t)
            \/ \E i \in 1..Len(pairs) : ClosePair(c, i) \/ RelayLookup(c, i)
            => Calm(c)
<1> USE DEF Calm, Turn, Serving, Goto, registry, presence, task, history
<1>1. ASSUME PushPresence(c) PROVE Turn(c)
  BY <1>1, Zenon DEF PushPresence
<1>2. ASSUME AuthOkSent(c) \/ SubscribeReply(c) PROVE Turn(c)
  BY <1>2, Zenon DEF AuthOkSent, SubscribeReply, TypeOK
<1>3. ASSUME PushData(c) PROVE Calm(c)
  BY <1>3, Zenon DEF PushData, TypeOK
<1>4. ASSUME PresenceDrained(c) \/ DataDrained(c) \/ Idle(c) PROVE Calm(c)
  BY <1>4, Zenon DEF PresenceDrained, DataDrained, Idle, TypeOK
<1>5. ASSUME RelayForward(c) PROVE Calm(c)
  BY <1>5, Zenon DEF RelayForward, TypeOK
<1>6. ASSUME \E t \in Peers : OpenPair(c, t) PROVE Calm(c)
  BY <1>6, Zenon DEF OpenPair, TypeOK
<1>7. ASSUME \E i \in 1..Len(pairs) : ClosePair(c, i) \/ RelayLookup(c, i) PROVE Calm(c)
  BY <1>7 DEF ClosePair, RelayLookup, TypeOK
<1> HIDE DEF Calm, Turn
<1> QED
  BY <1>1, <1>2, <1>3, <1>4, <1>5, <1>6, <1>7, Zenon

\* A step that is no turn of a control loop registers a connection, takes it through
\* the hand-shake, subscribes, or tears it down.
LEMMA StageSteps ==
  ASSUME TypeOK, [Next]_vars
  PROVE  \/ UNCHANGED <<pc, online, tokens, conns, senders, byTarget, byClient, owner, overlapped, leaked>>
         \/ \E c \in Conns :
              \/ Turn(c) \/ \E f \in Peers : Register(c, f)
              \/ Announce(c) \/ Attach(c) \/ IssueToken(c) \/ AuthOkLost(c)
              \/ \E t \in Peers : Subscribe(c, t)
              \/ Disconnect(c) \/ Detach(c) \/ Deregister(c) \/ Farewell(c)
<1>1. CASE UNCHANGED vars
  BY <1>1, Zenon DEF vars, registry, presence, task, history
<1>2. CASE Next
  BY <1>2, Turns, Zenon DEF Next, ServerStep, ClientFrame, Calm
<1> QED
  BY <1>1, <1>2, Zenon


-----------------------------------------------------------------------------
(* Steps, entry by entry *)

RegisterEffect(c, f) ==
  /\ f \in Peers /\ Fresh(c) /\ owner[c] = None /\ Moved(c, "registered")
  /\ owner'[c] = f /\ \A d \in Conns \ {c} : owner'[d] = owner[d]
  /\ \A g \in Peers : g \in online' <=> g \in online \/ g = f
  /\ \A g \in Peers : g \in overlapped' <=>
       g \in overlapped \/ (g = f /\ \E d \in Conns : owner[d] = f)
  /\ UNCHANGED <<tokens, conns, senders, byTarget, byClient, events, job, known, leaked>>

AttachEffect(c, f) ==
  /\ f = owner[c] /\ f \in Peers /\ pc[c] = "announced" /\ Moved(c, "attached")
  /\ conns'[f] = c /\ \A g \in Peers \ {f} : conns'[g] = conns[g]
  /\ UNCHANGED <<online, tokens, senders, byTarget, byClient, owner, overlapped, leaked,
                 events, job, known>>

IssueTokenEffect(c, f) ==
  /\ f = owner[c] /\ f \in Peers /\ pc[c] = "attached" /\ Moved(c, "tokened")
  /\ tokens'[c] = f /\ \A d \in Conns \ {c} : tokens'[d] = tokens[d]
  /\ UNCHANGED <<online, conns, senders, byTarget, byClient, owner, overlapped, leaked,
                 events, job, known>>

\* HangUp, entry by entry, for what concerns presence.
HungUp(c) == \A d \in Conns \ {c} : events'[d] = events[d] /\ job'[d] = job[d] /\ known'[d] = known[d]

AuthOkLostEffect(c, f) ==
  /\ f = owner[c] /\ f \in Peers /\ pc[c] = "tokened" /\ Moved(c, "closed")
  /\ \A g \in Peers : g \in leaked' <=> g \in leaked \/ g = f
  /\ Left(c) /\ HungUp(c)
  /\ UNCHANGED <<online, tokens, conns, senders, byTarget, byClient>>

SubscribeEffect(c, f, t) ==
  /\ f = owner[c] /\ f \in Peers /\ pc[c] = "select" /\ Moved(c, "replying")
  /\ \A s, g \in Peers :
       byTarget'[s][g] = IF s = t /\ g = f THEN senders[f] ELSE byTarget[s][g]
  /\ \A g \in Peers \ {f} : byClient'[g] = byClient[g]
  /\ job'[c].peer = t /\ \A d \in Conns \ {c} : job'[d] = job[d]
  /\ UNCHANGED <<online, tokens, conns, senders, owner, overlapped, leaked, events, known>>

DisconnectEffect(c, f) ==
  /\ f = owner[c] /\ f \in Peers /\ pc[c] \in Serving /\ Moved(c, "ended") /\ HungUp(c)
  /\ UNCHANGED <<online, tokens, conns, senders, byTarget, byClient, owner, overlapped, leaked>>

DetachEffect(c, f) ==
  /\ f = owner[c] /\ f \in Peers /\ pc[c] = "ended" /\ Moved(c, "detached")
  /\ conns'[f] = None /\ \A g \in Peers \ {f} : conns'[g] = conns[g]
  /\ UNCHANGED <<online, tokens, senders, byTarget, byClient, owner, overlapped, leaked,
                 events, job, known>>

DeregisterEffect(c, f) ==
  /\ f = owner[c] /\ f \in Peers /\ pc[c] = "detached" /\ Moved(c, "deregistered")
  /\ \A g \in Peers : g \in online' <=> g \in online /\ g # f
  /\ \A d \in Conns : tokens'[d] = IF tokens[d] = f THEN None ELSE tokens[d]
  /\ UNCHANGED <<conns, senders, byTarget, byClient, owner, overlapped, leaked, events, job, known>>

\* The steps of a connection's life that change no queue of another.
LEMMA LifeEntries ==
  ASSUME TypeOK, NEW c \in Conns
  PROVE  /\ \A f \in Peers : Register(c, f) => RegisterEffect(c, f)
         /\ Attach(c) => AttachEffect(c, owner[c])
         /\ IssueToken(c) => IssueTokenEffect(c, owner[c])
         /\ AuthOkLost(c) => AuthOkLostEffect(c, owner[c])
         /\ \A t \in Peers : Subscribe(c, t) => SubscribeEffect(c, owner[c], t)
         /\ Disconnect(c) => DisconnectEffect(c, owner[c])
         /\ Detach(c) => DetachEffect(c, owner[c])
         /\ Deregister(c) => DeregisterEffect(c, owner[c])
<1> USE DEF Goto, Moved
<1>1. pc[c] # "closed" <=> owner[c] \in Peers
  BY RelayAssumption, Zenon DEF TypeOK, TaskShape
<1>2. ASSUME NEW f \in Peers, Register(c, f) PROVE RegisterEffect(c, f)
  BY <1>1, <1>2, Zenon DEF Register, Fresh, RegisterEffect, TypeOK, TaskShape, presence
<1>3. ASSUME Attach(c) PROVE AttachEffect(c, owner[c])
  BY <1>1, <1>3, Zenon DEF Attach, AttachEffect, TypeOK, registry, presence, task, history
<1>4. ASSUME IssueToken(c) PROVE IssueTokenEffect(c, owner[c])
  BY <1>1, <1>4, Zenon DEF IssueToken, IssueTokenEffect, TypeOK, presence, task, history
<1>5. ASSUME AuthOkLost(c) PROVE AuthOkLostEffect(c, owner[c])
  <2>1. Left(c)
    BY <1>5, Zenon DEF AuthOkLost, Leave, Left, TypeOK
  <2>2. HungUp(c)
    BY <1>5, Zenon DEF AuthOkLost, HangUp, HungUp, TypeOK
  <2> QED
    BY <1>1, <1>5, <2>1, <2>2, Zenon DEF AuthOkLost, AuthOkLostEffect, TypeOK, registry, presence
<1>6. ASSUME NEW t \in Peers, Subscribe(c, t) PROVE SubscribeEffect(c, owner[c], t)
  <2>1. /\ owner[c] \in Peers /\ pc[c] = "select" /\ Moved(c, "replying")
        /\ UNCHANGED <<online, tokens, conns, senders, owner, overlapped, leaked, events, known>>
    BY <1>1, <1>6, Zenon DEF Subscribe, TypeOK, registry, history
  <2>2. /\ \A s, g \in Peers : byTarget'[s][g] =
             IF s = t /\ g = owner[c] THEN senders[owner[c]] ELSE byTarget[s][g]
        /\ \A g \in Peers \ {owner[c]} : byClient'[g] = byClient[g]
    BY <1>6, <2>1 DEF Subscribe, TypeOK
  <2>3. job'[c].peer = t /\ \A d \in Conns \ {c} : job'[d] = job[d]
    BY <1>6, Zenon DEF Subscribe, TypeOK
  <2> QED
    BY <2>1, <2>2, <2>3, Zenon DEF SubscribeEffect
<1>7. ASSUME Disconnect(c) PROVE DisconnectEffect(c, owner[c])
  <2>1. HungUp(c)
    BY <1>7, Zenon DEF Disconnect, HangUp, HungUp, TypeOK
  <2> QED
    BY <1>1, <1>7, <2>1, Zenon
    DEF Disconnect, DisconnectEffect, TypeOK, registry, presence, history, Serving
<1>8. ASSUME Detach(c) PROVE DetachEffect(c, owner[c])
  BY <1>1, <1>8, Zenon DEF Detach, DetachEffect, TypeOK, registry, presence, task, history
<1>9. ASSUME Deregister(c) PROVE DeregisterEffect(c, owner[c])
  BY <1>1, <1>9, Zenon DEF Deregister, DeregisterEffect, TypeOK, presence, task, history
<1> QED
  BY <1>2, <1>3, <1>4, <1>5, <1>6, <1>7, <1>8, <1>9, Zenon

\* AuthOk is sent.
AuthOkSentEffect(c) == Turn(c) /\ pc[c] = "tokened" /\ UNCHANGED <<events, job, known>>

\* The reply to Subscribe is sent.
ReplyEffect(c) ==
  /\ Turn(c) /\ pc[c] = "replying" /\ job[c].peer \in Peers
  /\ \A t \in Peers : known'[c][t] =
       IF t = job[c].peer THEN IF t \in online THEN "online" ELSE "offline" ELSE known[c][t]
  /\ \A d \in Conns \ {c} : job'[d] = job[d] /\ known'[d] = known[d]
  /\ events' = events

\* The first event of the queue is sent.
PushEffect(c) ==
  /\ Turn(c) /\ pc[c] = "presence" /\ pc'[c] = "presence" /\ PushPresence(c)
  /\ \A d \in Conns \ {c} : events'[d] = events[d] /\ known'[d] = known[d]
  /\ events'[c] = Tail(events[c]) /\ job' = job

\* The turns that concern presence.
LEMMA TurnEntries ==
  ASSUME TypeOK, NEW c \in Conns
  PROVE  /\ AuthOkSent(c) => AuthOkSentEffect(c)
         /\ SubscribeReply(c) => ReplyEffect(c)
         /\ PushPresence(c) => PushEffect(c)
<1>1. ASSUME AuthOkSent(c) PROVE AuthOkSentEffect(c)
  BY <1>1, Turns, Zenon DEF AuthOkSent, AuthOkSentEffect, task
<1>2. ASSUME SubscribeReply(c) PROVE ReplyEffect(c)
  <2>1. job[c].peer \in Peers /\ pc[c] = "replying"
    BY <1>2, NoneAssumption, Zenon DEF SubscribeReply, TypeOK, TaskShape, Job
  <2>2. \A t \in Peers : known'[c][t] =
          IF t = job[c].peer THEN IF t \in online THEN "online" ELSE "offline" ELSE known[c][t]
    BY <1>2, <2>1, Zenon DEF SubscribeReply, TypeOK
  <2> QED
    BY <1>2, <2>1, <2>2, Turns, Zenon DEF SubscribeReply, ReplyEffect, TypeOK
<1>3. ASSUME PushPresence(c) PROVE PushEffect(c)
  BY <1>3, Turns, Zenon DEF PushPresence, PushEffect, TypeOK
<1> QED
  BY <1>1, <1>2, <1>3, Zenon

\* Every step is a turn of a control loop or one of these.
LifeStep(c) ==
  \/ \E f \in Peers : RegisterEffect(c, f)
  \/ AnnounceEffect(c, owner[c]) \/ AttachEffect(c, owner[c]) \/ IssueTokenEffect(c, owner[c])
  \/ AuthOkLostEffect(c, owner[c]) \/ \E t \in Peers : SubscribeEffect(c, owner[c], t)
  \/ DisconnectEffect(c, owner[c]) \/ DetachEffect(c, owner[c])
  \/ DeregisterEffect(c, owner[c]) \/ FarewellEffect(c, owner[c])

\* Every step of the relay, as far as the registries are concerned.
LEMMA LifeSteps ==
  ASSUME TypeOK, [Next]_vars
  PROVE  \/ UNCHANGED <<pc, online, tokens, conns, senders, byTarget, byClient, owner, overlapped, leaked>>
         \/ \E c \in Conns : Turn(c) \/ LifeStep(c)
BY StageSteps, LifeEntries, AnnounceEntries, FarewellEntries, Zenon DEF LifeStep

\* The same, with the turns that concern presence apart.
LEMMA PresenceSteps ==
  ASSUME TypeOK, [Next]_vars
  PROVE  \/ UNCHANGED <<pc, online, senders, byTarget, byClient, owner, overlapped, leaked, events, job, known>>
         \/ \E c \in Conns : \/ Calm(c) \/ AuthOkSentEffect(c) \/ PushEffect(c) \/ ReplyEffect(c)
                             \/ LifeStep(c)
<1>1. CASE UNCHANGED vars
  BY <1>1, Zenon DEF vars, registry, presence, task, history
<1>2. CASE Next
  BY <1>2, Turns, TurnEntries, LifeEntries, AnnounceEntries, FarewellEntries, Zenon
  DEF Next, ServerStep, ClientFrame, LifeStep
<1> QED
  BY <1>1, <1>2, Zenon

-----------------------------------------------------------------------------
(* Channel ends *)

\* No step hands a channel end to a peer that is not its reader's.
LEMMA EndsStep ==
  ASSUME TypeOK, TypeOK', EndsOwned, NotYetEntered, [Next]_vars
  PROVE  EndsOwned' /\ NotYetEntered'
<1> USE RelayAssumption
<1>0. \A f \in Peers :
        /\ conns[f] \in Conns \cup {None} /\ conns'[f] \in Conns \cup {None}
        /\ senders[f] \in Conns \cup {None} /\ senders'[f] \in Conns \cup {None}
        /\ \A t \in Peers : /\ byTarget[t][f] \in Conns \cup {None}
                            /\ byTarget'[t][f] \in Conns \cup {None}
  BY DEF TypeOK
<1> USE DEF EndsOwned, NotYetEntered, Open, Serving, Moved
<1>1. CASE UNCHANGED <<pc, online, tokens, conns, senders, byTarget, byClient, owner, overlapped, leaked>>
  BY <1>1, Zenon
<1>2. ASSUME NEW c \in Conns, Turn(c) PROVE EndsOwned' /\ NotYetEntered'
  BY <1>0, <1>2 DEF Turn
<1>3. ASSUME NEW c \in Conns, AnnounceEffect(c, owner[c]) PROVE EndsOwned' /\ NotYetEntered'
  BY <1>0, <1>3, SMTT(40) DEF AnnounceEffect
<1>4. ASSUME NEW c \in Conns, NEW f \in Peers, RegisterEffect(c, f) PROVE EndsOwned' /\ NotYetEntered'
  BY <1>0, <1>4 DEF RegisterEffect, Fresh
<1>5. ASSUME NEW c \in Conns, AttachEffect(c, owner[c]) PROVE EndsOwned' /\ NotYetEntered'
  BY <1>0, <1>5 DEF AttachEffect
<1>6. ASSUME NEW c \in Conns, IssueTokenEffect(c, owner[c]) PROVE EndsOwned' /\ NotYetEntered'
  BY <1>0, <1>6 DEF IssueTokenEffect
<1>7. ASSUME NEW c \in Conns, AuthOkLostEffect(c, owner[c]) PROVE EndsOwned' /\ NotYetEntered'
  BY <1>0, <1>7 DEF AuthOkLostEffect, Left
<1>8. ASSUME NEW c \in Conns, NEW t \in Peers, SubscribeEffect(c, owner[c], t) PROVE EndsOwned' /\ NotYetEntered'
  BY <1>0, <1>8, SMTT(40) DEF SubscribeEffect
<1>9. ASSUME NEW c \in Conns, DisconnectEffect(c, owner[c]) PROVE EndsOwned' /\ NotYetEntered'
  BY <1>0, <1>9, SMTT(40) DEF DisconnectEffect
<1>10. ASSUME NEW c \in Conns, DetachEffect(c, owner[c]) PROVE EndsOwned' /\ NotYetEntered'
  BY <1>0, <1>10 DEF DetachEffect
<1>11. ASSUME NEW c \in Conns, DeregisterEffect(c, owner[c]) PROVE EndsOwned' /\ NotYetEntered'
  BY <1>0, <1>11, SMTT(40) DEF DeregisterEffect
<1>12. ASSUME NEW c \in Conns, FarewellEffect(c, owner[c]) PROVE EndsOwned' /\ NotYetEntered'
  BY <1>0, <1>12 DEF FarewellEffect, Left
<1> QED
  BY <1>1, <1>2, <1>3, <1>4, <1>5, <1>6, <1>7, <1>8, <1>9, <1>10, <1>11, <1>12, LifeSteps, Zenon DEF LifeStep

-----------------------------------------------------------------------------
(* The stages of a connection *)

\* Connections overlap only where the history says so.
LEMMA OneConnectionStep ==
  ASSUME TypeOK, OneConnection, [Next]_vars
  PROVE  OneConnection'
<1> USE RelayAssumption DEF OneConnection
<1>1. CASE UNCHANGED <<owner, overlapped>>
  BY <1>1, Zenon
<1>2. ASSUME NEW c \in Conns, NEW f \in Peers, RegisterEffect(c, f) PROVE OneConnection'
  BY <1>2 DEF RegisterEffect
<1>3. ASSUME NEW c \in Conns, Left(c) PROVE OneConnection'
  BY <1>3, Zenon DEF Left
<1> QED
  BY <1>1, <1>2, <1>3, LifeSteps, ZenonT(40)
  DEF LifeStep, Turn, AnnounceEffect, AttachEffect, IssueTokenEffect, AuthOkLostEffect,
    SubscribeEffect, DisconnectEffect, DetachEffect, DeregisterEffect, FarewellEffect

\* The registries of a peer that does not overlap follow its connection.
LEMMA StagedStep ==
  ASSUME TypeOK, OneConnection, Staged, [Next]_vars
  PROVE  Staged'
<1> USE RelayAssumption
<1> USE DEF Staged, Announced, Attached, Tokened, Open, Serving, Closing, Moved
<1>1. CASE UNCHANGED <<pc, online, tokens, conns, senders, byTarget, byClient, owner, overlapped, leaked>>
  BY <1>1, ZenonT(40)
<1>2. ASSUME NEW c \in Conns, Turn(c) PROVE Staged'
  BY <1>2 DEF Turn
<1>3. ASSUME NEW c \in Conns, NEW f \in Peers, RegisterEffect(c, f) PROVE Staged'
  BY <1>3, SMTT(40) DEF RegisterEffect, Fresh
<1>4. ASSUME NEW c \in Conns, AnnounceEffect(c, owner[c]) PROVE Staged'
  BY <1>4, SMTT(40) DEF AnnounceEffect, OneConnection
<1>5. ASSUME NEW c \in Conns, AttachEffect(c, owner[c]) PROVE Staged'
  BY <1>5 DEF AttachEffect, OneConnection
<1>6. ASSUME NEW c \in Conns, IssueTokenEffect(c, owner[c]) PROVE Staged'
  BY <1>6, SMTT(40) DEF IssueTokenEffect, OneConnection
<1>7. ASSUME NEW c \in Conns, AuthOkLostEffect(c, owner[c]) PROVE Staged'
  BY <1>7 DEF AuthOkLostEffect, Left, OneConnection
<1>8. ASSUME NEW c \in Conns, NEW t \in Peers, SubscribeEffect(c, owner[c], t) PROVE Staged'
  BY <1>8, SMTT(40) DEF SubscribeEffect
<1>9. ASSUME NEW c \in Conns, DisconnectEffect(c, owner[c]) PROVE Staged'
  BY <1>9 DEF DisconnectEffect
<1>10. ASSUME NEW c \in Conns, DetachEffect(c, owner[c]) PROVE Staged'
  BY <1>10, SMTT(40) DEF DetachEffect, OneConnection
<1>11. ASSUME NEW c \in Conns, DeregisterEffect(c, owner[c]) PROVE Staged'
  BY <1>11, SMTT(40) DEF DeregisterEffect, OneConnection
<1>12. ASSUME NEW c \in Conns, FarewellEffect(c, owner[c]) PROVE Staged'
  <2>1. ASSUME NEW d \in Conns, owner'[d] \in Peers \ overlapped'
        PROVE  /\ pc'[d] = pc[d] /\ owner'[d] = owner[d] /\ owner[d] # owner[c]
               /\ owner[d] \notin overlapped
    BY <1>12, <2>1 DEF FarewellEffect, Left, OneConnection
  <2> QED
    BY <1>12, <2>1, SMTT(40) DEF FarewellEffect
<1> QED
  BY <1>1, <1>2, <1>3, <1>4, <1>5, <1>6, <1>7, <1>8, <1>9, <1>10, <1>11, <1>12, LifeSteps, Zenon DEF LifeStep

-----------------------------------------------------------------------------
(* Every entry has a connection that will remove it *)

\* A registration keeps a connection that will remove it, unless its AuthOk was lost.
LEMMA RootedOnlineStep ==
  ASSUME TypeOK, Staged, RootedOnline, [Next]_vars
  PROVE  RootedOnline'
<1> USE RelayAssumption
<1> USE DEF RootedOnline, Serving, Moved
<1>1. CASE UNCHANGED <<pc, online, tokens, conns, senders, byTarget, byClient, owner, overlapped, leaked>>
  BY <1>1, ZenonT(40)
<1>2. ASSUME NEW c \in Conns, Turn(c) PROVE RootedOnline'
  BY <1>2 DEF Turn
<1>3. ASSUME NEW c \in Conns, NEW f \in Peers, RegisterEffect(c, f) PROVE RootedOnline'
  BY <1>3 DEF RegisterEffect, Fresh
<1>4. ASSUME NEW c \in Conns, AnnounceEffect(c, owner[c]) PROVE RootedOnline'
  BY <1>4 DEF AnnounceEffect
<1>5. ASSUME NEW c \in Conns, AttachEffect(c, owner[c]) PROVE RootedOnline'
  BY <1>5 DEF AttachEffect
<1>6. ASSUME NEW c \in Conns, IssueTokenEffect(c, owner[c]) PROVE RootedOnline'
  BY <1>6 DEF IssueTokenEffect
<1>7. ASSUME NEW c \in Conns, AuthOkLostEffect(c, owner[c]) PROVE RootedOnline'
  BY <1>7 DEF AuthOkLostEffect, Left
<1>8. ASSUME NEW c \in Conns, NEW t \in Peers, SubscribeEffect(c, owner[c], t) PROVE RootedOnline'
  BY <1>8 DEF SubscribeEffect
<1>9. ASSUME NEW c \in Conns, DisconnectEffect(c, owner[c]) PROVE RootedOnline'
  BY <1>9 DEF DisconnectEffect
<1>10. ASSUME NEW c \in Conns, DetachEffect(c, owner[c]) PROVE RootedOnline'
  BY <1>10 DEF DetachEffect
<1>11. ASSUME NEW c \in Conns, DeregisterEffect(c, owner[c]) PROVE RootedOnline'
  BY <1>11, SMTT(40) DEF DeregisterEffect
<1>12. ASSUME NEW c \in Conns, FarewellEffect(c, owner[c]) PROVE RootedOnline'
  BY <1>12 DEF FarewellEffect, Left, Staged
<1> QED
  BY <1>1, <1>2, <1>3, <1>4, <1>5, <1>6, <1>7, <1>8, <1>9, <1>10, <1>11, <1>12, LifeSteps, Zenon DEF LifeStep

\* So does every channel end and token.
LEMMA RootedEntriesStep ==
  ASSUME TypeOK, TypeOK', Staged, RootedEntries, [Next]_vars
  PROVE  RootedEntries'
<1> USE RelayAssumption
<1>0. \A f \in Peers :
        /\ conns[f] \in Conns \cup {None} /\ conns'[f] \in Conns \cup {None}
        /\ senders[f] \in Conns \cup {None} /\ senders'[f] \in Conns \cup {None}
  BY Zenon DEF TypeOK
<1> USE DEF RootedEntries, Attached, Announced, Tokened, Open, Serving, Closing, Moved
<1>1. CASE UNCHANGED <<pc, online, tokens, conns, senders, byTarget, byClient, owner, overlapped, leaked>>
  BY <1>1
<1>2. ASSUME NEW c \in Conns, Turn(c) PROVE RootedEntries'
  BY <1>0, <1>2, SMTT(40) DEF Turn
<1>3. ASSUME NEW c \in Conns, NEW f \in Peers, RegisterEffect(c, f) PROVE RootedEntries'
  BY <1>0, <1>3, SMTT(40) DEF RegisterEffect, Fresh
<1>4. ASSUME NEW c \in Conns, AnnounceEffect(c, owner[c]) PROVE RootedEntries'
  BY <1>0, <1>4, SMTT(40) DEF AnnounceEffect
<1>5. ASSUME NEW c \in Conns, AttachEffect(c, owner[c]) PROVE RootedEntries'
  BY <1>0, <1>5, SMTT(40) DEF AttachEffect
<1>6. ASSUME NEW c \in Conns, IssueTokenEffect(c, owner[c]) PROVE RootedEntries'
  BY <1>0, <1>6, SMTT(40) DEF IssueTokenEffect
<1>7. ASSUME NEW c \in Conns, AuthOkLostEffect(c, owner[c]) PROVE RootedEntries'
  BY <1>0, <1>7, SMTT(40) DEF AuthOkLostEffect, Left
<1>8. ASSUME NEW c \in Conns, NEW t \in Peers, SubscribeEffect(c, owner[c], t) PROVE RootedEntries'
  BY <1>0, <1>8, SMTT(40) DEF SubscribeEffect
<1>9. ASSUME NEW c \in Conns, DisconnectEffect(c, owner[c]) PROVE RootedEntries'
  BY <1>0, <1>9, SMTT(40) DEF DisconnectEffect
<1>10. ASSUME NEW c \in Conns, DetachEffect(c, owner[c]) PROVE RootedEntries'
  BY <1>0, <1>10, SMTT(40) DEF DetachEffect
<1>11. ASSUME NEW c \in Conns, DeregisterEffect(c, owner[c]) PROVE RootedEntries'
  BY <1>0, <1>11, SMTT(40) DEF DeregisterEffect
<1>12. ASSUME NEW c \in Conns, FarewellEffect(c, owner[c]) PROVE RootedEntries'
  BY <1>0, <1>12, SMTT(40) DEF FarewellEffect, Left, Staged
<1> QED
  BY <1>1, <1>2, <1>3, <1>4, <1>5, <1>6, <1>7, <1>8, <1>9, <1>10, <1>11, <1>12, LifeSteps, Zenon DEF LifeStep

\* And so does every subscription.
LEMMA RootedClientsStep ==
  ASSUME TypeOK, RootedClients, [Next]_vars
  PROVE  RootedClients'
<1> USE RelayAssumption
<1> USE DEF RootedClients, Serving, Closing, Moved
<1>1. CASE UNCHANGED <<pc, online, tokens, conns, senders, byTarget, byClient, owner, overlapped, leaked>>
  BY <1>1, ZenonT(40)
<1>2. ASSUME NEW c \in Conns, Turn(c) PROVE RootedClients'
  <2>1. \A d \in Conns : pc[d] \in Serving \cup Closing =>
          pc'[d] \in Serving \cup Closing /\ owner'[d] = owner[d]
    BY <1>2, Zenon DEF Turn
  <2>2. byClient' = byClient /\ leaked' = leaked
    BY <1>2, Zenon DEF Turn
  <2> HIDE DEF Serving, Closing
  <2>3. ASSUME NEW f \in Peers \ leaked', byClient'[f] # {}
        PROVE  \E d \in Conns : owner'[d] = f /\ pc'[d] \in Serving \cup Closing
    <3>1. PICK d \in Conns : owner[d] = f /\ pc[d] \in Serving \cup Closing
      BY <2>2, <2>3, Zenon
    <3> QED
      BY <3>1, <2>1, Zenon
  <2> QED
    BY <2>3, Zenon DEF Serving, Closing
<1>3. ASSUME NEW c \in Conns, NEW f \in Peers, RegisterEffect(c, f) PROVE RootedClients'
  BY <1>3 DEF RegisterEffect, Fresh
<1>4. ASSUME NEW c \in Conns, AnnounceEffect(c, owner[c]) PROVE RootedClients'
  <2>1. \A g \in Peers : byClient'[g] # {} => byClient[g] # {}
    BY <1>4, Zenon DEF AnnounceEffect
  <2>2. Moved(c, "announced") /\ pc[c] = "registered" /\ UNCHANGED <<owner, leaked>>
    BY <1>4, Zenon DEF AnnounceEffect
  <2> QED
    BY <2>1, <2>2
<1>5. ASSUME NEW c \in Conns, AttachEffect(c, owner[c]) PROVE RootedClients'
  BY <1>5 DEF AttachEffect
<1>6. ASSUME NEW c \in Conns, IssueTokenEffect(c, owner[c]) PROVE RootedClients'
  BY <1>6 DEF IssueTokenEffect
<1>7. ASSUME NEW c \in Conns, AuthOkLostEffect(c, owner[c]) PROVE RootedClients'
  BY <1>7, SMTT(40) DEF AuthOkLostEffect, Left
<1>8. ASSUME NEW c \in Conns, NEW t \in Peers, SubscribeEffect(c, owner[c], t) PROVE RootedClients'
  BY <1>8 DEF SubscribeEffect
<1>9. ASSUME NEW c \in Conns, DisconnectEffect(c, owner[c]) PROVE RootedClients'
  BY <1>9 DEF DisconnectEffect
<1>10. ASSUME NEW c \in Conns, DetachEffect(c, owner[c]) PROVE RootedClients'
  BY <1>10 DEF DetachEffect
<1>11. ASSUME NEW c \in Conns, DeregisterEffect(c, owner[c]) PROVE RootedClients'
  BY <1>11, SMTT(40) DEF DeregisterEffect
<1>12. ASSUME NEW c \in Conns, FarewellEffect(c, owner[c]) PROVE RootedClients'
  <2>1. \A g \in Peers : byClient'[g] # {} => byClient[g] # {} /\ g # owner[c]
    BY <1>12, Zenon DEF FarewellEffect
  <2>2. /\ Moved(c, "closed") /\ Left(c) /\ \A g \in Peers : g # owner[c] => (g \in leaked' <=> g \in leaked)
    BY <1>12, Zenon DEF FarewellEffect
  <2> QED
    BY <2>1, <2>2 DEF Left
<1> QED
  BY <1>1, <1>2, <1>3, <1>4, <1>5, <1>6, <1>7, <1>8, <1>9, <1>10, <1>11, <1>12, LifeSteps, Zenon DEF LifeStep

-----------------------------------------------------------------------------
(* What watchers are told *)

\* Every event in a queue stays about a peer its connection watches.
LEMMA EventsStep ==
  ASSUME TypeOK, EndsOwned, NotYetEntered, OneConnection, Staged, EventsWatched, [Next]_vars
  PROVE  EventsWatched'
<1> USE RelayAssumption
<1>1. \A d \in Conns : pc[d] \in Open => owner[d] \in Peers
  BY Zenon DEF TypeOK, TaskShape, Open, Serving
<1>2. \A d \in Conns : \A i \in 1..Len(events[d]) : events[d][i].target \in Peers
  <2> SUFFICES ASSUME NEW d \in Conns, NEW i \in 1..Len(events[d])
               PROVE  events[d][i].target \in Peers
    OBVIOUS
  <2>1. events[d] \in Seq(Event)
    BY Zenon DEF TypeOK
  <2>2. events[d][i] \in Event
    BY <2>1
  <2> QED
    BY <2>2, Zenon DEF Event
<1>3. \A d \in Conns : pc[d] \notin Open => events[d] = <<>>
  BY Zenon DEF TypeOK, TaskShape
<1>4. ASSUME NEW d \in Conns, pc[d] \in Open, owner'[d] = owner[d], owner[d] \notin overlapped,
             pc'[d] = pc[d] \/ pc'[d] \in Serving \/ (pc'[d] \in Open /\ pc[d] \notin Serving),
             events'[d] = events[d], byTarget' = byTarget
      PROVE  /\ \A i \in 1..Len(events'[d]) : byTarget'[events'[d][i].target][owner'[d]] = d
             /\ pc'[d] \notin Serving => \A t \in Peers : byTarget'[t][owner'[d]] # d
  BY <1>4, ZenonT(40) DEF EventsWatched
<1>5. CASE UNCHANGED <<pc, online, senders, byTarget, byClient, owner, overlapped, leaked, events, job, known>>
  BY <1>5, Zenon DEF EventsWatched
<1>6. ASSUME NEW c \in Conns, Calm(c) \/ AuthOkSentEffect(c) \/ ReplyEffect(c)
      PROVE  EventsWatched'
  <2>1. Turn(c) /\ events' = events
    BY <1>6, Zenon DEF Calm, AuthOkSentEffect, ReplyEffect
  <2> QED
    BY <1>4, <2>1 DEF Turn, EventsWatched, Open, Serving
<1>7. ASSUME NEW c \in Conns, PushEffect(c) PROVE EventsWatched'
  <2>1. /\ events[c] \in Seq(Event) /\ events[c] # <<>> /\ events'[c] = Tail(events[c])
        /\ \A d \in Conns \ {c} : events'[d] = events[d]
        /\ \A d \in Conns : pc'[d] = pc[d]
        /\ UNCHANGED <<owner, overlapped, byTarget>>
    BY <1>7, Zenon DEF PushEffect, PushPresence, Turn, TypeOK
  <2>2. \A i \in 1..Len(events'[c]) : i + 1 \in 1..Len(events[c]) /\ events'[c][i] = events[c][i + 1]
    BY <2>1, TailShifts, ZenonT(40)
  <2>3. ASSUME NEW d \in Conns, pc'[d] \in Open, owner'[d] \notin overlapped'
        PROVE  \A i \in 1..Len(events'[d]) : byTarget'[events'[d][i].target][owner'[d]] = d
    <3>1. \A i \in 1..Len(events[d]) : byTarget[events[d][i].target][owner[d]] = d
      BY <2>1, <2>3, Zenon DEF EventsWatched
    <3>2. CASE d = c
      <4>1. ASSUME NEW i \in 1..Len(events'[c])
            PROVE  byTarget'[events'[c][i].target][owner'[c]] = c
        <5>1. i + 1 \in 1..Len(events[c]) /\ events'[c][i] = events[c][i + 1]
          BY <2>2, Zenon
        <5>2. byTarget[events[c][i + 1].target][owner[c]] = c
          BY <3>1, <3>2, <5>1, Zenon
        <5> QED
          BY <2>1, <5>1, <5>2, Zenon
      <4> QED
        BY <3>2, <4>1, Zenon
    <3>3. CASE d # c
      BY <2>1, <3>1, <3>3, Zenon
    <3> QED
      BY <3>2, <3>3, Zenon
  <2> QED
    BY <2>1, <2>3, ZenonT(40) DEF EventsWatched
<1>8. ASSUME NEW c \in Conns, NEW f \in Peers, RegisterEffect(c, f) PROVE EventsWatched'
  <2>1. ASSUME NEW d \in Conns, pc'[d] \in Open, owner'[d] \notin overlapped'
        PROVE  d # c /\ pc[d] = pc'[d] /\ owner'[d] = owner[d] /\ owner[d] \notin overlapped
    BY <1>1, <1>8, <2>1, Zenon DEF RegisterEffect, Moved, Open, Serving
  <2> QED
    BY <1>8, <2>1 DEF RegisterEffect, EventsWatched
<1>9. ASSUME NEW c \in Conns, AttachEffect(c, owner[c]) \/ IssueTokenEffect(c, owner[c])
      PROVE  EventsWatched'
  <2>1. /\ UNCHANGED <<owner, overlapped, events, byTarget>> /\ pc[c] \in {"announced", "attached"}
        /\ \A d \in Conns \ {c} : pc'[d] = pc[d]
    BY <1>9, Zenon DEF AttachEffect, IssueTokenEffect, Moved
  <2> QED
    BY <2>1 DEF EventsWatched, Open, Serving
<1>10. ASSUME NEW c \in Conns, AuthOkLostEffect(c, owner[c]) PROVE EventsWatched'
  <2>1. ASSUME NEW d \in Conns, pc'[d] \in Open, owner'[d] \notin overlapped'
        PROVE  d # c /\ pc[d] = pc'[d] /\ owner'[d] = owner[d] /\ owner[d] \notin overlapped
    BY <1>1, <1>10, <2>1, ZenonT(40) DEF AuthOkLostEffect, Moved, Left, Open, Serving
  <2> QED
    BY <1>10, <2>1 DEF AuthOkLostEffect, HungUp, EventsWatched
<1>11. ASSUME NEW c \in Conns,
              DisconnectEffect(c, owner[c]) \/ DetachEffect(c, owner[c]) \/ DeregisterEffect(c, owner[c])
       PROVE  EventsWatched'
  <2>1. /\ UNCHANGED <<owner, overlapped, byTarget>> /\ pc'[c] \notin Open
        /\ \A d \in Conns \ {c} : pc'[d] = pc[d] /\ events'[d] = events[d]
    BY <1>11, Zenon DEF DisconnectEffect, DetachEffect, DeregisterEffect, HungUp, Moved, Open, Serving
  <2> QED
    BY <2>1 DEF EventsWatched
<1>12. ASSUME NEW c \in Conns, NEW t \in Peers, SubscribeEffect(c, owner[c], t) PROVE EventsWatched'
  <2>1. owner[c] \in Peers /\ (owner[c] \notin overlapped => senders[owner[c]] = c)
    BY <1>12, Zenon DEF SubscribeEffect, Staged, Announced, Open, Serving
  <2>2. /\ pc[c] = "select" /\ UNCHANGED <<events, owner, overlapped>> /\ Moved(c, "replying")
        /\ \A s, g \in Peers :
             byTarget'[s][g] = IF s = t /\ g = owner[c] THEN senders[owner[c]] ELSE byTarget[s][g]
    BY <1>12, ZenonT(40) DEF SubscribeEffect
  <2>3. ASSUME NEW d \in Conns, pc[d] \in Open, owner[d] \notin overlapped, NEW s \in Peers
        PROVE  /\ byTarget[s][owner[d]] = d => byTarget'[s][owner[d]] = d
               /\ d # c /\ byTarget'[s][owner[d]] = d => byTarget[s][owner[d]] = d
    BY <1>1, <2>1, <2>2, <2>3 DEF OneConnection
  <2>4. ASSUME NEW d \in Conns, pc'[d] \in Open, owner'[d] \notin overlapped'
        PROVE  /\ \A i \in 1..Len(events'[d]) : byTarget'[events'[d][i].target][owner'[d]] = d
               /\ pc'[d] \notin Serving => \A s \in Peers : byTarget'[s][owner'[d]] # d
    <3>1. pc[d] \in Open /\ owner'[d] = owner[d] /\ owner[d] \notin overlapped /\ events'[d] = events[d]
      BY <2>2, <2>4, Zenon DEF Moved, Open, Serving
    <3>2. \A i \in 1..Len(events[d]) : byTarget[events[d][i].target][owner[d]] = d
      BY <3>1, Zenon DEF EventsWatched
    <3>3. pc'[d] \notin Serving => d # c /\ \A s \in Peers : byTarget[s][owner[d]] # d
      BY <2>2, <3>1, Zenon DEF EventsWatched, Moved, Serving
    <3>4. \A i \in 1..Len(events[d]) : byTarget'[events[d][i].target][owner[d]] = d
      BY <1>2, <2>3, <3>1, <3>2, Zenon
    <3>5. pc'[d] \notin Serving => \A s \in Peers : byTarget'[s][owner[d]] # d
      BY <2>3, <3>1, <3>3, Zenon
    <3> QED
      BY <3>1, <3>4, <3>5, Zenon
  <2> QED
    BY <2>4, Zenon DEF EventsWatched
<1>13. ASSUME NEW f \in Peers, NEW on, Notified(f, on), NEW d \in Conns,
              pc[d] \in Open, owner'[d] = owner[d], owner[d] \notin overlapped, pc'[d] = pc[d],
              \A s \in Peers : byTarget'[s][owner[d]] = byTarget[s][owner[d]]
                               \/ (s = f /\ owner[d] \in Dead(f) /\ byTarget'[s][owner[d]] = None)
       PROVE  /\ \A i \in 1..Len(events'[d]) : byTarget'[events'[d][i].target][owner'[d]] = d
              /\ pc'[d] \notin Serving => \A t \in Peers : byTarget'[t][owner'[d]] # d
  <2>1. owner[d] \in Peers /\ events[d] \in Seq(Event)
    BY <1>1, <1>13, Zenon DEF TypeOK
  <2>2. \A s \in Peers : byTarget[s][owner[d]] = d <=> byTarget'[s][owner[d]] = d
    BY <1>13, <2>1, Zenon DEF Dead
  <2>3. pc'[d] \notin Serving => \A t \in Peers : byTarget'[t][owner'[d]] # d
    BY <1>13, <2>2, Zenon DEF EventsWatched
  <2>4. CASE d \notin Watching(f)
    <3>1. events'[d] = events[d]
      BY <1>13, <2>4, Zenon DEF Notified
    <3>2. \A i \in 1..Len(events[d]) : byTarget[events[d][i].target][owner[d]] = d
      BY <1>13, Zenon DEF EventsWatched
    <3> QED
      BY <1>2, <1>13, <2>2, <2>3, <3>1, <3>2, ZenonT(40)
  <2>5. CASE d \in Watching(f)
    <3> DEFINE e == [target |-> f, online |-> on]
    <3>1. byTarget[f][owner[d]] = d
      BY <2>5 DEF Watching, EndsOwned
    <3>2. e.target = f /\ events'[d] = Append(events[d], e)
      BY <1>13, <2>5, Zenon DEF Notified
    <3> HIDE DEF e
    <3>3. /\ Len(events'[d]) = Len(events[d]) + 1 /\ events'[d][Len(events[d]) + 1] = e
          /\ Len(events[d]) \in Nat
          /\ \A i \in 1..Len(events[d]) : events'[d][i] = events[d][i]
      BY <2>1, <3>2
    <3>4. \A i \in 1..Len(events[d]) : byTarget[events[d][i].target][owner[d]] = d
      BY <1>13, ZenonT(40) DEF EventsWatched
    <3>5. ASSUME NEW i \in 1..Len(events'[d]) PROVE byTarget'[events'[d][i].target][owner'[d]] = d
      <4>1. CASE i \in 1..Len(events[d])
        BY <1>2, <1>13, <2>2, <3>3, <3>4, <4>1, ZenonT(40)
      <4>2. CASE i = Len(events[d]) + 1
        BY <1>13, <2>2, <3>1, <3>2, <3>3, <4>2, Zenon
      <4> QED
        BY <3>3, <4>1, <4>2, SMTT(40)
    <3> QED
      BY <2>3, <3>5, Zenon
  <2> QED
    BY <2>4, <2>5, Zenon
<1>14. ASSUME NEW c \in Conns, AnnounceEffect(c, owner[c]) PROVE EventsWatched'
  <2> DEFINE f == owner[c]
  <2>1. /\ f \in Peers /\ pc[c] = "registered" /\ Moved(c, "announced") /\ Notified(f, TRUE)
        /\ UNCHANGED <<owner, overlapped>>
        /\ \A s, g \in Peers : byTarget'[s][g] = IF s = f /\ g \in Dead(f) THEN None ELSE byTarget[s][g]
    BY <1>14, ZenonT(40) DEF AnnounceEffect
  <2>2. events'[c] = <<>> /\ \A t \in Peers : byTarget'[t][f] # c
    <3>1. pc[c] \notin Open
      BY <2>1, Zenon DEF Open, Serving
    <3>2. events'[c] = events[c]
      BY <2>1, <3>1, Zenon DEF Notified, Watching
    <3>3. \A t \in Peers : byTarget[t][f] # c
      BY <2>1, Zenon DEF NotYetEntered
    <3>4. c # None
      BY RelayAssumption, Zenon
    <3> QED
      BY <1>3, <2>1, <3>1, <3>2, <3>3, <3>4, Zenon
  <2>3. ASSUME NEW d \in Conns \ {c}, pc'[d] \in Open, owner'[d] \notin overlapped'
        PROVE  /\ \A i \in 1..Len(events'[d]) : byTarget'[events'[d][i].target][owner'[d]] = d
               /\ pc'[d] \notin Serving => \A t \in Peers : byTarget'[t][owner'[d]] # d
    <3>1. pc[d] \in Open /\ owner'[d] = owner[d] /\ owner[d] \notin overlapped /\ pc'[d] = pc[d]
      BY <2>1, <2>3, Zenon DEF Moved
    <3>2. \A s \in Peers : byTarget'[s][owner[d]] = byTarget[s][owner[d]]
                            \/ (s = f /\ owner[d] \in Dead(f) /\ byTarget'[s][owner[d]] = None)
      BY <1>1, <2>1, <3>1, Zenon
    <3> QED
      BY <1>13, <2>1, <3>1, <3>2, Zenon
  <2> QED
    BY <2>1, <2>2, <2>3 DEF EventsWatched
<1>15. ASSUME NEW c \in Conns, FarewellEffect(c, owner[c]) PROVE EventsWatched'
  <2> DEFINE f == owner[c]
  <2>1. /\ f \in Peers /\ pc[c] = "deregistered" /\ Moved(c, "closed") /\ Notified(f, FALSE) /\ Left(c)
        /\ \A s, g \in Peers : g # f =>
             byTarget'[s][g] = IF s = f /\ g \in Dead(f) THEN None ELSE byTarget[s][g]
    BY <1>15, Zenon DEF FarewellEffect
  <2>2. ASSUME NEW d \in Conns, pc'[d] \in Open, owner'[d] \notin overlapped'
        PROVE  /\ pc[d] \in Open /\ owner'[d] = owner[d] /\ pc'[d] = pc[d]
               /\ owner[d] \notin overlapped /\ owner[d] # f
    BY <1>1, <2>1, <2>2 DEF Left, Moved, OneConnection, Open, Serving
  <2>3. ASSUME NEW d \in Conns, pc'[d] \in Open, owner'[d] \notin overlapped'
        PROVE  /\ \A i \in 1..Len(events'[d]) : byTarget'[events'[d][i].target][owner'[d]] = d
               /\ pc'[d] \notin Serving => \A t \in Peers : byTarget'[t][owner'[d]] # d
    <3>1. /\ pc[d] \in Open /\ owner'[d] = owner[d] /\ pc'[d] = pc[d]
          /\ owner[d] \notin overlapped /\ owner[d] # f
      BY <2>2, <2>3, Zenon
    <3>2. \A s \in Peers : byTarget'[s][owner[d]] = byTarget[s][owner[d]]
                            \/ (s = f /\ owner[d] \in Dead(f) /\ byTarget'[s][owner[d]] = None)
      BY <1>1, <2>1, <3>1, Zenon
    <3> QED
      BY <1>13, <2>1, <3>1, <3>2, Zenon
  <2> QED
    BY <2>3, Zenon DEF EventsWatched
<1> QED
  BY <1>5, <1>6, <1>7, <1>8, <1>9, <1>10, <1>11, <1>12, <1>14, <1>15, PresenceSteps, Zenon DEF LifeStep
=============================================================================
