----------------------------- MODULE RelayProofs -----------------------------
(***************************************************************************)
(* Proofs about Relay, for any number of peers, connections, pairs and     *)
(* frames: forwarding pairs are sound, the presence registry's two maps    *)
(* mirror each other, and presence is true.                                *)
(***************************************************************************)
EXTENDS RelayStages

-----------------------------------------------------------------------------
(* What a watcher was told last. *)

\* The last event about t in a queue.
LastAbout(c, t, i) ==
  /\ i \in 1..Len(events[c]) /\ events[c][i].target = t
  /\ \A j \in 1..Len(events[c]) : j > i => events[c][j].target # t

\* c is the channel of a served watcher of t, and t is neither on its way in nor
\* on its way out.
Settled(c, t) ==
  /\ pc[c] \in Serving /\ owner[c] \notin overlapped /\ byTarget[t][owner[c]] = c
  /\ t \notin overlapped /\ t \notin leaked
  /\ \A d \in Conns : owner[d] = t => pc[d] \in Open

\* The last event about t in the queue of c is true; with none there, what was sent
\* last is, or the reply that is being written will be.
Informed(c, t) ==
  /\ \A i \in 1..Len(events[c]) : LastAbout(c, t, i) => (events[c][i].online <=> t \in online)
  /\ \/ \E i \in 1..Len(events[c]) : events[c][i].target = t
     \/ pc[c] = "replying" /\ job[c].peer = t
     \/ known[c][t] = IF t \in online THEN "online" ELSE "offline"

Told == \A c \in Conns, t \in Peers : Settled(c, t) => Informed(c, t)

RelayInv ==
  /\ TypeOK /\ PairInv /\ SubscriptionsMirrored /\ StageInv /\ EventsWatched /\ Told

-----------------------------------------------------------------------------
(* Watchers stay informed *)

\* A watcher stays informed while its queue, what it was told and the target stay.
LEMMA StillInformed ==
  ASSUME NEW d \in Conns, NEW t \in Peers, Informed(d, t),
         events'[d] = events[d], known'[d][t] = known[d][t], t \in online' <=> t \in online,
         pc[d] = "replying" /\ job[d].peer = t => pc'[d] = "replying" /\ job'[d].peer = t
  PROVE  Informed(d, t)'
BY Zenon DEF Informed, LastAbout

\* An event about another peer changes nothing for t.
LEMMA InformedOfAnother ==
  ASSUME TypeOK, NEW d \in Conns, NEW t \in Peers, Informed(d, t),
         NEW e \in Event, e.target # t, events'[d] = Append(events[d], e),
         known'[d][t] = known[d][t], t \in online' <=> t \in online,
         pc[d] = "replying" /\ job[d].peer = t => pc'[d] = "replying" /\ job'[d].peer = t
  PROVE  Informed(d, t)'
<1>1. /\ Len(events[d]) \in Nat /\ Len(events'[d]) = Len(events[d]) + 1
      /\ events'[d][Len(events[d]) + 1] = e
      /\ \A i \in 1..Len(events[d]) : events'[d][i] = events[d][i]
  BY DEF TypeOK
<1>2. \A i \in 1..Len(events'[d]) : LastAbout(d, t, i)' => i \in 1..Len(events[d]) /\ LastAbout(d, t, i)
  BY <1>1 DEF LastAbout
<1> QED
  BY <1>1, <1>2 DEF Informed

\* A true event about t informs its watcher.
LEMMA NowInformed ==
  ASSUME TypeOK, NEW d \in Conns, NEW t \in Peers, NEW e \in Event, e.target = t,
         events'[d] = Append(events[d], e), e.online <=> t \in online'
  PROVE  Informed(d, t)'
<1>1. /\ Len(events[d]) \in Nat /\ Len(events'[d]) = Len(events[d]) + 1
      /\ events'[d][Len(events[d]) + 1] = e
  BY DEF TypeOK
<1>2. \A i \in 1..Len(events'[d]) : LastAbout(d, t, i)' => i = Len(events[d]) + 1
  BY <1>1 DEF LastAbout
<1>3. \E i \in 1..Len(events'[d]) : events'[d][i].target = t
  BY <1>1
<1> QED
  BY <1>1, <1>2, <1>3, Zenon DEF Informed

\* Taking the first event of the queue keeps its watcher informed.
LEMMA PushInforms ==
  ASSUME TypeOK, NEW c \in Conns, NEW t \in Peers, PushPresence(c), Informed(c, t)
  PROVE  Informed(c, t)'
<1> DEFINE e == Head(events[c])
<1>1. /\ events[c] \in Seq(Event) /\ events[c] # <<>> /\ e = events[c][1] /\ e \in Event
      /\ events'[c] = Tail(events[c]) /\ pc' = pc /\ job' = job /\ online' = online
      /\ pc[c] = "presence"
  BY DEF PushPresence, TypeOK, registry
<1>2. e.target \in Peers
  BY <1>1, Zenon DEF Event
<1>3. known'[c][t] = IF t = e.target THEN IF e.online THEN "online" ELSE "offline" ELSE known[c][t]
  BY <1>2, Zenon DEF PushPresence, TypeOK
<1>4. /\ Len(events[c]) \in Nat /\ Len(events[c]) > 0 /\ Len(events'[c]) = Len(events[c]) - 1
      /\ \A i \in 1..Len(events'[c]) : events'[c][i] = events[c][i + 1]
  BY <1>1
<1> HIDE DEF e
<1>5. \A i \in 1..Len(events'[c]) :
        LastAbout(c, t, i)' => i + 1 \in 1..Len(events[c]) /\ LastAbout(c, t, i + 1)
  <2> SUFFICES ASSUME NEW i \in 1..Len(events'[c]), LastAbout(c, t, i)'
               PROVE  i + 1 \in 1..Len(events[c]) /\ LastAbout(c, t, i + 1)
    OBVIOUS
  <2>1. i + 1 \in 1..Len(events[c]) /\ events[c][i + 1].target = t
    BY <1>4 DEF LastAbout
  <2>2. ASSUME NEW j \in 1..Len(events[c]), j > i + 1 PROVE events[c][j].target # t
    <3>1. j - 1 \in 1..Len(events'[c]) /\ j - 1 > i /\ events'[c][j - 1] = events[c][j]
      BY <1>4, <2>2
    <3> QED
      BY <3>1, Zenon DEF LastAbout
  <2> QED
    BY <2>1, <2>2, Zenon DEF LastAbout
<1>6. \A i \in 1..Len(events'[c]) : LastAbout(c, t, i)' => (events'[c][i].online <=> t \in online')
  BY <1>1, <1>4, <1>5, Zenon DEF Informed
<1>7. CASE \E i \in 1..Len(events'[c]) : events'[c][i].target = t
  BY <1>6, <1>7, Zenon DEF Informed
<1>8. CASE \A i \in 1..Len(events'[c]) : events'[c][i].target # t
  <2>1. \A j \in 1..Len(events[c]) : j > 1 => events[c][j].target # t
    <3> SUFFICES ASSUME NEW j \in 1..Len(events[c]), j > 1 PROVE events[c][j].target # t
      OBVIOUS
    <3>1. j - 1 \in 1..Len(events'[c]) /\ events'[c][j - 1] = events[c][j]
      BY <1>4
    <3> QED
      BY <1>8, <3>1, Zenon
  <2>2. CASE e.target = t
    <3>1. 1 \in 1..Len(events[c]) /\ LastAbout(c, t, 1)
      BY <1>1, <1>4, <2>1, <2>2 DEF LastAbout
    <3>2. e.online <=> t \in online
      BY <1>1, <3>1, Zenon DEF Informed
    <3> QED
      BY <1>1, <1>3, <1>6, <2>2, <3>2, Zenon DEF Informed
  <2>3. CASE e.target # t
    <3>1. \A j \in 1..Len(events[c]) : events[c][j].target # t
      BY <1>1, <2>1, <2>3
    <3>2. known[c][t] = IF t \in online THEN "online" ELSE "offline"
      BY <1>1, <3>1, Zenon DEF Informed
    <3> QED
      BY <1>1, <1>3, <1>6, <2>3, <3>2, Zenon DEF Informed
  <2> QED
    BY <2>2, <2>3, Zenon
<1> QED
  BY <1>7, <1>8, Zenon

\* Every step keeps the watchers of a settled peer informed.
LEMMA ToldStep ==
  ASSUME TypeOK, TypeOK', OneConnection, Staged, RootedOnline', EventsWatched, Told, [Next]_vars
  PROVE  Told'
<1> SUFFICES ASSUME NEW d \in Conns, NEW t \in Peers, Settled(d, t)'
             PROVE  Informed(d, t)'
  BY Zenon DEF Told
<1> USE RelayAssumption
<1>1. \A c \in Conns : pc[c] \in Open => owner[c] \in Peers
  BY Zenon DEF TypeOK, TaskShape, Open, Serving
<1>2. /\ pc'[d] \in Serving /\ owner'[d] \in Peers /\ owner'[d] \notin overlapped'
      /\ byTarget'[t][owner'[d]] = d /\ t \notin overlapped' /\ t \notin leaked'
      /\ \A k \in Conns : owner'[k] = t => pc'[k] \in Open
  BY DEF Settled, TypeOK, TaskShape, Serving
<1>3. ASSUME Settled(d, t), events'[d] = events[d], known'[d] = known[d],
             t \in online' <=> t \in online,
             pc[d] = "replying" /\ job[d].peer = t => pc'[d] = "replying" /\ job'[d].peer = t
      PROVE  Informed(d, t)'
  BY <1>3, StillInformed, Zenon DEF Told
<1>4. CASE UNCHANGED <<pc, online, senders, byTarget, byClient, owner, overlapped, leaked, events, job, known>>
  BY <1>3, <1>4, Zenon DEF Settled
<1>5. ASSUME NEW c \in Conns, Turn(c), pc[c] # "tokened" \/ d # c PROVE Settled(d, t)
  BY <1>2, <1>5, Zenon DEF Settled, Turn, Open, Serving
<1>6. ASSUME NEW c \in Conns, Calm(c) PROVE Informed(d, t)'
  <2>1. Settled(d, t)
    BY <1>5, <1>6, Zenon DEF Calm
  <2> QED
    BY <1>3, <1>6, <2>1, Zenon DEF Calm, Turn
<1>7. ASSUME NEW c \in Conns, AuthOkSentEffect(c) PROVE Informed(d, t)'
  <2>1. d # c
    BY <1>2, <1>7, Zenon DEF AuthOkSentEffect, Turn, EventsWatched, Open, Serving
  <2>2. Settled(d, t)
    BY <1>5, <1>7, <2>1, Zenon DEF AuthOkSentEffect
  <2> QED
    BY <1>3, <1>7, <2>1, <2>2, Zenon DEF AuthOkSentEffect, Turn
<1>8. ASSUME NEW c \in Conns, PushEffect(c) PROVE Informed(d, t)'
  <2>1. Settled(d, t)
    BY <1>5, <1>8, Zenon DEF PushEffect
  <2>2. CASE d = c
    BY <1>8, <2>1, <2>2, PushInforms, Zenon DEF PushEffect, Told
  <2>3. CASE d # c
    BY <1>3, <1>8, <2>1, <2>3, Zenon DEF PushEffect, Turn
  <2> QED
    BY <2>2, <2>3, Zenon
<1>9. ASSUME NEW c \in Conns, ReplyEffect(c) PROVE Informed(d, t)'
  <2>1. Settled(d, t)
    BY <1>5, <1>9, Zenon DEF ReplyEffect
  <2>2. CASE d = c /\ job[c].peer = t
    <3>1. known'[c][t] = (IF t \in online' THEN "online" ELSE "offline") /\ online' = online
      BY <1>9, <2>2, Zenon DEF ReplyEffect, Turn
    <3> QED
      <4>1. Informed(d, t) /\ events' = events
        BY <1>9, <2>1, Zenon DEF ReplyEffect, Told
      <4> QED
        BY <2>2, <3>1, <4>1 DEF Informed, LastAbout
  <2>3. CASE d = c /\ job[c].peer # t
    <3>1. known'[c][t] = known[c][t] /\ online' = online /\ events' = events
      BY <1>9, <2>3, Zenon DEF ReplyEffect, Turn
    <3> QED
      BY <2>1, <2>3, <3>1, StillInformed, Zenon DEF Told
  <2>4. CASE d # c
    BY <1>3, <1>9, <2>1, <2>4, Zenon DEF ReplyEffect, Turn
  <2> QED
    BY <2>2, <2>3, <2>4, Zenon
<1>10. ASSUME NEW c \in Conns, NEW f \in Peers, RegisterEffect(c, f) PROVE Informed(d, t)'
  <2>1. d # c /\ t # f
    BY <1>2, <1>10, Zenon DEF RegisterEffect, Moved, Open, Serving
  <2>2. Settled(d, t)
    BY <1>2, <1>10, <2>1, Zenon DEF RegisterEffect, Moved, Settled, Fresh
  <2> QED
    BY <1>3, <1>10, <2>1, <2>2, Zenon DEF RegisterEffect, Moved
<1>11. ASSUME NEW c \in Conns, AttachEffect(c, owner[c]) \/ IssueTokenEffect(c, owner[c])
       PROVE  Informed(d, t)'
  <2>1. /\ UNCHANGED <<owner, overlapped, leaked, online, byTarget, events, job, known>>
        /\ pc[c] \in Open /\ pc'[c] \notin Serving /\ \A k \in Conns \ {c} : pc'[k] = pc[k]
    BY <1>11, Zenon DEF AttachEffect, IssueTokenEffect, Moved, Open, Serving
  <2>2. d # c /\ Settled(d, t)
    BY <1>2, <2>1, Zenon DEF Settled
  <2> QED
    BY <1>3, <2>1, <2>2, Zenon
<1>12. ASSUME NEW c \in Conns, AuthOkLostEffect(c, owner[c]) PROVE Informed(d, t)'
  <2>1. d # c /\ t # owner[c] /\ owner'[d] = owner[d] /\ pc'[d] = pc[d]
    BY <1>2, <1>12, Zenon DEF AuthOkLostEffect, Moved, Left, Serving
  <2>2. owner[d] \notin overlapped /\ t \notin overlapped
    BY <1>2, <1>12, <2>1, Zenon DEF AuthOkLostEffect, Left, OneConnection
  <2>3. Settled(d, t)
    BY <1>2, <1>12, <2>1, <2>2, Zenon DEF AuthOkLostEffect, Moved, Left, Settled
  <2> QED
    BY <1>3, <1>12, <2>1, <2>3, Zenon DEF AuthOkLostEffect, HungUp
<1>13. ASSUME NEW c \in Conns, NEW s \in Peers, SubscribeEffect(c, owner[c], s) PROVE Informed(d, t)'
  <2>1. /\ pc[c] = "select" /\ Moved(c, "replying") /\ job'[c].peer = s /\ owner[c] \in Peers
        /\ \A k \in Conns \ {c} : job'[k] = job[k]
        /\ \A k, g \in Peers : ~(k = s /\ g = owner[c]) => byTarget'[k][g] = byTarget[k][g]
        /\ UNCHANGED <<online, owner, events, known, overlapped, leaked>>
    BY <1>13, Zenon DEF SubscribeEffect
  <2>2. /\ pc[d] \in Serving /\ owner[d] \in Peers \ overlapped /\ t \notin overlapped
        /\ t \notin leaked /\ \A k \in Conns : owner[k] = t => pc[k] \in Open
    BY <1>2, <2>1, Zenon DEF Moved, Open, Serving
  <2>3. CASE d # c \/ t # s
    <3>1. owner[d] # owner[c] \/ t # s
      BY <2>2, <2>3, Zenon DEF OneConnection
    <3>2. Settled(d, t)
      BY <1>2, <2>1, <2>2, <3>1, Zenon DEF Settled
    <3>3. pc[d] = "replying" /\ job[d].peer = t => pc'[d] = "replying" /\ job'[d].peer = t
      BY <2>1, Zenon DEF Moved
    <3> QED
      BY <1>3, <2>1, <3>2, <3>3, Zenon
  <2>4. CASE d = c /\ t = s
    <3>1. ASSUME NEW i \in 1..Len(events[c]), events[c][i].target = s PROVE Informed(c, s)
      <4>1. byTarget[s][owner[c]] = c
        BY <2>2, <2>4, <3>1, Zenon DEF EventsWatched, Open
      <4>2. Settled(c, s)
        BY <2>2, <2>4, <4>1, Zenon DEF Settled
      <4> QED
        BY <4>2, Zenon DEF Told
    <3> QED
      BY <2>1, <2>4, <3>1 DEF Informed, LastAbout, Moved
  <2> QED
    BY <2>3, <2>4, Zenon
<1>14. ASSUME NEW c \in Conns, DisconnectEffect(c, owner[c]) \/ DetachEffect(c, owner[c])
       PROVE  Informed(d, t)'
  <2>1. /\ UNCHANGED <<owner, overlapped, leaked, online, byTarget>> /\ pc'[c] \notin Open
        /\ \A k \in Conns \ {c} : /\ pc'[k] = pc[k] /\ events'[k] = events[k]
                                   /\ job'[k] = job[k] /\ known'[k] = known[k]
    BY <1>14, Zenon DEF DisconnectEffect, DetachEffect, HungUp, Moved, Open, Serving
  <2>2. d # c /\ owner[c] # t
    BY <1>2, <2>1, Zenon DEF Open
  <2>3. Settled(d, t)
    BY <1>2, <2>1, <2>2, Zenon DEF Settled
  <2> QED
    BY <1>3, <2>1, <2>2, <2>3, Zenon
<1>15. ASSUME NEW c \in Conns, DeregisterEffect(c, owner[c]) PROVE Informed(d, t)'
  <2>1. d # c /\ t # owner[c]
    BY <1>2, <1>15, Zenon DEF DeregisterEffect, Moved, Open, Serving
  <2>2. Settled(d, t)
    BY <1>2, <1>15, <2>1, Zenon DEF DeregisterEffect, Moved, Settled
  <2> QED
    BY <1>3, <1>15, <2>1, <2>2, Zenon DEF DeregisterEffect, Moved
<1>16. ASSUME NEW f \in Peers, NEW on \in BOOLEAN, Notified(f, on), f # t => Settled(d, t),
              f = t => (d \in Watching(f) /\ (on <=> t \in online')),
              pc'[d] = pc[d], UNCHANGED <<online, job, known>>
       PROVE  Informed(d, t)'
  <2> DEFINE e == [target |-> f, online |-> on]
  <2>1. e \in Event /\ e.target = f /\ e.online = on
    BY <1>16, Zenon DEF Event
  <2>2. events'[d] = IF d \in Watching(f) THEN Append(events[d], e) ELSE events[d]
    BY <1>16, Zenon DEF Notified
  <2> HIDE DEF e
  <2>3. CASE t = f
    BY <1>16, <2>1, <2>2, <2>3, NowInformed, Zenon
  <2>4. CASE t # f /\ d \in Watching(f)
    BY <1>16, <2>1, <2>2, <2>4, InformedOfAnother, Zenon DEF Told
  <2>5. CASE t # f /\ d \notin Watching(f)
    BY <1>3, <1>16, <2>2, <2>5, Zenon
  <2> QED
    BY <2>3, <2>4, <2>5, Zenon
<1>17. ASSUME NEW c \in Conns, AnnounceEffect(c, owner[c]) PROVE Informed(d, t)'
  <2> DEFINE f == owner[c]
  <2>1. /\ f \in Peers /\ pc[c] = "registered" /\ Moved(c, "announced") /\ Notified(f, TRUE)
        /\ UNCHANGED <<owner, overlapped, leaked, online, job, known>>
        /\ \A s, g \in Peers : byTarget'[s][g] # None => byTarget'[s][g] = byTarget[s][g]
    BY <1>17, Zenon DEF AnnounceEffect
  <2>2. d # c /\ pc'[d] = pc[d] /\ byTarget[t][owner[d]] = d
    BY <1>2, <2>1, Zenon DEF Moved, Serving
  <2>3. ASSUME f # t PROVE Settled(d, t)
    BY <1>2, <2>1, <2>2, <2>3, Zenon DEF Moved, Settled
  <2>4. ASSUME f = t PROVE d \in Watching(f) /\ f \in online'
    BY <1>2, <2>1, <2>2, <2>4, Zenon DEF Watching, Staged, Open
  <2> HIDE DEF f
  <2> QED
    BY <1>16, <2>1, <2>2, <2>3, <2>4, Zenon
<1>18. ASSUME NEW c \in Conns, FarewellEffect(c, owner[c]) PROVE Informed(d, t)'
  <2> DEFINE f == owner[c]
  <2>1. /\ f \in Peers /\ pc[c] = "deregistered" /\ Moved(c, "closed") /\ Left(c) /\ Notified(f, FALSE)
        /\ \A g \in Peers : g # f => (g \in leaked' <=> g \in leaked)
        /\ UNCHANGED <<online, job, known>>
        /\ \A s, g \in Peers : byTarget'[s][g] # None => byTarget'[s][g] = byTarget[s][g]
    BY <1>18, Zenon DEF FarewellEffect
  <2>2. d # c /\ pc'[d] = pc[d] /\ owner'[d] = owner[d] /\ byTarget[t][owner[d]] = d
    BY <1>2, <2>1 DEF Moved, Left, Serving
  <2>3. ASSUME f # t PROVE Settled(d, t)
    <3>1. owner[d] \notin overlapped /\ t \notin overlapped /\ t \notin leaked
      BY <1>2, <2>1, <2>2, <2>3, Zenon DEF Left, OneConnection
    <3> QED
      BY <1>2, <2>1, <2>2, <2>3, <3>1, Zenon DEF Moved, Left, Settled
  <2>4. ASSUME f = t PROVE d \in Watching(f) /\ f \notin online'
    <3>1. d \in Watching(f)
      BY <1>2, <2>1, <2>2, <2>4, Zenon DEF Watching, Open
    <3>2. CASE f \in overlapped
      <4>1. \A k \in Conns : owner'[k] # f
        BY <1>2, <2>1, <2>4, <3>2 DEF Left
      <4> QED
        BY <1>2, <2>1, <2>4, <3>1, <4>1, Zenon DEF RootedOnline
    <3>3. CASE f \notin overlapped
      BY <2>1, <3>1, <3>3, Zenon DEF Staged
    <3> QED
      BY <3>2, <3>3, Zenon
  <2> HIDE DEF f
  <2> QED
    BY <1>16, <2>1, <2>2, <2>3, <2>4, Zenon
<1> QED
  BY <1>4, <1>6, <1>7, <1>8, <1>9, <1>10, <1>11, <1>12, <1>13, <1>14, <1>15, <1>17, <1>18,
    PresenceSteps DEF LifeStep

-----------------------------------------------------------------------------
(* Steps by what they change *)

\* Pairs and registrations change in four places.
LEMMA PairSteps ==
  ASSUME [Next]_vars
  PROVE  \/ UNCHANGED <<online, pairs>>
         \/ \E c \in Conns : \/ \E f \in Peers : Register(c, f)
                             \/ \E t \in Peers : OpenPair(c, t)
                             \/ \E i \in 1..Len(pairs) : ClosePair(c, i)
                             \/ Deregister(c)
<1> USE DEF registry
<1>1. CASE UNCHANGED vars
  BY <1>1, Zenon DEF vars
<1>2. ASSUME NEW c \in Conns, ServerStep(c), ~Deregister(c) PROVE UNCHANGED <<online, pairs>>
  BY <1>2, Zenon DEF ServerStep, Announce, Attach, IssueToken, AuthOkSent, PushPresence,
    PresenceDrained, PushData, DataDrained, Idle, SubscribeReply, RelayForward, Detach, Farewell
<1>3. ASSUME NEW c \in Conns, ClientFrame(c)
      PROVE  \/ UNCHANGED <<online, pairs>>
             \/ \E t \in Peers : OpenPair(c, t)
             \/ \E i \in 1..Len(pairs) : ClosePair(c, i)
  BY <1>3, Zenon DEF ClientFrame, Subscribe, RelayLookup
<1>4. ASSUME NEW c \in Conns, AuthOkLost(c) \/ Disconnect(c) PROVE UNCHANGED <<online, pairs>>
  BY <1>4, Zenon DEF AuthOkLost, Disconnect
<1> QED
  BY <1>1, <1>2, <1>3, <1>4, Zenon DEF Next

\* Outbound channels and their readers change in six places.
LEMMA DataSteps ==
  ASSUME [Next]_vars
  PROVE  \/ UNCHANGED <<data, owner>>
         \/ \E c \in Conns : \/ \E f \in Peers : Register(c, f)
                             \/ PushData(c) \/ RelayForward(c)
                             \/ AuthOkLost(c) \/ Disconnect(c) \/ Farewell(c)
<1> USE DEF task
<1>1. CASE UNCHANGED vars
  BY <1>1, Zenon DEF vars
<1>2. ASSUME NEW c \in Conns, ServerStep(c), ~PushData(c), ~RelayForward(c), ~Farewell(c)
      PROVE  UNCHANGED <<data, owner>>
  BY <1>2, Zenon DEF ServerStep, Announce, Attach, IssueToken, AuthOkSent, PushPresence,
    PresenceDrained, DataDrained, Idle, SubscribeReply, Detach, Deregister
<1>3. ASSUME NEW c \in Conns, ClientFrame(c) PROVE UNCHANGED <<data, owner>>
  BY <1>3, Zenon DEF ClientFrame, OpenPair, ClosePair, Subscribe, RelayLookup
<1> QED
  BY <1>1, <1>2, <1>3, Zenon DEF Next

\* Subscriptions change in three places.
LEMMA SubscriptionSteps ==
  ASSUME [Next]_vars
  PROVE  \/ UNCHANGED <<byTarget, byClient>>
         \/ \E c \in Conns : \/ Announce(c) \/ Farewell(c)
                             \/ \E t \in Peers : Subscribe(c, t)
<1> USE DEF presence
<1>1. CASE UNCHANGED vars
  BY <1>1, Zenon DEF vars
<1>2. ASSUME NEW c \in Conns, ServerStep(c), ~Announce(c), ~Farewell(c)
      PROVE  UNCHANGED <<byTarget, byClient>>
  BY <1>2, Zenon DEF ServerStep, Attach, IssueToken, AuthOkSent, PushPresence, PresenceDrained,
    PushData, DataDrained, Idle, SubscribeReply, RelayForward, Detach, Deregister
<1>3. ASSUME NEW c \in Conns, ClientFrame(c)
      PROVE  UNCHANGED <<byTarget, byClient>> \/ \E t \in Peers : Subscribe(c, t)
  BY <1>3, Zenon DEF ClientFrame, OpenPair, ClosePair, RelayLookup
<1>4. ASSUME NEW c \in Conns, (\E f \in Peers : Register(c, f)) \/ AuthOkLost(c) \/ Disconnect(c)
      PROVE  UNCHANGED <<byTarget, byClient>>
  BY <1>4, Zenon DEF Register, AuthOkLost, Disconnect
<1> QED
  BY <1>1, <1>2, <1>3, <1>4 DEF Next


-----------------------------------------------------------------------------
(* Forwarding pairs *)

\* A frame stays with its pair between lookup and hand-over.
LEMMA JobsStep ==
  ASSUME TypeOK, JobsFit, [Next]_vars
  PROVE  JobsFit'
<1> USE DEF JobsFit
<1>1. ASSUME NEW c \in Conns, NEW i \in 1..Len(pairs), RelayLookup(c, i) PROVE JobsFit'
  <2>1. {owner[c], OtherEnd(pairs[i], owner[c])} = {pairs[i].from, pairs[i].to}
    BY <1>1, Zenon DEF RelayLookup, OtherEnd
  <2> QED
    BY <1>1, <2>1, Zenon DEF RelayLookup, Goto, TypeOK
<1>2. ASSUME \A d \in Conns : \/ pc'[d] # "forwarding"
                              \/ pc'[d] = pc[d] /\ owner'[d] = owner[d] /\ job'[d] = job[d]
      PROVE  JobsFit'
  BY <1>2, Zenon
<1> DEFINE Kept == \A d \in Conns : \/ pc'[d] # "forwarding"
                                    \/ pc'[d] = pc[d] /\ owner'[d] = owner[d] /\ job'[d] = job[d]
<1>3. CASE UNCHANGED vars
  BY <1>3, Zenon DEF vars, task
<1>4. ASSUME NEW c \in Conns, \E f \in Peers : Register(c, f) PROVE Kept
  BY <1>4, Zenon DEF Register, Goto, TypeOK
<1>5. ASSUME NEW c \in Conns, AuthOkLost(c) \/ Disconnect(c) \/ Farewell(c) PROVE Kept
  BY <1>5, ZenonT(40) DEF AuthOkLost, Disconnect, Farewell, HangUp, Leave, Goto, TypeOK
<1>6. ASSUME NEW c \in Conns, PushPresence(c) \/ PushData(c) PROVE Kept
  BY <1>6, Zenon DEF PushPresence, PushData, Goto, TypeOK
<1>7. ASSUME NEW c \in Conns, Announce(c) \/ Attach(c) \/ IssueToken(c) \/ AuthOkSent(c) PROVE Kept
  BY <1>7, Zenon DEF Announce, Attach, IssueToken, AuthOkSent, Goto, TypeOK, task
<1>8. ASSUME NEW c \in Conns, PresenceDrained(c) \/ DataDrained(c) \/ Idle(c) PROVE Kept
  BY <1>8, Zenon DEF PresenceDrained, DataDrained, Idle, Goto, TypeOK, task
<1>9. ASSUME NEW c \in Conns, SubscribeReply(c) \/ RelayForward(c) PROVE Kept
  BY <1>9, Zenon DEF SubscribeReply, RelayForward, Goto, TypeOK
<1>10. ASSUME NEW c \in Conns, Detach(c) \/ Deregister(c) PROVE Kept
  BY <1>10, Zenon DEF Detach, Deregister, Goto, TypeOK, task
<1>11. ASSUME NEW c \in Conns, NEW t \in Peers, OpenPair(c, t) \/ Subscribe(c, t) PROVE Kept
  BY <1>11, ZenonT(40) DEF OpenPair, Subscribe, Goto, TypeOK, task
<1>12. ASSUME NEW c \in Conns, NEW i \in 1..Len(pairs), ClosePair(c, i) PROVE Kept
  BY <1>12, Zenon DEF ClosePair, Goto, TypeOK, task
<1> QED
  BY <1>1, <1>2, <1>3, <1>4, <1>5, <1>6, <1>7, <1>8, <1>9, <1>10, <1>11, <1>12, Zenon
  DEF Next, ServerStep, ClientFrame

\* What waits in an outbound channel came from the other end of its pair.
LEMMA DataStep ==
  ASSUME TypeOK, EndsOwned, JobsFit, DataStaysInItsPair, [Next]_vars
  PROVE  DataStaysInItsPair'
<1>1. CASE UNCHANGED <<data, owner>>
  BY <1>1, Zenon DEF DataStaysInItsPair
<1>2. ASSUME \A d \in Conns : data'[d] = <<>> \/ (data'[d] = data[d] /\ owner'[d] = owner[d])
      PROVE  DataStaysInItsPair'
  <2>1. \A i : i \notin 1..Len(<< >>)
    OBVIOUS
  <2> QED
    BY <1>2, <2>1, ZenonT(40) DEF DataStaysInItsPair
<1>3. ASSUME NEW c \in Conns, \E f \in Peers : Register(c, f) PROVE DataStaysInItsPair'
  BY <1>2, <1>3, Zenon DEF Register, Fresh, TypeOK, TaskShape, Open, Serving
<1>4. ASSUME NEW c \in Conns, AuthOkLost(c) \/ Disconnect(c) PROVE DataStaysInItsPair'
  BY <1>2, <1>4, Zenon DEF AuthOkLost, Disconnect, HangUp, Leave, TypeOK
<1>5. ASSUME NEW c \in Conns, Farewell(c) PROVE DataStaysInItsPair'
  BY <1>2, <1>5, Zenon DEF Farewell, Leave, TypeOK, TaskShape, Open, Serving
<1>6. ASSUME NEW c \in Conns, PushData(c) PROVE DataStaysInItsPair'
  <2>1. /\ data[c] \in Seq(Datum) /\ data[c] # <<>> /\ data'[c] = Tail(data[c])
        /\ \A d \in Conns \ {c} : data'[d] = data[d]
        /\ owner' = owner
    BY <1>6, Zenon DEF PushData, TypeOK
  <2>2. /\ Len(data'[c]) = Len(data[c]) - 1
        /\ \A i \in 1..Len(data'[c]) : i + 1 \in 1..Len(data[c]) /\ data'[c][i] = data[c][i + 1]
    BY <2>1
  <2>3. ASSUME NEW d \in Conns, NEW i \in 1..Len(data'[d])
        PROVE  {data'[d][i].from, owner[d]} = {data'[d][i].pair.from, data'[d][i].pair.to}
    <3>1. CASE d = c
      <4>1. i + 1 \in 1..Len(data[c]) /\ data'[c][i] = data[c][i + 1]
        BY <2>2, <3>1, Zenon
      <4>2. {data[c][i + 1].from, owner[c]} = {data[c][i + 1].pair.from, data[c][i + 1].pair.to}
        BY <4>1, Zenon DEF DataStaysInItsPair
      <4> QED
        BY <3>1, <4>1, <4>2, Zenon
    <3>2. CASE d # c
      BY <2>1, <3>2, ZenonT(40) DEF DataStaysInItsPair
    <3> QED
      BY <3>1, <3>2, Zenon
  <2> QED
    BY <2>1, <2>3, Zenon DEF DataStaysInItsPair
<1>7. ASSUME NEW c \in Conns, RelayForward(c) PROVE DataStaysInItsPair'
  <2> DEFINE e == conns[job[c].peer]
             m == [from |-> owner[c], pair |-> job[c].pair]
  <2>1. job[c].peer \in Peers /\ pc[c] = "forwarding" /\ owner' = owner
    BY <1>7, NoneAssumption, Zenon DEF RelayForward, TypeOK, TaskShape, Job
  <2>2. CASE e # None /\ pc[e] \in Open
    <3>1. e \in Conns /\ owner[e] = job[c].peer
      BY <2>1, <2>2 DEF TypeOK, EndsOwned
    <3>2. {m.from, owner[e]} = {m.pair.from, m.pair.to}
      BY <2>1, <3>1, Zenon DEF JobsFit
    <3>3. /\ data[e] \in Seq(Datum) /\ data'[e] = Append(data[e], m)
          /\ \A d \in Conns \ {e} : data'[d] = data[d]
      BY <1>7, <2>2, <3>1, Zenon DEF RelayForward, TypeOK
    <3> HIDE DEF m, e
    <3>4. /\ Len(data[e]) \in Nat /\ Len(data'[e]) = Len(data[e]) + 1
          /\ data'[e][Len(data[e]) + 1] = m
          /\ \A i \in 1..Len(data[e]) : data'[e][i] = data[e][i]
      BY <3>3
    <3>5. ASSUME NEW d \in Conns, NEW i \in 1..Len(data'[d])
          PROVE  {data'[d][i].from, owner[d]} = {data'[d][i].pair.from, data'[d][i].pair.to}
      <4>1. CASE d = e /\ i = Len(data[e]) + 1
        BY <3>2, <3>4, <4>1, Zenon
      <4>2. CASE d = e /\ i # Len(data[e]) + 1
        <5>1. i \in 1..Len(data[e]) /\ data'[e][i] = data[e][i]
          BY <3>4, <4>2
        <5>2. {data[e][i].from, owner[e]} = {data[e][i].pair.from, data[e][i].pair.to}
          BY <4>2, <5>1, Zenon DEF DataStaysInItsPair
        <5> QED
          BY <4>2, <5>1, <5>2, Zenon
      <4>3. CASE d # e
        BY <3>3, <4>3, ZenonT(40) DEF DataStaysInItsPair
      <4> QED
        BY <4>1, <4>2, <4>3, Zenon
    <3> QED
      BY <2>1, <3>5, Zenon DEF DataStaysInItsPair
  <2>3. CASE ~(e # None /\ pc[e] \in Open)
    BY <1>7, <2>3, Zenon DEF RelayForward, DataStaysInItsPair
  <2> QED
    BY <2>2, <2>3, Zenon
<1> QED
  BY <1>1, <1>3, <1>4, <1>5, <1>6, <1>7, DataSteps

INSTANCE FiniteSetTheorems

\* Every step keeps the pairs between registered peers and within the cap.
LEMMA PairsStep ==
  ASSUME TypeOK, TypeOK', PairsJoinOnlinePeers, [Next]_vars
  PROVE  PairsJoinOnlinePeers'
<1> USE RelayAssumption, NoneAssumption
<1>1. CASE UNCHANGED <<online, pairs>>
  BY <1>1, Zenon DEF PairsJoinOnlinePeers, LivePairs
<1>2. /\ IsFiniteSet(LivePairs) /\ Cardinality(LivePairs) \in Nat
      /\ \A S \in SUBSET LivePairs : Cardinality(S) \in Nat /\ Cardinality(S) <= Cardinality(LivePairs)
  <2>1. Len(pairs) \in Nat /\ LivePairs \subseteq 1..Len(pairs)
    BY DEF TypeOK, LivePairs
  <2>2. IsFiniteSet(1..Len(pairs))
    BY <2>1, FS_Interval
  <2>3. IsFiniteSet(LivePairs)
    BY <2>1, <2>2, FS_Subset, Zenon
  <2> QED
    BY <2>3, FS_Subset, FS_CardinalityType, Zenon
<1>3. ASSUME NEW c \in Conns, NEW f \in Peers, Register(c, f) PROVE PairsJoinOnlinePeers'
  BY <1>3, Zenon DEF Register, PairsJoinOnlinePeers, LivePairs
<1>4. ASSUME NEW c \in Conns, NEW t \in Peers, OpenPair(c, t) PROVE PairsJoinOnlinePeers'
  <2> DEFINE n == Len(pairs) + 1
             p == [from |-> owner[c], to |-> t]
  <2>1. p \in Pair /\ p # None /\ p.from = owner[c] /\ p.to = t
    BY <1>4, SMTT(40) DEF OpenPair, TypeOK, Pair
  <2>2. /\ Len(pairs) \in Nat /\ Len(pairs') = n /\ pairs'[n] = p
        /\ \A i \in 1..Len(pairs) : pairs'[i] = pairs[i]
    BY <1>4, SMTT(40) DEF OpenPair, TypeOK
  <2>3. n \notin LivePairs /\ (LivePairs)' = LivePairs \cup {n}
    BY <2>1, <2>2 DEF LivePairs
  <2>4. Cardinality((LivePairs)') = Cardinality(LivePairs) + 1
    BY <1>2, <2>3, FS_AddElement, Zenon
  <2>5. Cardinality((LivePairs)') <= MaxForwardings
    BY <1>2, <1>4, <2>4 DEF OpenPair
  <2>6. ASSUME NEW i \in (LivePairs)' PROVE pairs'[i].from \in online' /\ pairs'[i].to \in online'
    <3>1. CASE i = n
      BY <1>4, <2>1, <2>2, <3>1 DEF OpenPair
    <3>2. CASE i \in LivePairs
      BY <1>4, <2>2, <3>2, Zenon DEF OpenPair, PairsJoinOnlinePeers, LivePairs
    <3> QED
      BY <2>3, <3>1, <3>2, Zenon
  <2> QED
    BY <2>5, <2>6, ZenonT(40) DEF PairsJoinOnlinePeers
<1>5. ASSUME NEW c \in Conns, NEW i \in 1..Len(pairs), ClosePair(c, i) PROVE PairsJoinOnlinePeers'
  <2>1. /\ Len(pairs') = Len(pairs) /\ online' = online
        /\ \A j \in 1..Len(pairs) : pairs'[j] = IF j = i THEN None ELSE pairs[j]
    BY <1>5 DEF ClosePair, TypeOK
  <2>2. /\ (LivePairs)' \subseteq LivePairs
        /\ \A j \in (LivePairs)' : pairs'[j] = pairs[j]
    BY <2>1, Zenon DEF LivePairs
  <2>3. Cardinality((LivePairs)') <= MaxForwardings
    BY <1>2, <2>2 DEF PairsJoinOnlinePeers
  <2> QED
    BY <2>1, <2>2, <2>3, Zenon DEF PairsJoinOnlinePeers
<1>6. ASSUME NEW c \in Conns, Deregister(c) PROVE PairsJoinOnlinePeers'
  <2> DEFINE f == owner[c]
  <2>1. /\ Len(pairs') = Len(pairs) /\ online' = online \ {f}
        /\ \A j \in 1..Len(pairs) :
             pairs'[j] = IF j \in LivePairs /\ f \in {pairs[j].from, pairs[j].to}
                           THEN None ELSE pairs[j]
    BY <1>6 DEF Deregister, TypeOK
  <2>2. /\ (LivePairs)' \subseteq LivePairs
        /\ \A j \in (LivePairs)' : pairs'[j] = pairs[j] /\ f \notin {pairs[j].from, pairs[j].to}
    BY <2>1, Zenon DEF LivePairs
  <2>3. Cardinality((LivePairs)') <= MaxForwardings
    BY <1>2, <2>2 DEF PairsJoinOnlinePeers
  <2> QED
    BY <2>1, <2>2, <2>3, ZenonT(40) DEF PairsJoinOnlinePeers
<1> QED
  BY <1>1, <1>3, <1>4, <1>5, <1>6, PairSteps

-----------------------------------------------------------------------------
(* Subscriptions *)

\* Every step keeps the two maps of the presence registry converse and within their caps.
LEMMA MirrorStep ==
  ASSUME TypeOK, TypeOK', SubscriptionsMirrored, [Next]_vars
  PROVE  SubscriptionsMirrored'
<1> USE RelayAssumption
<1>1. ASSUME NEW S \in SUBSET Peers, NEW R \in SUBSET S
      PROVE  /\ IsFiniteSet(S) /\ Cardinality(S) \in Nat /\ Cardinality(R) \in Nat
             /\ Cardinality(R) <= Cardinality(S)
  BY FS_Subset, FS_CardinalityType, Zenon
<1>2. ASSUME \A f, t \in Peers : /\ byTarget'[t][f] # None <=> t \in byClient'[f]
                                 /\ byTarget'[t][f] # None => byTarget[t][f] # None
      PROVE  SubscriptionsMirrored'
  <2>1. ASSUME NEW f \in Peers, NEW t \in Peers
        PROVE  Cardinality(byClient'[f]) <= MaxTargets /\ Cardinality(Watchers(t)') <= MaxWatchers
    <3>1. byClient'[f] \subseteq byClient[f] /\ byClient[f] \subseteq Peers
      BY <1>2, Zenon DEF TypeOK, SubscriptionsMirrored
    <3>2. Watchers(t)' \subseteq Watchers(t) /\ Watchers(t) \subseteq Peers
      BY <1>2, Zenon DEF Watchers
    <3>3. Cardinality(byClient[f]) <= MaxTargets /\ Cardinality(Watchers(t)) <= MaxWatchers
      BY Zenon DEF SubscriptionsMirrored
    <3>4. /\ Cardinality(byClient'[f]) \in Nat /\ Cardinality(byClient[f]) \in Nat
          /\ Cardinality(byClient'[f]) <= Cardinality(byClient[f])
      BY <3>1, <1>1, Zenon
    <3>5. /\ Cardinality(Watchers(t)') \in Nat /\ Cardinality(Watchers(t)) \in Nat
          /\ Cardinality(Watchers(t)') <= Cardinality(Watchers(t))
      BY <3>2, <1>1, Zenon
    <3> QED
      BY <3>3, <3>4, <3>5
  <2> QED
    BY <1>2, <2>1, Zenon DEF SubscriptionsMirrored
<1>3. CASE UNCHANGED <<byTarget, byClient>>
  BY <1>3, Zenon DEF SubscriptionsMirrored, Watchers
<1>4. ASSUME NEW c \in Conns, Announce(c) PROVE SubscriptionsMirrored'
  <2>1. AnnounceEffect(c, owner[c])
    BY <1>4, AnnounceEntries, Zenon
  <2>2. ASSUME NEW f \in Peers, NEW t \in Peers
        PROVE  /\ byTarget'[t][f] # None <=> t \in byClient'[f]
               /\ byTarget'[t][f] # None => byTarget[t][f] # None
    <3>1. byTarget[t][f] # None <=> t \in byClient[f]
      BY Zenon DEF SubscriptionsMirrored
    <3> QED
      BY <2>1, <3>1, ZenonT(40) DEF AnnounceEffect
  <2> QED
    BY <1>2, <2>2, Zenon
<1>5. ASSUME NEW c \in Conns, Farewell(c) PROVE SubscriptionsMirrored'
  <2>1. FarewellEffect(c, owner[c])
    BY <1>5, FarewellEntries, Zenon
  <2>2. ASSUME NEW f \in Peers, NEW t \in Peers
        PROVE  /\ byTarget'[t][f] # None <=> t \in byClient'[f]
               /\ byTarget'[t][f] # None => byTarget[t][f] # None
    <3>1. byTarget[t][f] # None <=> t \in byClient[f]
      BY Zenon DEF SubscriptionsMirrored
    <3> QED
      BY <2>1, <3>1, ZenonT(40) DEF FarewellEffect
  <2> QED
    BY <1>2, <2>2, Zenon
<1>6. ASSUME NEW c \in Conns, NEW t \in Peers, Subscribe(c, t) PROVE SubscriptionsMirrored'
  <2> DEFINE f == owner[c]
  <2>1. f \in Peers /\ senders[f] # None
    BY <1>6 DEF Subscribe, TypeOK, TaskShape
  <2>2. /\ \A s, g \in Peers :
             byTarget'[s][g] = IF s = t /\ g = f THEN senders[f] ELSE byTarget[s][g]
        /\ \A g \in Peers : byClient'[g] = IF g = f THEN byClient[f] \cup {t} ELSE byClient[g]
    BY <1>6, <2>1, SMTT(40) DEF Subscribe, TypeOK
  <2>3. \A s, g \in Peers : byTarget'[s][g] # None <=> s \in byClient'[g]
    BY <2>1, <2>2 DEF SubscriptionsMirrored
  <2>4. Cardinality(byClient'[f]) <= MaxTargets
    <3>1. IsFiniteSet(byClient[f]) /\ Cardinality(byClient[f]) \in Nat
      BY <1>1, <2>1, Zenon DEF TypeOK
    <3>2. CASE t \in byClient[f]
      <4>1. byClient[f] \cup {t} = byClient[f]
        BY <3>2, Zenon
      <4> QED
        BY <2>1, <2>2, <4>1, Zenon DEF SubscriptionsMirrored
    <3>3. CASE t \notin byClient[f]
      <4>1. Cardinality(byClient[f] \cup {t}) = Cardinality(byClient[f]) + 1
        BY <3>1, <3>3, FS_AddElement, Zenon
      <4> QED
        BY <1>6, <2>1, <2>2, <3>1, <3>3, <4>1, SMTT(40) DEF Subscribe
    <3> QED
      BY <3>2, <3>3, Zenon
  <2>5. Watchers(t)' = Watchers(t) \cup {f}
    BY <2>1, <2>2 DEF Watchers
  <2>6. Cardinality(Watchers(t)') <= MaxWatchers
    <3>1. IsFiniteSet(Watchers(t)) /\ Cardinality(Watchers(t)) \in Nat
      BY <1>1, Zenon DEF Watchers
    <3>2. CASE f \in Watchers(t)
      <4>1. Watchers(t) \cup {f} = Watchers(t)
        BY <3>2, Zenon
      <4> QED
        BY <2>5, <4>1, Zenon DEF SubscriptionsMirrored
    <3>3. CASE f \notin Watchers(t)
      <4>1. Cardinality(Watchers(t) \cup {f}) = Cardinality(Watchers(t)) + 1
        BY <3>1, <3>3, FS_AddElement, Zenon
      <4> QED
        BY <1>6, <2>5, <3>1, <3>3, <4>1, SMTT(40) DEF Subscribe
    <3> QED
      BY <3>2, <3>3, Zenon
  <2>7. \A g \in Peers : g # f => byClient'[g] = byClient[g]
    BY <2>2, Zenon
  <2>8. \A s \in Peers : s # t => Watchers(s)' = Watchers(s)
    BY <2>2 DEF Watchers
  <2> QED
    BY <2>3, <2>4, <2>6, <2>7, <2>8, Zenon DEF SubscriptionsMirrored
<1> QED
  BY <1>3, <1>4, <1>5, <1>6, SubscriptionSteps, Zenon

-----------------------------------------------------------------------------
(* The theorems *)

\* The initial state has empty registries.
LEMMA InitInv == Init => RelayInv
<1> SUFFICES ASSUME Init PROVE RelayInv
  OBVIOUS
<1>1. TypeOK
  BY TypeInit, Zenon
<1>2. PairInv
  <2>1. LivePairs = {}
    BY DEF Init, LivePairs
  <2>2. Cardinality(LivePairs) = 0
    BY <2>1, FS_EmptySet, Zenon
  <2>3. \A c \in Conns : pc[c] = "closed" /\ data[c] = <<>>
    BY Zenon DEF Init
  <2>4. \A f \in Peers : /\ conns[f] = None /\ senders[f] = None
                         /\ \A t \in Peers : byTarget[t][f] = None
    BY Zenon DEF Init, Nobody
  <2> QED
    BY <2>1, <2>2, <2>3, <2>4, RelayAssumption, SMTT(40)
    DEF PairInv, EndsOwned, NotYetEntered, JobsFit, PairsAreSound, PairsJoinOnlinePeers,
      DataStaysInItsPair
<1>3. SubscriptionsMirrored
  <2>1. \A f, t \in Peers : byTarget[t][f] = None /\ byClient[f] = {}
    BY Zenon DEF Init, Nobody
  <2>2. \A t \in Peers : Watchers(t) = {}
    BY <2>1, Zenon DEF Watchers
  <2> QED
    BY <2>1, <2>2, FS_EmptySet, RelayAssumption, SMTT(40) DEF SubscriptionsMirrored
<1>4. StageInv
  BY RelayAssumption, Zenon DEF Init, StageInv, OneConnection, Staged, Rooted, RootedOnline,
    RootedEntries, RootedClients, Nobody
<1>5. EventsWatched /\ Told
  BY Zenon DEF Init, EventsWatched, Told, Settled, Open, Serving
<1> QED
  BY <1>1, <1>2, <1>3, <1>4, <1>5 DEF RelayInv

\* Every step keeps the invariant.
LEMMA NextInv == RelayInv /\ [Next]_vars => RelayInv'
<1> SUFFICES ASSUME RelayInv, [Next]_vars PROVE RelayInv'
  OBVIOUS
<1> USE DEF RelayInv, PairInv, PairsAreSound, StageInv, Rooted
<1>1. TypeOK'
  BY TypeStep, Zenon
<1>2. PairInv'
  BY <1>1, EndsStep, JobsStep, DataStep, PairsStep, Zenon
<1>3. SubscriptionsMirrored'
  BY <1>1, MirrorStep, Zenon
<1>4. StageInv'
  BY <1>1, OneConnectionStep, StagedStep, RootedOnlineStep, RootedEntriesStep, RootedClientsStep, Zenon
<1>5. EventsWatched' /\ Told'
  BY <1>1, <1>4, EventsStep, ToldStep, Zenon
<1> QED
  BY <1>1, <1>2, <1>3, <1>4, <1>5, Zenon

\* The invariant holds throughout.
LEMMA RelayInvariant == Spec => []RelayInv
BY InitInv, NextInv, PTL DEF Spec

\* open_pair, deregister and the RelayData handler, for any peers and connections:
\* forwarding pairs join registered peers within the cap, and what waits in a channel
\* came from the other end of its pair.
THEOREM PairsSound == Spec => []PairsAreSound
<1>1. RelayInv => PairsAreSound
  BY Zenon DEF RelayInv, PairInv
<1> QED
  BY <1>1, RelayInvariant, PTL

\* PresenceRegistry, for any peers and caps: the map by target and the map by client
\* are converse to each other and within their caps.
THEOREM MapsMirrored == Spec => []SubscriptionsMirrored
<1>1. RelayInv => SubscriptionsMirrored
  BY Zenon DEF RelayInv
<1> QED
  BY <1>1, RelayInvariant, PTL

\* handle_connection and control_loop, for any peers and connections: a served peer is
\* reachable, a departed one is gone, and watchers were told so.
THEOREM PresenceTrue == Spec => []PresenceIsTrue
<1>1. ASSUME RelayInv PROVE PresenceIsTrue
  <2> USE <1>1 DEF RelayInv, StageInv
  <2>1. ServedPeersAreReachable
    BY Zenon DEF ServedPeersAreReachable, Staged, TypeOK, TaskShape, Serving, Open, Closing,
      Announced, Attached, Tokened
  <2>2. DepartedPeersAreGone
    <3> SUFFICES ASSUME NEW f \in Peers \ leaked, \A c \in Conns : owner[c] # f
                 PROVE  /\ f \notin online /\ conns[f] = None /\ senders[f] = None
                        /\ \A c \in Conns : tokens[c] # f
                        /\ byClient[f] = {}
                        /\ \A i \in LivePairs : f \notin {pairs[i].from, pairs[i].to}
      BY Zenon DEF DepartedPeersAreGone
    <3>1. f \notin online
      BY Zenon DEF Rooted, RootedOnline
    <3>2. byClient[f] = {}
      BY Zenon DEF Rooted, RootedClients
    <3>3. conns[f] \in Conns \cup {None} /\ senders[f] \in Conns \cup {None}
      BY DEF TypeOK
    <3>4. conns[f] = None /\ senders[f] = None /\ \A c \in Conns : tokens[c] # f
      BY <3>3, Zenon DEF Rooted, RootedEntries
    <3>5. \A i \in LivePairs : f \notin {pairs[i].from, pairs[i].to}
      BY <3>1, Zenon DEF PairInv, PairsAreSound, PairsJoinOnlinePeers
    <3> QED
      BY <3>1, <3>2, <3>4, <3>5
  <2>3. WatchersAreUpToDate
    BY DEF WatchersAreUpToDate, Told, Settled, Informed, Serving
  <2> QED
    BY <2>1, <2>2, <2>3, Zenon DEF PresenceIsTrue
<1> QED
  BY <1>1, RelayInvariant, PTL

=============================================================================
