------------------------------- MODULE Mailbox -------------------------------
(***************************************************************************)
(* One relay connection as its client sees it: the calls of RelayClient    *)
(* share a connection behind a mutex (client.rs), the relay's control loop *)
(* answers them one by one (relay_server.rs), and the client's inbox at    *)
(* the relay is bounded by a frame count, a byte count and a time to live  *)
(* (relay.rs).                                                             *)
(*                                                                         *)
(* A frame on the wire carries the number of the request it answers, which *)
(* the real frames do not: the client matches replies by their type alone, *)
(* and the number is what lets a property say whose reply a call got.      *)
(***************************************************************************)
EXTENDS Integers, Sequences, FiniteSets, SequencesExt

CONSTANTS
    Tasks,          \* tasks of the client process that share the connection
    FrameSizes,     \* sizes of the frames peers push
    MaxFrame,       \* DEFAULT_MAX_FRAME_SIZE
    InboxMessages,    \* max_inbox_messages
    InboxBytes,       \* max_inbox_bytes
    InboxTtl,       \* inbox_ttl
    AdvertTtl,      \* ttl_secs of the peer's advert
    LastTick,       \* bound on the clock
    MaxTraffic      \* bound on calls, peer frames and peer events together

VARIABLES
    lock,       \* the task that holds the ConnState mutex, or "free"
    call,       \* per task: the call it is in, with the number of its request
    up, down,   \* frames on the way to the relay and to the client
    events,     \* buffered_events
    stash,      \* pending_frames
    peerUp,     \* the peer is registered
    registered, \* so is the client, by this connection or another of its identity
    watched,    \* the client subscribed to the peer's presence
    inbox,      \* the client's frames at the relay
    byteCount,  \* the byte count kept with them
    advert,     \* when the peer published its advert, or -1
    tick,       \* the relay's clock
    asked,      \* requests sent so far
    pushed,     \* frames accepted into the inbox so far
    traffic,    \* traffic so far
    owed,       \* requests whose calls failed before the reply came
    crossed     \* replies returned to other calls than their own

clientVars == <<lock, call, up, events, stash, asked, owed, crossed>>
relayVars == <<peerUp, registered, watched, inbox, byteCount, advert, tick, pushed>>
mailVars == <<clientVars, relayVars, down, traffic>>

Resting == [op |-> "idle", n |-> 0]
Replying == {"probe", "fetch", "pull", "open"}
Silent == {"push", "publish", "watch"}
Waiting == {"recv", "data"}

MailInit ==
    /\ lock = "free" /\ call = [t \in Tasks |-> Resting]
    /\ up = <<>> /\ down = <<>> /\ events = <<>> /\ stash = <<>>
    /\ peerUp = TRUE /\ registered = TRUE /\ watched = FALSE
    /\ inbox = <<>> /\ byteCount = 0 /\ advert = 0 /\ tick = 0
    /\ asked = 0 /\ pushed = 0 /\ traffic = 0
    /\ owed = {} /\ crossed = {}

Spend == traffic < MaxTraffic /\ traffic' = traffic + 1

(***************************************************************************)
(* The client.                                                             *)
(***************************************************************************)

\* Mutant of Ask: the lock is given back once the request is on its way.
AskUnlocked(t, op) ==
    /\ Spend
    /\ lock = "free" /\ call[t] = Resting
    /\ asked' = asked + 1
    /\ up' = Append(up, [op |-> op, n |-> asked'])
    /\ call' = IF op \in Replying THEN [call EXCEPT ![t] = [op |-> op, n |-> asked']] ELSE call
    /\ UNCHANGED <<relayVars, down, lock, events, stash, owed, crossed>>

\* A call takes the mutex and sends its request; one that is answered keeps
\* the mutex until it has read a reply.
Ask(t, op) ==
    /\ Spend
    /\ lock = "free" /\ call[t] = Resting
    /\ asked' = asked + 1
    /\ up' = Append(up, [op |-> op, n |-> asked'])
    /\ IF op \in Replying
       THEN lock' = t /\ call' = [call EXCEPT ![t] = [op |-> op, n |-> asked']]
       ELSE UNCHANGED <<lock, call>>
    /\ UNCHANGED <<relayVars, down, events, stash, owed, crossed>>

\* A call ends: it gives the mutex back.
Return(t) == lock' = "free" /\ call' = [call EXCEPT ![t] = Resting]

Stashed(tag) == SelectInSeq(stash, LAMBDA f : f.tag = tag)

\* A call returns the reply to request n, or fails with its own still to come.
Replied(t, n) ==
    /\ Return(t)
    /\ crossed' = IF n = call[t].n THEN crossed ELSE crossed \cup {[got |-> n, asked |-> call[t].n]}
    /\ owed' = IF n = call[t].n THEN owed ELSE owed \cup {call[t].n}
GivesUp(t) == Return(t) /\ owed' = owed \cup {call[t].n} /\ UNCHANGED crossed

\* read_response: a stashed frame of the right type first.
TakeStashed(t) ==
    /\ call[t].op \in Replying /\ Stashed(call[t].op) # 0
    /\ Replied(t, stash[Stashed(call[t].op)].n)
    /\ stash' = RemoveAt(stash, Stashed(call[t].op))
    /\ UNCHANGED <<relayVars, up, down, events, asked, traffic>>

\* read_response: one frame off the connection.
ReadResponse(t) ==
    /\ call[t].op \in Replying /\ Stashed(call[t].op) = 0
    /\ down # <<>> /\ down' = Tail(down)
    /\ LET f == Head(down) IN
       \/ /\ f.tag = "event"
          /\ events' = Append(events, f.n)
          /\ UNCHANGED <<lock, call, owed, crossed>>
       \/ /\ f.tag = "error" /\ f.n = call[t].n
          /\ Return(t)
          /\ UNCHANGED <<events, owed, crossed>>
       \/ /\ f.tag = call[t].op
          /\ Replied(t, f.n)
          /\ UNCHANGED events
       \/ /\ f.tag \notin {"event", call[t].op} /\ ~ (f.tag = "error" /\ f.n = call[t].n)
          /\ GivesUp(t)
          /\ UNCHANGED events
    /\ UNCHANGED <<relayVars, up, stash, asked, traffic>>

\* read_more: TCP_RECV_TIMEOUT passes without a byte, for frames may be long on
\* their way; the call fails or returns nothing, and the connection is kept.
CallTimesOut(t) ==
    /\ call[t].op \in Replying \cup Waiting
    /\ call[t].op \in Replying => Stashed(call[t].op) = 0
    /\ IF call[t].op \in Replying THEN GivesUp(t) ELSE Return(t) /\ UNCHANGED <<owed, crossed>>
    /\ UNCHANGED <<relayVars, up, down, events, stash, asked, traffic>>

\* PresenceStream::recv: a buffered event, or else the connection is read,
\* under the mutex, until one comes.
PresenceRecv(t) ==
    /\ lock = "free" /\ call[t] = Resting /\ watched
    /\ IF events # <<>>
       THEN events' = Tail(events) /\ UNCHANGED <<lock, call, traffic>>
       ELSE /\ Spend
            /\ lock' = t /\ call' = [call EXCEPT ![t] = [op |-> "recv", n |-> 0]]
            /\ UNCHANGED events
    /\ UNCHANGED <<relayVars, up, down, stash, asked, owed, crossed>>

ReadEvent(t) ==
    /\ call[t].op = "recv"
    /\ down # <<>> /\ down' = Tail(down)
    /\ IF Head(down).tag = "event"
       THEN Return(t) /\ UNCHANGED stash
       ELSE stash' = Append(stash, Head(down)) /\ UNCHANGED <<lock, call>>
    /\ UNCHANGED <<relayVars, up, events, asked, traffic, owed, crossed>>

\* relay_recv: the next frame of a forwarding pair.
RelayRecv(t) ==
    /\ lock = "free" /\ call[t] = Resting
    /\ IF Stashed("data") # 0
       THEN stash' = RemoveAt(stash, Stashed("data")) /\ UNCHANGED <<lock, call, traffic>>
       ELSE /\ Spend
            /\ lock' = t /\ call' = [call EXCEPT ![t] = [op |-> "data", n |-> 0]]
            /\ UNCHANGED stash
    /\ UNCHANGED <<relayVars, up, down, events, asked, owed, crossed>>

ReadData(t) ==
    /\ call[t].op = "data"
    /\ down # <<>> /\ down' = Tail(down)
    /\ LET f == Head(down) IN
       \/ /\ f.tag = "event"
          /\ events' = Append(events, f.n)
          /\ UNCHANGED <<lock, call, stash>>
       \/ /\ f.tag \in {"data", "error"}
          /\ Return(t)
          /\ UNCHANGED <<events, stash>>
       \/ /\ f.tag \notin {"event", "data", "error"}
          /\ stash' = Append(stash, f)
          /\ UNCHANGED <<events, lock, call>>
    /\ UNCHANGED <<relayVars, up, asked, traffic, owed, crossed>>

(***************************************************************************)
(* The relay's inboxes.                                                    *)
(***************************************************************************)
SumSizes(fs) == FoldSeq(LAMBDA f, s : s + f.size, 0, fs)
SatSub(a, b) == IF a > b THEN a - b ELSE 0

Fresh(f) == tick - f.at < InboxTtl

\* inbox_push, first cap: at max_inbox_messages the oldest frame goes.
Oldest(fs) == IF Len(fs) >= InboxMessages THEN Tail(fs) ELSE fs

\* inbox_push, second cap: the oldest frames go until the new one fits.
Fitting(fs, count, size) ==
    LET fits(k) == SatSub(count, SumSizes(SubSeq(fs, 1, k))) + size <= InboxBytes
    IN  CHOOSE k \in 0..Len(fs) :
            /\ fits(k) \/ k = Len(fs)
            /\ \A j \in 0..(k - 1) : ~ fits(j)

\* inbox_push into the client's inbox, by a peer.
InboxPush(size) ==
    LET fs == Oldest(inbox)
        count == SatSub(byteCount, SumSizes(inbox) - SumSizes(fs))
        k == Fitting(fs, count, size)
        left == SatSub(count, SumSizes(SubSeq(fs, 1, k)))
    IN  /\ Spend
        /\ size <= MaxFrame /\ registered
        /\ IF left + size > InboxBytes
           THEN /\ inbox' = SubSeq(fs, k + 1, Len(fs)) /\ byteCount' = left
                /\ UNCHANGED pushed
           ELSE /\ pushed' = pushed + 1
                /\ inbox' = Append(SubSeq(fs, k + 1, Len(fs)),
                                   [id |-> pushed', size |-> size, at |-> tick])
                /\ byteCount' = left + size
        /\ UNCHANGED <<clientVars, down, peerUp, registered, watched, advert, tick>>

\* cleanup_expired, at every tick of the cleaner.
CleanupExpired ==
    /\ \E i \in DOMAIN inbox : ~ Fresh(inbox[i])
    /\ inbox' = SelectSeq(inbox, Fresh)
    /\ byteCount' = SatSub(byteCount, SumSizes(SelectSeq(inbox, LAMBDA f : ~ Fresh(f))))
    /\ UNCHANGED <<clientVars, down, peerUp, registered, watched, advert, tick, pushed, traffic>>

(***************************************************************************)
(* The relay's control loop: the first frame on the way to it is handled.  *)
(***************************************************************************)
Answer(tag, n) == down' = Append(down, [tag |-> tag, n |-> n])

\* Mutant of AdvertFetch: nothing is answered when there is no advert.
AdvertFetchFound(n) ==
    /\ IF advert >= 0 /\ tick - advert < AdvertTtl
       THEN UNCHANGED advert /\ Answer("fetch", n)
       ELSE advert' = -1 /\ UNCHANGED down
    /\ UNCHANGED <<watched, inbox, byteCount>>

\* advert_fetch forgets an expired advert; the reply says there is none.
AdvertFetch(n) ==
    /\ advert' = IF advert >= 0 /\ tick - advert < AdvertTtl THEN advert ELSE -1
    /\ Answer("fetch", n)
    /\ UNCHANGED <<watched, inbox, byteCount>>

InboxPull(n) ==
    /\ inbox' = <<>> /\ byteCount' = 0
    /\ Answer("pull", n)
    /\ UNCHANGED <<watched, advert>>

ProbePeer(n) == Answer("probe", n) /\ UNCHANGED <<watched, inbox, byteCount, advert>>

\* open_pair: both ends must be registered.
SessionOpen(n) ==
    /\ Answer(IF peerUp /\ registered THEN "open" ELSE "error", n)
    /\ UNCHANGED <<watched, inbox, byteCount, advert>>

\* The client's own push goes to the peer's inbox: only a failure is answered.
PushToPeer(n) ==
    /\ IF peerUp THEN UNCHANGED down ELSE Answer("error", n)
    /\ UNCHANGED <<watched, inbox, byteCount, advert>>

\* advert_publish: only a failure is answered here too.
Publish(n) ==
    /\ IF registered THEN UNCHANGED down ELSE Answer("error", n)
    /\ UNCHANGED <<watched, inbox, byteCount, advert>>

PresenceSubscribe(n) ==
    /\ watched' = TRUE
    /\ Answer("event", n)
    /\ UNCHANGED <<inbox, byteCount, advert>>

ControlLoop ==
    /\ up # <<>> /\ up' = Tail(up)
    /\ LET r == Head(up) IN
       \/ r.op = "probe" /\ ProbePeer(r.n)
       \/ r.op = "fetch" /\ AdvertFetch(r.n)
       \/ r.op = "pull" /\ InboxPull(r.n)
       \/ r.op = "open" /\ SessionOpen(r.n)
       \/ r.op = "push" /\ PushToPeer(r.n)
       \/ r.op = "watch" /\ PresenceSubscribe(r.n)
       \/ r.op = "publish" /\ Publish(r.n)
    /\ UNCHANGED <<lock, call, events, stash, asked, owed, crossed,
                   peerUp, registered, tick, pushed, traffic>>

\* The peer registers or leaves; a watching client gets the event.
PeerTurns ==
    /\ Spend
    /\ peerUp' = ~ peerUp
    /\ IF watched THEN Answer("event", 0) ELSE UNCHANGED down
    /\ UNCHANGED <<clientVars, registered, watched, inbox, byteCount, advert, tick, pushed>>

\* Another connection of the client's identity ends: the registration, the watch and
\* the way to its pairs go with it, though this connection is still served.
Displaced ==
    /\ Spend
    /\ registered
    /\ registered' = FALSE /\ watched' = FALSE
    /\ UNCHANGED <<clientVars, down, peerUp, inbox, byteCount, advert, tick, pushed>>

\* The peer publishes its advert again, or sends through a pair.
PeerPublishes ==
    /\ Spend
    /\ peerUp /\ advert' = tick
    /\ UNCHANGED <<clientVars, down, peerUp, registered, watched, inbox, byteCount, tick, pushed>>

PeerSends ==
    /\ Spend
    /\ peerUp /\ registered /\ Answer("data", 0)
    /\ UNCHANGED <<clientVars, relayVars>>

Tick ==
    /\ tick < LastTick /\ tick' = tick + 1
    /\ UNCHANGED <<clientVars, down, peerUp, registered, watched, inbox, byteCount, advert, pushed, traffic>>

ClientReads(t) == TakeStashed(t) \/ ReadResponse(t) \/ ReadEvent(t) \/ ReadData(t)

MailNext ==
    \/ \E t \in Tasks : \/ \E op \in Replying \cup Silent : Ask(t, op)
                        \/ ClientReads(t) \/ CallTimesOut(t)
                        \/ PresenceRecv(t) \/ RelayRecv(t)
    \/ \E s \in FrameSizes : InboxPush(s)
    \/ CleanupExpired \/ ControlLoop \/ Tick
    \/ PeerTurns \/ Displaced \/ PeerPublishes \/ PeerSends

(***************************************************************************)
(* Properties.                                                             *)
(***************************************************************************)

\* The byte count kept with the inbox, which is only ever brought up and
\* down by the length of one frame at a time (relay.rs:256-277, :305-315),
\* is the size of what the inbox holds, within both caps.
InboxAccounts ==
    /\ byteCount = SumSizes(inbox)
    /\ byteCount <= InboxBytes /\ Len(inbox) <= InboxMessages

\* Both caps drop the oldest frames (relay.rs:257, :264): what the inbox
\* holds is an unbroken run of frames that ends with the last one accepted.
NewestKept ==
    \A i \in DOMAIN inbox : inbox[i].id = pushed - (Len(inbox) - i)

\* A call that returns a reply returns the reply to its own request, although replies
\* are matched by type only: the mutex is held from the request to the reply
\* (client.rs:251-263).  The exception is a connection that owes a reply: a call has
\* failed before it came, on the error of an earlier push or publish (client.rs:298-301),
\* on a peer's data (client.rs:100) or at the read deadline (transport.rs:194), and the
\* next call of the type takes it for its own.  It takes one that is owed, of an
\* earlier request, and no reply is returned twice.
AnswersMatch ==
    /\ \A x \in crossed : x.got \in owed /\ x.got < x.asked
    /\ \A x, y \in crossed : x.got = y.got => x = y

\* The client gets what is its own: the replies to its requests, but for those a
\* failed call left behind, and the newest frames of its inbox, counted right.
ClientsGetTheirOwn == AnswersMatch /\ InboxAccounts /\ NewestKept

\* A call whose request is answered returns, whatever frames interleave and whichever
\* calls before it gave up, and needs no deadline to: every request of these types
\* gets exactly one frame from the relay.
CallsReturn == \A t \in Tasks : []<>(call[t].op \notin Replying)
=============================================================================
