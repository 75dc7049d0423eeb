-------------------------------- MODULE Punch --------------------------------
(* A `relay://` remote of origin-vcs. The keeper runs `remote serve`: one    *)
(* relay connection, one fresh UDP socket and one advert per exchange. A     *)
(* caller waits for the keeper at the relay, fetches the advert, and dials   *)
(* or punches a direct socket; only when that fails does it open a pair      *)
(* through the relay (nat.rs, origin-vcs remote.rs).                         *)
(*                                                                           *)
(* A fetch is one frame, a push a request and the rest; what is inside them  *)
(* is the business of Remotes. Every call has sockets, a connection and a    *)
(* pair of its own, named by the call's number. An address is a host, or     *)
(* "any" for the unspecified 0.0.0.0, and a port.                            *)
EXTENDS Naturals, Sequences, FiniteSets

CONSTANTS
  Callers,     \* clients of one served store
  Profile,     \* per caller: on the keeper's host, its /24, has STUN, and the
               \* ways datagrams pass between it and the keeper
  KeeperNet,   \* the keeper's /24
  KeeperStun,  \* the keeper has a STUN server
  MaxPolls,    \* 40 in wait_online and try_punch
  MaxProbes,   \* 20 in hole_punch
  MaxServes,   \* bound on the keeper's exchanges
  MaxLosses,   \* bound on the datagrams the network loses
  MaxPunchCalls \* bound on calls

VARIABLES
  calm,        \* one call at a time, no caller dies, probes are answered in time
  keeper,      \* the serve loop: where it is, its port, its current peer
  posted,      \* the advert the relay holds
  datagrams,   \* waiting on the keeper's socket
  frames,      \* waiting on the keeper's relay connection
  pairs,       \* forwarding pairs, by call
  caller,      \* the callers' commands
  heard,       \* what waits on a caller's socket or connection
  phoned,      \* calls made so far
  lost         \* datagrams lost so far, and the calls that had to have one of them

punchVars == <<calm, keeper, posted, datagrams, frames, pairs, caller, heard, phoned, lost>>

NoAdvert == [there |-> FALSE, public |-> <<"any", 0>>, private |-> <<"any", 0>>]
NoCall == [at |-> "idle", call |-> 0, cmd |-> "fetch", tries |-> 0, peer |-> <<"any", 0>>,
           sent |-> 0, got |-> 0]

PunchInit ==
  /\ calm \in BOOLEAN
  /\ keeper = [at |-> "off", port |-> 0, peer |-> 0, worksFor |-> 0]
  /\ posted = NoAdvert
  /\ datagrams = <<>> /\ frames = <<>> /\ pairs = {}
  /\ caller = [c \in Callers |-> NoCall]
  /\ heard = [c \in Callers |-> <<>>]
  /\ phoned = 0
  /\ lost = [n |-> 0, calls |-> {}]

Online == keeper.at \notin {"off", "gone"}
Bound == keeper.at \notin {"off", "gone", "joined"}     \* its socket is open
Active(c) == caller[c].at \notin {"idle", "done", "failed"}
Frames(cmd) == IF cmd = "push" THEN <<"request", "rest">> ELSE <<"request">>

----------------------------------------------------------------------------
(* Addresses and datagrams.                                                  *)

OnKeepersHost(c) == Profile[c].host

\* a datagram of caller c to address a reaches the keeper's socket; one to
\* the unspecified address stays on the sender's host
Lands(c, a) ==
  /\ Bound /\ a[2] = keeper.port
  /\ OnKeepersHost(c) \/ (a[1] = KeeperNet /\ "in" \in Profile[c].passes)

\* nobody listens there and the sender is told
Unreachable(c, a) ==
  ~ Lands(c, a) /\ (a[1] = "any" \/ OnKeepersHost(c) \/ Profile[c].passes = {"in", "out"})

Replies(c) == OnKeepersHost(c) \/ "out" \in Profile[c].passes

Datagram(kind, c) == [kind |-> kind, who |-> c, call |-> caller[c].call, cmd |-> caller[c].cmd]

\* the network drops n datagrams of a call; nobody sends one again, and only
\* the probes of a punch come in numbers
Dropped(n, kind, call) ==
  [n |-> lost.n + n, calls |-> IF kind = "probe" THEN lost.calls ELSE lost.calls \cup {call}]

\* a datagram to the keeper: it arrives, perhaps where no answer can come
\* back from, or it is lost, or the sender is told that nobody listens
Transmit(c, d) ==
  LET a == caller[c].peer IN
  \/ /\ Lands(c, a) /\ datagrams' = Append(datagrams, d)
     /\ lost' = IF Replies(c) THEN lost ELSE Dropped(0, d.kind, d.call)
  \/ /\ Lands(c, a) /\ lost.n < MaxLosses
     /\ lost' = Dropped(1, d.kind, d.call) /\ UNCHANGED datagrams
  \/ /\ ~ Lands(c, a) /\ UNCHANGED datagrams
     /\ lost' = IF Unreachable(c, a) THEN lost ELSE Dropped(0, d.kind, d.call)

\* discover_public_address, else the address of a socket bound to 0.0.0.0
OwnAddress(net, stun) == IF stun THEN net ELSE "any"

\* publish_advert: the public address and the local one
Published == [there |-> TRUE,
              public |-> <<OwnAddress(KeeperNet, KeeperStun), keeper.port + 1>>,
              private |-> <<"any", keeper.port + 1>>]

\* connect_p2p: the address dialed directly, if any; the sockets are bound to
\* 0.0.0.0, so that no address is a loopback one
Direct(c, ad) ==
  LET own == OwnAddress(Profile[c].net, Profile[c].stun)
  IN  IF own = ad.private[1] THEN {ad.private}
      ELSE IF own = ad.public[1] THEN {ad.public} ELSE {}

----------------------------------------------------------------------------
(* The keeper: serve_relay_forever.                                          *)

KeeperConnects ==
  /\ keeper.at = "off" /\ keeper.port < MaxServes
  /\ keeper' = [keeper EXCEPT !.at = "joined"]
  /\ UNCHANGED <<calm, posted, datagrams, frames, pairs, caller, heard, phoned, lost>>

KeeperPublishes ==
  /\ keeper.at = "joined"
  /\ keeper' = [keeper EXCEPT !.at = "select", !.port = @ + 1]
  /\ posted' = Published
  /\ UNCHANGED <<calm, datagrams, frames, pairs, caller, heard, phoned, lost>>

AdvertExpires ==
  /\ posted.there /\ posted' = NoAdvert
  /\ UNCHANGED <<calm, keeper, datagrams, frames, pairs, caller, heard, phoned, lost>>

\* the exchange is over: the socket and the relay connection are dropped, and
\* with the connection its pairs and the frames nobody read
Leaves(ok) ==
  /\ keeper' = [keeper EXCEPT !.at = IF ok THEN "off" ELSE "gone", !.peer = 0, !.worksFor = 0]
  /\ datagrams' = <<>> /\ frames' = <<>> /\ pairs' = {}

\* a message to the caller that made `call`, on a socket or a pair of its own
Tell(call, message, passes) ==
  heard' = [c \in Callers |-> IF caller[c].call = call /\ Active(c) /\ passes[c]
                              THEN Append(heard[c], message) ELSE heard[c]]

Message(kind, worksFor) == [kind |-> kind, worksFor |-> worksFor]
OverRelay == [c \in Callers |-> caller[c].call \in pairs]

\* a datagram to a caller
TellByUdp(call, message) ==
  \/ Tell(call, message, [c \in Callers |-> Replies(c)]) /\ UNCHANGED lost
  \/ /\ lost.n < MaxLosses
     /\ lost' = Dropped(1, message.kind, call) /\ UNCHANGED heard

\* select!: the socket is readable; from here the keeper reads only datagrams
TakesUdp ==
  /\ keeper.at = "select" /\ datagrams # <<>>
  /\ keeper' = [keeper EXCEPT !.at = "udp"]
  /\ UNCHANGED <<calm, posted, datagrams, frames, pairs, caller, heard, phoned, lost>>

\* serve_udp_client: probes are answered until a client sends its request
ServeUdpClient ==
  LET d == Head(datagrams) IN
  /\ keeper.at = "udp" /\ datagrams # <<>>
  /\ \/ /\ d.kind = "probe"
        /\ TellByUdp(d.call, Message("probe", 0))
        /\ datagrams' = Tail(datagrams) /\ UNCHANGED <<keeper, frames, pairs>>
     \/ /\ d.kind = "request" /\ d.cmd = "fetch"
        /\ TellByUdp(d.call, Message("answer", d.call)) /\ Leaves(TRUE)
     \/ /\ d.kind = "request" /\ d.cmd = "push"
        /\ keeper' = [keeper EXCEPT !.at = "udpPush", !.peer = d.call, !.worksFor = d.call]
        /\ datagrams' = Tail(datagrams) /\ UNCHANGED <<frames, pairs, heard, lost>>
     \/ /\ d.kind = "rest"
        /\ TellByUdp(d.call, Message("error", 0)) /\ Leaves(FALSE)
  /\ UNCHANGED <<calm, posted, caller, phoned>>

\* the rest of a push: UdpPackFrameConn skips probes and other senders
UdpPushGoesOn ==
  LET d == Head(datagrams) IN
  /\ keeper.at = "udpPush" /\ datagrams # <<>>
  /\ \/ /\ d.kind = "probe" \/ d.call # keeper.peer
        /\ datagrams' = Tail(datagrams) /\ UNCHANGED <<keeper, frames, pairs, heard, lost>>
     \/ /\ d.kind = "rest" /\ d.call = keeper.peer
        /\ TellByUdp(d.call, Message("answer", keeper.worksFor)) /\ Leaves(TRUE)
  /\ UNCHANGED <<calm, posted, caller, phoned>>

\* Mutant: a frame that is not the next of the exchange is skipped.
ServeRelayExchangeLenient ==
  LET f == Head(frames) IN
  /\ keeper.at \in {"select", "relayPush"} /\ frames # <<>>
  /\ \/ /\ keeper.at = "select" /\ f.kind = "request" /\ f.cmd = "fetch"
        /\ Tell(f.call, Message("answer", f.call), OverRelay) /\ Leaves(TRUE)
     \/ /\ keeper.at = "select" /\ f.kind = "request" /\ f.cmd = "push"
        /\ keeper' = [keeper EXCEPT !.at = "relayPush", !.peer = f.call, !.worksFor = f.call]
        /\ frames' = Tail(frames) /\ UNCHANGED <<datagrams, pairs, heard>>
     \/ /\ keeper.at = "relayPush" /\ f.kind = "rest"
        /\ Tell(f.call, Message("answer", keeper.worksFor), OverRelay) /\ Leaves(TRUE)
     \/ /\ (keeper.at = "select") # (f.kind = "request")
        /\ frames' = Tail(frames) /\ UNCHANGED <<keeper, datagrams, pairs, heard>>
  /\ UNCHANGED <<calm, posted, caller, phoned, lost>>

\* serve_relay_exchange: the pair is adopted from every inbound frame, and a
\* frame that is not the next of the exchange ends the serve loop
ServeRelayExchange ==
  LET f == Head(frames) IN
  /\ keeper.at \in {"select", "relayPush"} /\ frames # <<>>
  /\ \/ /\ keeper.at = "select" /\ f.kind = "request" /\ f.cmd = "fetch"
        /\ Tell(f.call, Message("answer", f.call), OverRelay) /\ Leaves(TRUE)
     \/ /\ keeper.at = "select" /\ f.kind = "request" /\ f.cmd = "push"
        /\ keeper' = [keeper EXCEPT !.at = "relayPush", !.peer = f.call, !.worksFor = f.call]
        /\ frames' = Tail(frames) /\ UNCHANGED <<datagrams, pairs, heard>>
     \/ /\ keeper.at = "relayPush" /\ f.kind = "rest"
        /\ Tell(f.call, Message("answer", keeper.worksFor), OverRelay) /\ Leaves(TRUE)
     \/ /\ keeper.at = "relayPush" /\ f.kind = "request"
        /\ Tell(f.call, Message("error", 0), OverRelay) /\ Leaves(FALSE)
  /\ UNCHANGED <<calm, posted, caller, phoned, lost>>

\* TCP_RECV_TIMEOUT on the keeper's connection: relay_recv calls it closed,
\* and the serve loop ends; a socket it reads instead has no deadline
KeeperTimesOut ==
  /\ \/ keeper.at = "select" /\ datagrams = <<>>
     \/ keeper.at = "relayPush"
  /\ frames = <<>> /\ Leaves(FALSE)
  /\ UNCHANGED <<calm, posted, caller, heard, phoned, lost>>

KeeperStep == KeeperConnects \/ KeeperPublishes \/ TakesUdp \/ ServeUdpClient
              \/ UdpPushGoesOn \/ ServeRelayExchange \/ KeeperTimesOut

----------------------------------------------------------------------------
(* A caller.                                                                 *)

others == <<calm, keeper, posted, phoned>>
mute == <<others, lost>>
Goes(c, at) == caller' = [caller EXCEPT ![c].at = at, ![c].tries = 0]

StartCall(c, cmd) ==
  /\ ~ Active(c) /\ phoned < MaxPunchCalls
  /\ calm => \A d \in Callers : ~ Active(d)
  /\ phoned' = phoned + 1
  /\ caller' = [caller EXCEPT ![c] = [NoCall EXCEPT !.at = "online", !.cmd = cmd, !.call = phoned + 1]]
  /\ heard' = [heard EXCEPT ![c] = <<>>]
  /\ UNCHANGED <<calm, keeper, posted, datagrams, frames, pairs, lost>>

\* one poll of a loop that gives up after MaxPolls of them
Polls(c, giveUp) ==
  caller' = [caller EXCEPT ![c].tries = IF @ + 1 = MaxPolls THEN 0 ELSE @ + 1,
                           ![c].at = IF caller[c].tries + 1 = MaxPolls THEN giveUp ELSE @]

WaitOnline(c) ==
  /\ caller[c].at = "online"
  /\ IF Online THEN Goes(c, "advert") ELSE Polls(c, "failed")
  /\ UNCHANGED <<mute, datagrams, frames, pairs, heard>>

\* try_punch: the advert, then a direct socket or a punch
TryPunch(c) ==
  LET direct == Direct(c, posted) IN
  /\ caller[c].at = "advert"
  /\ \/ ~ posted.there /\ Polls(c, "tunnel")
     \/ /\ posted.there /\ direct # {}
        /\ caller' = [caller EXCEPT ![c].at = "udp", ![c].tries = 0,
                                    ![c].peer = CHOOSE a \in direct : TRUE]
     \/ /\ posted.there /\ direct = {}
        /\ caller' = [caller EXCEPT ![c].at = "punch", ![c].tries = 0, ![c].peer = posted.public]
  /\ UNCHANGED <<mute, datagrams, frames, pairs, heard>>

\* hole_punch: probes until something is heard on the socket; a probe to the
\* private candidate, the unspecified address, reaches the caller's own host
HolePunch(c) ==
  /\ caller[c].at = "punch"
  /\ \/ /\ heard[c] # <<>>
        /\ Goes(c, "udp")
        /\ heard' = [heard EXCEPT ![c] = Tail(@)] /\ UNCHANGED <<datagrams, lost>>
     \/ /\ heard[c] = <<>> /\ caller[c].tries < MaxProbes
        /\ caller' = [caller EXCEPT ![c].tries = @ + 1]
        /\ Transmit(c, Datagram("probe", c)) /\ UNCHANGED heard
     \/ /\ heard[c] = <<>> /\ caller[c].tries = MaxProbes
        /\ calm => ~ (Replies(c) /\ \E i \in DOMAIN datagrams : datagrams[i].who = c)
        /\ Goes(c, "tunnel") /\ UNCHANGED <<heard, datagrams, lost>>
  /\ UNCHANGED <<others, frames, pairs>>

\* the exchange over the direct socket: a call's frames, then its answer
SendDatagram(c) ==
  LET next == Frames(caller[c].cmd)[caller[c].sent + 1] IN
  /\ caller[c].at = "udp" /\ caller[c].sent < Len(Frames(caller[c].cmd))
  /\ caller' = [caller EXCEPT ![c].sent = @ + 1]
  /\ Transmit(c, Datagram(next, c))
  /\ UNCHANGED <<others, frames, pairs, heard>>

\* session_open
OpenSession(c) ==
  /\ caller[c].at = "tunnel"
  /\ pairs' = IF Online THEN pairs \cup {caller[c].call} ELSE pairs
  /\ Goes(c, IF Online THEN "relay" ELSE "failed")
  /\ heard' = [heard EXCEPT ![c] = <<>>]
  /\ UNCHANGED <<mute, datagrams, frames>>

\* relay_send: a pair the relay no longer knows is answered with an error
SendFrame(c) ==
  LET next == Frames(caller[c].cmd)[caller[c].sent + 1] IN
  /\ caller[c].at = "relay" /\ caller[c].sent < Len(Frames(caller[c].cmd))
  /\ caller' = [caller EXCEPT ![c].sent = @ + 1]
  /\ IF caller[c].call \in pairs
     THEN frames' = Append(frames, Datagram(next, c)) /\ UNCHANGED heard
     ELSE heard' = [heard EXCEPT ![c] = Append(@, Message("error", 0))] /\ UNCHANGED frames
  /\ UNCHANGED <<mute, datagrams, pairs>>

\* the reply: an answer or an error ends the call, a late probe is skipped
Hears(c) ==
  /\ caller[c].at \in {"udp", "relay"} /\ caller[c].sent = Len(Frames(caller[c].cmd))
  /\ heard[c] # <<>>
  /\ heard' = [heard EXCEPT ![c] = Tail(@)]
  /\ \/ Head(heard[c]).kind = "probe" /\ UNCHANGED <<caller, pairs>>
     \/ /\ Head(heard[c]).kind # "probe"
        /\ caller' = [caller EXCEPT ![c].at = IF Head(heard[c]).kind = "answer" THEN "done" ELSE "failed",
                                    ![c].got = Head(heard[c]).worksFor]
        /\ pairs' = pairs \ {caller[c].call}
  /\ UNCHANGED <<mute, datagrams, frames>>

\* a connected socket reports that nobody listens: the command fails, it does
\* not fall back
IsRefused(c) ==
  /\ caller[c].at = "udp" /\ caller[c].sent > 0
  /\ heard[c] = <<>> /\ Unreachable(c, caller[c].peer)
  /\ Goes(c, "failed")
  /\ UNCHANGED <<mute, datagrams, frames, pairs, heard>>

\* TCP_RECV_TIMEOUT on a caller's connection; UdpPackFrameConn has none
CallerTimesOut(c) ==
  /\ caller[c].at = "relay" /\ caller[c].sent = Len(Frames(caller[c].cmd)) /\ heard[c] = <<>>
  /\ Goes(c, "failed") /\ pairs' = pairs \ {caller[c].call}
  /\ UNCHANGED <<mute, datagrams, frames, heard>>

CallerStep(c) == WaitOnline(c) \/ TryPunch(c) \/ HolePunch(c) \/ SendDatagram(c)
                 \/ OpenSession(c) \/ SendFrame(c) \/ Hears(c) \/ IsRefused(c)
                 \/ CallerTimesOut(c)

CallerDies(c) ==
  /\ ~ calm /\ Active(c)
  /\ caller' = [caller EXCEPT ![c] = NoCall]
  /\ pairs' = pairs \ {caller[c].call}
  /\ UNCHANGED <<mute, datagrams, frames, heard>>

----------------------------------------------------------------------------
PunchNext ==
  \/ KeeperStep \/ AdvertExpires
  \/ \E c \in Callers : CallerStep(c) \/ CallerDies(c)
  \/ \E c \in Callers, cmd \in {"fetch", "push"} : StartCall(c, cmd)

PunchSpec == PunchInit /\ [][PunchNext]_punchVars

\* The keeper adopts the pair of every frame it reads, on one connection that
\* all callers share: still a command that succeeds was answered for its own
\* frames, never for another caller's.
AnswersReachTheirAskers ==
  \A c \in Callers : caller[c].at = "done" => caller[c].got = caller[c].call

\* A command waits for ever only on a direct socket: its polls and probes are
\* counted, and the relay connection has a read deadline, though the keeper
\* may be serving another or have left.  And while calls come one at a time
\* and probes are answered in time, it waits for ever there only when a
\* datagram of its exchange, or every way back for the answer, was lost:
\* UdpPackFrameConn neither times out nor sends again.
PunchedCallsEnd ==
  \A c \in Callers :
    /\ []<>~(Active(c) /\ caller[c].at # "udp")
    /\ []<>~(calm /\ Active(c) /\ caller[c].call \notin lost.calls)
=============================================================================
