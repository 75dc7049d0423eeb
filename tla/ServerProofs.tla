---------------------------- MODULE ServerProofs ----------------------------
(***************************************************************************)
(* Proofs about the two services of a relay host: for any callers, the UDP *)
(* helpers and the tunnel behind them answer whoever asked, and the relay  *)
(* daemon admits whom its operator and its flood gate allow.               *)
(***************************************************************************)
EXTENDS Punch, RelayDaemon, TLAPS

-----------------------------------------------------------------------------
(* Hole punching and its tunnel. *)

\* What a caller keeps, what it sends and what it hears.
Commands == {"fetch", "push"}
CallFields == {"at", "call", "cmd", "tries", "peer", "sent", "got"}
Sent == [kind : {"probe", "request", "rest"}, who : Callers, call : Nat, cmd : Commands]
Heard == [kind : {"probe", "answer", "error"}, worksFor : Nat]

\* Types.
PunchTypes ==
  /\ DOMAIN keeper = {"at", "port", "peer", "worksFor"}
  /\ keeper.worksFor \in Nat
  /\ datagrams \in Seq(Sent) /\ frames \in Seq(Sent)
  /\ heard \in [Callers -> Seq(Heard)]
  /\ phoned \in Nat

\* Calls have numbers of their own, and no frame is sent before a path is open.
CallsInv ==
  /\ caller = [c \in Callers |-> caller[c]]
  /\ \A c \in Callers :
       /\ DOMAIN caller[c] = CallFields
       /\ caller[c].call \in Nat /\ caller[c].call <= phoned
       /\ caller[c].cmd \in Commands /\ caller[c].sent \in 0..2
       /\ caller[c].at \in {"online", "advert", "punch", "tunnel"} => caller[c].sent = 0
  /\ \A c, d \in Callers : c # d /\ Active(c) /\ Active(d) => caller[c].call # caller[d].call

\* Keeper k works for `call`, or will when it reads on: its request lies before place
\* i of the frames fs.
Asked(k, fs, call, i) ==
  \/ k.at = "relayPush" /\ k.worksFor = call
  \/ \E j \in 1..Len(fs) : j < i /\ fs[j].kind = "request" /\ fs[j].call = call

\* Frames of one connection keep their order: what is left of a push comes after its
\* request, and a caller with a pair that has sent its request is not forgotten.
FramesInv ==
  /\ \A i \in 1..Len(frames) : frames[i].kind = "rest" => Asked(keeper, frames, frames[i].call, i)
  /\ \A c \in Callers : caller[c].at = "relay" /\ caller[c].sent > 0 /\ caller[c].call \in pairs
                          => Asked(keeper, frames, caller[c].call, Len(frames) + 1)

\* A push by UDP reads the sender it began with.
PeerInv == keeper.at = "udpPush" => keeper.worksFor = keeper.peer

\* An answer that waits for a caller is for its call.
HeardInv ==
  \A c \in Callers : Active(c) =>
    \A i \in 1..Len(heard[c]) : heard[c][i].kind = "answer" => heard[c][i].worksFor = caller[c].call

\* The inductive invariant of the two UDP helpers.
PunchInv == /\ PunchTypes /\ CallsInv /\ FramesInv /\ PeerInv /\ HeardInv
            /\ AnswersReachTheirAskers

-----------------------------------------------------------------------------
(* The keeper. *)

\* What is sent has a call and a command.
LEMMA SentFields == \A f \in Sent : f.call \in Nat /\ f.cmd \in Commands
  BY DEF Sent

\* A message told to a call waits only for its caller.
LEMMA TellKeeps ==
  ASSUME PunchTypes, HeardInv, NEW call, NEW m \in Heard, NEW passes, Tell(call, m, passes),
         m.kind = "answer" => m.worksFor = call, caller' = caller
  PROVE  HeardInv' /\ heard' \in [Callers -> Seq(Heard)]
<1>1. heard' \in [Callers -> Seq(Heard)]
  BY DEF Tell, PunchTypes
<1>2. ASSUME NEW c \in Callers, Active(c)', NEW i \in 1..Len(heard'[c]), heard'[c][i].kind = "answer"
      PROVE  heard'[c][i].worksFor = caller[c].call
  <2>1. Active(c) /\ heard[c] \in Seq(Heard)
    BY <1>2 DEF Active, PunchTypes
  <2>2. CASE heard'[c] = heard[c]
    BY <1>2, <2>1, <2>2 DEF HeardInv
  <2>3. CASE heard'[c] = Append(heard[c], m) /\ caller[c].call = call
    <3>1. CASE i \in 1..Len(heard[c])
      BY <1>2, <2>1, <2>3, <3>1 DEF HeardInv
    <3>2. CASE i = Len(heard[c]) + 1
      BY <1>2, <2>1, <2>3, <3>2
    <3> QED
      BY <1>2, <2>1, <2>3, <3>1, <3>2
  <2> QED
    BY <1>2, <2>2, <2>3 DEF Tell
<1> QED
  BY <1>1, <1>2 DEF HeardInv

\* Nor one sent as a datagram, should it arrive.
LEMMA TellByUdpKeeps ==
  ASSUME PunchTypes, HeardInv, NEW call, NEW m \in Heard, TellByUdp(call, m),
         m.kind = "answer" => m.worksFor = call, caller' = caller
  PROVE  HeardInv' /\ heard' \in [Callers -> Seq(Heard)]
<1>1. CASE heard' = heard
  BY <1>1, Zenon DEF HeardInv, Active, PunchTypes
<1>2. CASE Tell(call, m, [c \in Callers |-> Replies(c)])
  BY <1>2, TellKeeps, Zenon
<1> QED
  BY <1>1, <1>2, Zenon DEF TellByUdp

\* The end of an exchange drops what was asked on its connection.
LEMMA LeavesKeeps ==
  ASSUME PunchInv, NEW ok, Leaves(ok), caller' = caller, phoned' = phoned
  PROVE  /\ CallsInv' /\ FramesInv' /\ PeerInv' /\ AnswersReachTheirAskers'
         /\ heard' \in [Callers -> Seq(Heard)] => PunchTypes'
<1>1. DOMAIN keeper' = {"at", "port", "peer", "worksFor"} /\ keeper'.worksFor = 0 /\ keeper'.peer = 0
  BY DEF Leaves, PunchInv, PunchTypes
<1>2. CallsInv' /\ AnswersReachTheirAskers'
  BY DEF PunchInv, CallsInv, Active, AnswersReachTheirAskers
<1>3. FramesInv'
  BY DEF Leaves, FramesInv
<1>4. PeerInv'
  BY <1>1 DEF PeerInv
<1>5. heard' \in [Callers -> Seq(Heard)] => PunchTypes'
  BY <1>1 DEF Leaves, PunchInv, PunchTypes
<1> QED
  BY <1>2, <1>3, <1>4, <1>5

\* The keeper's own moves between exchanges, and the advert's end.
LEMMA KeeperMovesKeep ==
  ASSUME PunchInv, KeeperConnects \/ KeeperPublishes \/ TakesUdp \/ AdvertExpires
  PROVE  PunchInv'
<1>1. /\ UNCHANGED <<datagrams, frames, pairs, caller, heard, phoned>>
      /\ DOMAIN keeper' = {"at", "port", "peer", "worksFor"} /\ keeper'.worksFor = keeper.worksFor
      /\ keeper'.peer = keeper.peer
      /\ (keeper'.at = keeper.at) \/ (keeper'.at # "udpPush" /\ keeper.at # "relayPush")
  BY Zenon DEF KeeperConnects, KeeperPublishes, TakesUdp, AdvertExpires, PunchInv, PunchTypes
<1>2. PunchTypes' /\ CallsInv' /\ HeardInv' /\ AnswersReachTheirAskers'
  BY <1>1 DEF PunchInv, PunchTypes, CallsInv, HeardInv, Active, AnswersReachTheirAskers
<1>3. FramesInv'
  BY <1>1 DEF PunchInv, FramesInv, Asked
<1>4. PeerInv'
  BY <1>1 DEF PunchInv, PeerInv
<1> QED
  BY <1>2, <1>3, <1>4 DEF PunchInv

\* A read deadline ends the serve loop, and tells nobody.
LEMMA KeeperTimesOutKeeps ==
  ASSUME PunchInv, KeeperTimesOut
  PROVE  PunchInv'
<1>1. Leaves(FALSE) /\ UNCHANGED <<caller, heard, phoned>>
  BY DEF KeeperTimesOut
<1>2. HeardInv' /\ heard' \in [Callers -> Seq(Heard)]
  BY <1>1, Zenon DEF PunchInv, HeardInv, Active, PunchTypes
<1> QED
  BY <1>1, <1>2, LeavesKeeps, Zenon DEF PunchInv

\* Datagrams are read one by one, each with its sender.
LEMMA ServeUdpClientKeeps ==
  ASSUME PunchInv, ServeUdpClient
  PROVE  PunchInv'
<1> DEFINE d == Head(datagrams)
<1>1. /\ d \in Sent /\ d.call \in Nat /\ Tail(datagrams) \in Seq(Sent)
      /\ UNCHANGED <<caller, phoned>> /\ keeper.at = "udp"
  BY SentFields DEF ServeUdpClient, PunchInv, PunchTypes
<1> HIDE DEF d
<1>2. CASE /\ TellByUdp(d.call, Message("probe", 0))
           /\ datagrams' = Tail(datagrams) /\ UNCHANGED <<keeper, frames, pairs>>
  <2>1. Message("probe", 0) \in Heard /\ Message("probe", 0).kind # "answer"
    BY DEF Message, Heard
  <2>2. HeardInv' /\ heard' \in [Callers -> Seq(Heard)]
    BY <1>1, <1>2, <2>1, TellByUdpKeeps DEF PunchInv
  <2>3. PunchTypes' /\ CallsInv' /\ AnswersReachTheirAskers' /\ PeerInv'
    BY <1>1, <1>2, <2>2 DEF PunchInv, PunchTypes, CallsInv, Active, AnswersReachTheirAskers, PeerInv
  <2>4. FramesInv'
    BY <1>1, <1>2, Zenon DEF PunchInv, FramesInv, Asked
  <2> QED
    BY <2>2, <2>3, <2>4 DEF PunchInv
<1>3. CASE TellByUdp(d.call, Message("answer", d.call)) /\ Leaves(TRUE)
  <2>1. Message("answer", d.call) \in Heard /\ Message("answer", d.call).worksFor = d.call
    BY <1>1 DEF Message, Heard
  <2> QED
    BY <1>1, <1>3, <2>1, TellByUdpKeeps, LeavesKeeps, Zenon DEF PunchInv
<1>4. CASE /\ keeper' = [keeper EXCEPT !.at = "udpPush", !.peer = d.call, !.worksFor = d.call]
           /\ datagrams' = Tail(datagrams) /\ UNCHANGED <<frames, pairs, heard>>
  <2>1. PunchTypes' /\ PeerInv'
    BY <1>1, <1>4 DEF PunchInv, PunchTypes, PeerInv
  <2>2. CallsInv' /\ AnswersReachTheirAskers' /\ HeardInv'
    BY <1>1, <1>4 DEF PunchInv, CallsInv, Active, AnswersReachTheirAskers, HeardInv
  <2>3. FramesInv'
    BY <1>1, <1>4 DEF PunchInv, FramesInv, Asked
  <2> QED
    BY <2>1, <2>2, <2>3 DEF PunchInv
<1>5. CASE TellByUdp(d.call, Message("error", 0)) /\ Leaves(FALSE)
  <2>1. Message("error", 0) \in Heard /\ Message("error", 0).kind # "answer"
    BY DEF Message, Heard
  <2> QED
    BY <1>1, <1>5, <2>1, TellByUdpKeeps, LeavesKeeps, Zenon DEF PunchInv
<1> QED
  BY <1>2, <1>3, <1>4, <1>5, Zenon DEF ServeUdpClient, d

\* The rest of a push by UDP is its first sender's.
LEMMA UdpPushGoesOnKeeps ==
  ASSUME PunchInv, UdpPushGoesOn
  PROVE  PunchInv'
<1> DEFINE d == Head(datagrams)
<1>1. /\ d \in Sent /\ d.call \in Nat /\ Tail(datagrams) \in Seq(Sent)
      /\ UNCHANGED <<caller, phoned>> /\ keeper.at = "udpPush"
  BY SentFields DEF UdpPushGoesOn, PunchInv, PunchTypes
<1> HIDE DEF d
<1>2. CASE datagrams' = Tail(datagrams) /\ UNCHANGED <<keeper, frames, pairs, heard>>
  <2>1. PunchTypes' /\ CallsInv' /\ HeardInv' /\ AnswersReachTheirAskers' /\ PeerInv'
    BY <1>1, <1>2 DEF PunchInv, PunchTypes, CallsInv, Active, HeardInv, AnswersReachTheirAskers, PeerInv
  <2>2. FramesInv'
    BY <1>1, <1>2 DEF PunchInv, FramesInv, Asked
  <2> QED
    BY <2>1, <2>2 DEF PunchInv
<1>3. CASE /\ d.call = keeper.peer
           /\ TellByUdp(d.call, Message("answer", keeper.worksFor)) /\ Leaves(TRUE)
  <2>1. keeper.worksFor = d.call
    BY <1>1, <1>3 DEF PunchInv, PeerInv
  <2>2. Message("answer", d.call) \in Heard /\ Message("answer", d.call).worksFor = d.call
    BY <1>1 DEF Message, Heard
  <2> QED
    BY <1>1, <1>3, <2>1, <2>2, TellByUdpKeeps, LeavesKeeps, Zenon DEF PunchInv
<1> QED
  BY <1>2, <1>3, Zenon DEF UdpPushGoesOn, d

\* Frames of all callers come on one connection: what is left of a push that the keeper
\* reads is of the call whose request it read.
LEMMA ServeRelayExchangeKeeps ==
  ASSUME PunchInv, ServeRelayExchange
  PROVE  PunchInv'
<1> DEFINE f == Head(frames)
<1>1. /\ f \in Sent /\ f.call \in Nat /\ Tail(frames) \in Seq(Sent)
      /\ f = frames[1] /\ Len(frames) > 0 /\ frames \in Seq(Sent)
      /\ UNCHANGED <<caller, phoned>> /\ keeper.at \in {"select", "relayPush"}
  BY SentFields DEF ServeRelayExchange, PunchInv, PunchTypes
<1> HIDE DEF f
<1>2. CASE Tell(f.call, Message("answer", f.call), OverRelay) /\ Leaves(TRUE)
  <2>1. Message("answer", f.call) \in Heard /\ Message("answer", f.call).worksFor = f.call
    BY <1>1 DEF Message, Heard
  <2> QED
    BY <1>1, <1>2, <2>1, TellKeeps, LeavesKeeps, Zenon DEF PunchInv
<1>3. CASE /\ keeper.at = "select" /\ f.kind = "request"
           /\ keeper' = [keeper EXCEPT !.at = "relayPush", !.peer = f.call, !.worksFor = f.call]
           /\ frames' = Tail(frames) /\ UNCHANGED <<datagrams, pairs, heard>>
  <2>1. PunchTypes' /\ PeerInv'
    BY <1>1, <1>3 DEF PunchInv, PunchTypes, PeerInv
  <2>2. CallsInv' /\ AnswersReachTheirAskers' /\ HeardInv'
    BY <1>1, <1>3 DEF PunchInv, CallsInv, Active, AnswersReachTheirAskers, HeardInv
  <2>3. /\ Len(frames') = Len(frames) - 1 /\ Len(frames) \in Nat
        /\ \A i \in 1..Len(frames') : frames'[i] = frames[i + 1]
        /\ keeper'.at = "relayPush" /\ keeper'.worksFor = f.call
    BY <1>1, <1>3 DEF PunchInv, PunchTypes
  <2>4. ASSUME NEW call, NEW n \in Nat, Asked(keeper, frames, call, n + 1)
        PROVE  Asked(keeper', frames', call, n)
    <3>1. PICK j \in 1..Len(frames) : j < n + 1 /\ frames[j].kind = "request" /\ frames[j].call = call
      BY <1>3, <2>4 DEF Asked
    <3>2. CASE j = 1
      BY <1>1, <2>3, <3>1, <3>2 DEF Asked
    <3>3. CASE j > 1
      <4>1. j - 1 \in 1..Len(frames') /\ j - 1 < n /\ frames'[j - 1] = frames[j]
        BY <2>3, <2>4, <3>1, <3>3
      <4> QED
        BY <3>1, <4>1 DEF Asked
    <3> QED
      BY <3>1, <3>2, <3>3
  <2>5. ASSUME NEW i \in 1..Len(frames'), frames'[i].kind = "rest"
        PROVE  Asked(keeper', frames', frames'[i].call, i)
    <3>1. i \in Nat /\ i + 1 \in 1..Len(frames) /\ frames'[i] = frames[i + 1]
      BY <2>3, <2>5
    <3>2. Asked(keeper, frames, frames[i + 1].call, i + 1)
      BY <2>5, <3>1 DEF PunchInv, FramesInv
    <3> QED
      BY <2>4, <3>1, <3>2
  <2>6. ASSUME NEW c \in Callers, caller[c].at = "relay", caller[c].sent > 0, caller[c].call \in pairs
        PROVE  Asked(keeper', frames', caller[c].call, Len(frames') + 1)
    <3>1. Len(frames') + 1 = Len(frames) /\ Len(frames) \in Nat
      BY <2>3
    <3>2. Asked(keeper, frames, caller[c].call, Len(frames) + 1)
      BY <2>6 DEF PunchInv, FramesInv
    <3> QED
      BY <2>4, <3>1, <3>2
  <2>7. FramesInv'
    BY <1>1, <1>3, <2>5, <2>6 DEF FramesInv
  <2> QED
    BY <2>1, <2>2, <2>7 DEF PunchInv
<1>4. CASE /\ keeper.at = "relayPush" /\ f.kind = "rest"
           /\ Tell(f.call, Message("answer", keeper.worksFor), OverRelay) /\ Leaves(TRUE)
  <2>1. Asked(keeper, frames, frames[1].call, 1)
    BY <1>1, <1>4 DEF PunchInv, FramesInv
  <2>2. keeper.worksFor = f.call
    BY <1>1, <2>1 DEF Asked
  <2>3. Message("answer", f.call) \in Heard /\ Message("answer", f.call).worksFor = f.call
    BY <1>1 DEF Message, Heard
  <2> QED
    BY <1>1, <1>4, <2>2, <2>3, TellKeeps, LeavesKeeps, Zenon DEF PunchInv
<1>5. CASE Tell(f.call, Message("error", 0), OverRelay) /\ Leaves(FALSE)
  <2>1. Message("error", 0) \in Heard /\ Message("error", 0).kind # "answer"
    BY DEF Message, Heard
  <2> QED
    BY <1>1, <1>5, <2>1, TellKeeps, LeavesKeeps, Zenon DEF PunchInv
<1> QED
  BY <1>2, <1>3, <1>4, <1>5, Zenon DEF ServeRelayExchange, f

-----------------------------------------------------------------------------
(* The callers. *)

\* A step of one caller that keeps its call and sends only on an open path.
CallMoves(c) ==
  /\ Active(c) /\ phoned' = phoned
  /\ caller' = [d \in Callers |-> caller'[d]]
  /\ \A d \in Callers \ {c} : caller'[d] = caller[d]
  /\ DOMAIN caller'[c] = CallFields
  /\ caller'[c].call = caller[c].call /\ caller'[c].cmd = caller[c].cmd
  /\ caller'[c].sent \in 0..2
  /\ caller'[c].at \in {"online", "advert", "punch", "tunnel"} => caller'[c].sent = 0

\* It keeps the calls apart.
LEMMA MovesKeepCalls ==
  ASSUME PunchInv, NEW c \in Callers, CallMoves(c)
  PROVE  CallsInv'
  BY DEF PunchInv, CallsInv, Active, CallMoves

\* A step of a caller that sends no frame through the relay.
LEMMA MovesKeepFrames ==
  ASSUME PunchInv, NEW c \in Callers, CallMoves(c), UNCHANGED <<keeper, frames>>,
         pairs' \subseteq pairs \cup {caller[c].call},
         caller'[c].at = "relay" => caller'[c].sent = 0
  PROVE  FramesInv' /\ PeerInv'
<1>1. ASSUME NEW d \in Callers, caller'[d].at = "relay", caller'[d].sent > 0, caller'[d].call \in pairs'
      PROVE  Asked(keeper, frames, caller'[d].call, Len(frames) + 1)
  <2>1. d # c /\ caller'[d] = caller[d]
    BY <1>1 DEF CallMoves
  <2>2. Active(d) /\ Active(c)
    BY <1>1, <2>1 DEF Active, CallMoves
  <2>3. caller[d].call # caller[c].call
    BY <2>1, <2>2 DEF PunchInv, CallsInv
  <2> QED
    BY <1>1, <2>1, <2>3 DEF PunchInv, FramesInv
<1>2. FramesInv'
  BY <1>1 DEF PunchInv, FramesInv
<1> QED
  BY <1>2 DEF PunchInv, PeerInv

\* A step of a caller that hears nothing new.
LEMMA MovesKeepHeard ==
  ASSUME PunchInv, NEW c \in Callers, CallMoves(c), DOMAIN heard' = Callers,
         \A d \in Callers \ {c} : heard'[d] = heard[d],
         heard'[c] \in {heard[c], <<>>} \/ (heard[c] # <<>> /\ heard'[c] = Tail(heard[c]))
  PROVE  HeardInv'
<1>1. ASSUME NEW d \in Callers, Active(d)', NEW i \in 1..Len(heard'[d]), heard'[d][i].kind = "answer"
      PROVE  heard'[d][i].worksFor = caller'[d].call
  <2>1. heard[d] \in Seq(Heard) /\ heard[c] \in Seq(Heard)
    BY DEF PunchInv, PunchTypes
  <2>2. Active(d) /\ caller'[d].call = caller[d].call
    BY <1>1 DEF CallMoves, Active
  <2>3. CASE heard'[d] = heard[d]
    BY <1>1, <2>2, <2>3 DEF PunchInv, HeardInv
  <2>4. CASE d = c /\ heard[c] # <<>> /\ heard'[c] = Tail(heard[c])
    <3>1. i + 1 \in 1..Len(heard[d]) /\ heard'[d][i] = heard[d][i + 1]
      BY <1>1, <2>1, <2>4
    <3> QED
      BY <1>1, <2>2, <3>1 DEF PunchInv, HeardInv
  <2>5. CASE d = c /\ heard'[c] = <<>>
    BY <1>1, <2>5
  <2> QED
    BY <2>3, <2>4, <2>5
<1> QED
  BY <1>1 DEF HeardInv

\* Waiting for the keeper, fetching its advert, a refused socket and a read deadline.
LEMMA WaitingKeeps ==
  ASSUME PunchInv, NEW c \in Callers, WaitOnline(c) \/ TryPunch(c) \/ IsRefused(c) \/ CallerTimesOut(c)
  PROVE  PunchInv'
<1>1. CallMoves(c) /\ caller'[c].at \notin {"relay", "done"}
  BY DEF WaitOnline, TryPunch, IsRefused, CallerTimesOut, Goes, Polls, mute, others, PunchInv,
         CallsInv, CallFields, CallMoves, Active
<1>2. UNCHANGED <<keeper, datagrams, frames, heard, phoned>> /\ pairs' \subseteq pairs
  BY DEF WaitOnline, TryPunch, IsRefused, CallerTimesOut, mute, others
<1>3. PunchTypes'
  BY <1>2 DEF PunchInv, PunchTypes
<1>4. CallsInv' /\ FramesInv' /\ PeerInv'
  BY <1>1, <1>2, MovesKeepCalls, MovesKeepFrames
<1>5. HeardInv'
  BY <1>1, <1>2, MovesKeepHeard DEF PunchInv, PunchTypes
<1>6. AnswersReachTheirAskers'
  BY <1>1 DEF PunchInv, AnswersReachTheirAskers, CallMoves
<1> QED
  BY <1>3, <1>4, <1>5, <1>6 DEF PunchInv

\* A caller's datagram has its call.
LEMMA DatagramIsSent ==
  ASSUME CallsInv, NEW c \in Callers, NEW kind \in {"probe", "request", "rest"}
  PROVE  Datagram(kind, c) \in Sent
  BY DEF Datagram, Sent, CallsInv

\* The frames of a command: its request, and the rest of a push.
LEMMA NextFrame ==
  ASSUME NEW cmd \in Commands, NEW n \in 0..2, n < Len(Frames(cmd))
  PROVE  /\ n + 1 \in 0..2
         /\ Frames(cmd)[n + 1] = IF n = 0 THEN "request" ELSE "rest"
  BY DEF Frames, Commands

\* Probing: a probe heard opens the direct socket, silence the tunnel.
LEMMA HolePunchKeeps ==
  ASSUME PunchInv, NEW c \in Callers, HolePunch(c)
  PROVE  PunchInv'
<1>1. CallMoves(c) /\ caller'[c].at \notin {"relay", "done"}
  BY DEF HolePunch, Goes, others, PunchInv, CallsInv, CallFields, CallMoves, Active
<1>2. UNCHANGED <<keeper, frames, pairs, phoned>>
  BY DEF HolePunch, others
<1> DEFINE probe == Datagram("probe", c)
<1>3. /\ datagrams' = datagrams \/ datagrams' = Append(datagrams, probe)
      /\ heard' \in [Callers -> Seq(Heard)] /\ DOMAIN heard' = Callers
      /\ \A d \in Callers \ {c} : heard'[d] = heard[d]
      /\ heard'[c] = heard[c] \/ (heard[c] # <<>> /\ heard'[c] = Tail(heard[c]))
  <2>1. heard \in [Callers -> Seq(Heard)]
    BY DEF PunchInv, PunchTypes
  <2>2. \/ heard' = heard
        \/ heard[c] # <<>> /\ heard' = [heard EXCEPT ![c] = Tail(heard[c])]
    BY DEF HolePunch
  <2>3. datagrams' = datagrams \/ datagrams' = Append(datagrams, probe)
    BY Zenon DEF HolePunch, Transmit
  <2>4. /\ heard' \in [Callers -> Seq(Heard)] /\ DOMAIN heard' = Callers
        /\ \A d \in Callers \ {c} : heard'[d] = heard[d]
        /\ heard'[c] = heard[c] \/ (heard[c] # <<>> /\ heard'[c] = Tail(heard[c]))
    <3>1. CASE heard' = heard
      BY <2>1, <3>1
    <3>2. CASE heard[c] # <<>> /\ heard' = [heard EXCEPT ![c] = Tail(heard[c])]
      BY <2>1, <3>2
    <3> QED
      BY <2>2, <3>1, <3>2
  <2> QED
    BY <2>3, <2>4
<1>4. PunchTypes'
  <2>1. probe \in Sent
    BY DatagramIsSent DEF PunchInv
  <2> HIDE DEF probe
  <2>2. datagrams \in Seq(Sent) /\ Append(datagrams, probe) \in Seq(Sent)
    BY <2>1 DEF PunchInv, PunchTypes
  <2>3. datagrams' \in Seq(Sent)
    BY <1>3, <2>2, Zenon
  <2> QED
    BY <1>2, <1>3, <2>3 DEF PunchInv, PunchTypes
<1>5. CallsInv' /\ FramesInv' /\ PeerInv' /\ HeardInv'
  <2>1. CallsInv' /\ FramesInv' /\ PeerInv'
    BY <1>1, <1>2, MovesKeepCalls, MovesKeepFrames
  <2>2. HeardInv'
    BY <1>1, <1>3, MovesKeepHeard
  <2> QED
    BY <2>1, <2>2
<1>6. AnswersReachTheirAskers'
  BY <1>1 DEF PunchInv, AnswersReachTheirAskers, CallMoves
<1> QED
  BY <1>4, <1>5, <1>6 DEF PunchInv

\* Frames over the direct socket.
LEMMA SendDatagramKeeps ==
  ASSUME PunchInv, NEW c \in Callers, SendDatagram(c)
  PROVE  PunchInv'
<1> DEFINE next == Frames(caller[c].cmd)[caller[c].sent + 1]
<1>1. next \in {"request", "rest"} /\ caller[c].sent + 1 \in 0..2
  BY NextFrame, Zenon DEF SendDatagram, PunchInv, CallsInv
<1>2. CallMoves(c) /\ caller'[c].at = "udp"
  BY <1>1, Zenon DEF SendDatagram, others, PunchInv, CallsInv, CallFields, CallMoves, Active
<1>3. /\ UNCHANGED <<keeper, frames, pairs, phoned, heard>>
      /\ datagrams' = datagrams \/ datagrams' = Append(datagrams, Datagram(next, c))
  BY Zenon DEF SendDatagram, Transmit, others
<1> HIDE DEF next
<1>4. PunchTypes'
  <2> DEFINE d == Datagram(next, c)
  <2>1. d \in Sent
    BY <1>1, DatagramIsSent DEF PunchInv
  <2>2. datagrams' = datagrams \/ datagrams' = Append(datagrams, d)
    BY <1>3
  <2> HIDE DEF d
  <2>3. datagrams \in Seq(Sent) /\ Append(datagrams, d) \in Seq(Sent)
    BY <2>1 DEF PunchInv, PunchTypes
  <2>4. datagrams' \in Seq(Sent)
    BY <2>2, <2>3, Zenon
  <2> QED
    BY <1>3, <2>4 DEF PunchInv, PunchTypes
<1>5. CallsInv' /\ FramesInv' /\ PeerInv'
  BY <1>2, <1>3, MovesKeepCalls, MovesKeepFrames
<1>6. HeardInv'
  BY <1>2, <1>3, MovesKeepHeard DEF PunchInv, PunchTypes
<1>7. AnswersReachTheirAskers'
  BY <1>2 DEF PunchInv, AnswersReachTheirAskers, CallMoves
<1> QED
  BY <1>4, <1>5, <1>6, <1>7 DEF PunchInv

\* A pair is opened before anything is sent on it.
LEMMA OpenSessionKeeps ==
  ASSUME PunchInv, NEW c \in Callers, OpenSession(c)
  PROVE  PunchInv'
<1>1. CallMoves(c) /\ caller'[c].at \in {"relay", "failed"} /\ caller'[c].sent = 0
  BY Zenon DEF OpenSession, Goes, mute, others, PunchInv, CallsInv, CallFields, CallMoves, Active
<1>2. /\ UNCHANGED <<keeper, frames, datagrams, phoned>>
      /\ pairs' \subseteq pairs \cup {caller[c].call}
  BY DEF OpenSession, mute, others
<1>3. /\ heard' \in [Callers -> Seq(Heard)] /\ DOMAIN heard' = Callers
      /\ \A d \in Callers \ {c} : heard'[d] = heard[d]
      /\ heard'[c] = <<>>
  BY DEF OpenSession, PunchInv, PunchTypes
<1>4. PunchTypes'
  BY <1>2, <1>3 DEF PunchInv, PunchTypes
<1>5. CallsInv' /\ FramesInv' /\ PeerInv' /\ HeardInv'
  BY <1>1, <1>2, <1>3, MovesKeepCalls, MovesKeepFrames, MovesKeepHeard
<1>6. AnswersReachTheirAskers'
  BY <1>1 DEF PunchInv, AnswersReachTheirAskers, CallMoves
<1> QED
  BY <1>4, <1>5, <1>6 DEF PunchInv

\* A frame through the relay: what is left of a push finds its request sent before it.
LEMMA SendFrameKeeps ==
  ASSUME PunchInv, NEW c \in Callers, SendFrame(c)
  PROVE  PunchInv'
<1> DEFINE next == Frames(caller[c].cmd)[caller[c].sent + 1]
           f == Datagram(next, c)
<1>1. /\ next = IF caller[c].sent = 0 THEN "request" ELSE "rest"
      /\ caller[c].sent \in 0..2 /\ caller[c].sent + 1 \in 0..2
  BY NextFrame DEF SendFrame, PunchInv, CallsInv
<1>2. CallMoves(c) /\ caller'[c].at = "relay" /\ caller[c].at = "relay"
  BY <1>1, Zenon DEF SendFrame, mute, others, PunchInv, CallsInv, CallFields, CallMoves, Active
<1>3. UNCHANGED <<keeper, datagrams, pairs, phoned>>
  BY DEF SendFrame, mute, others
<1>4. f \in Sent /\ f.kind = next /\ f.call = caller[c].call
  <2>1. next \in {"probe", "request", "rest"}
    BY <1>1
  <2> HIDE DEF next
  <2> QED
    BY <2>1, DatagramIsSent, Zenon DEF PunchInv, Datagram
<1> HIDE DEF next, f
<1>5. CallsInv'
  BY <1>2, MovesKeepCalls
<1>6. AnswersReachTheirAskers' /\ PeerInv'
  BY <1>2, <1>3 DEF PunchInv, AnswersReachTheirAskers, CallMoves, PeerInv
<1>7. CASE caller[c].call \in pairs
  <2>1. frames' = Append(frames, f) /\ heard' = heard
    BY <1>7 DEF SendFrame, f, next
  <2>2. PunchTypes'
    BY <1>3, <1>4, <2>1 DEF PunchInv, PunchTypes
  <2>3. HeardInv'
    BY <1>2, <2>1, MovesKeepHeard DEF PunchInv, PunchTypes
  <2>4. /\ Len(frames) \in Nat /\ Len(frames') = Len(frames) + 1 /\ frames'[Len(frames) + 1] = f
        /\ \A i \in 1..Len(frames) : frames'[i] = frames[i]
    BY <2>1 DEF PunchInv, PunchTypes
  <2>5. ASSUME NEW call, NEW n \in Nat, Asked(keeper, frames, call, n)
        PROVE  \A m \in Nat : m >= n => Asked(keeper', frames', call, m)
    BY <1>3, <2>4, <2>5 DEF Asked
  <2>6. Asked(keeper', frames', f.call, Len(frames') + 1)
    <3>1. CASE caller[c].sent = 0
      BY <1>1, <1>4, <2>4, <3>1 DEF Asked
    <3>2. CASE caller[c].sent > 0
      <4>1. Asked(keeper, frames, f.call, Len(frames) + 1)
        BY <1>2, <1>4, <1>7, <3>2 DEF PunchInv, FramesInv
      <4> QED
        BY <2>4, <2>5, <4>1
    <3> QED
      BY <1>1, <3>1, <3>2
  <2>7. ASSUME NEW i \in 1..Len(frames'), frames'[i].kind = "rest"
        PROVE  Asked(keeper', frames', frames'[i].call, i)
    <3>1. CASE i \in 1..Len(frames)
      <4>1. frames'[i] = frames[i] /\ Asked(keeper, frames, frames[i].call, i) /\ i \in Nat
        BY <2>4, <2>7, <3>1 DEF PunchInv, FramesInv
      <4> QED
        BY <2>5, <4>1
    <3>2. CASE i = Len(frames) + 1
      <4>1. f.kind = "rest" /\ caller[c].sent > 0
        BY <1>1, <1>4, <2>4, <2>7, <3>2, SMTT(40)
      <4>2. Asked(keeper, frames, f.call, Len(frames) + 1)
        BY <1>2, <1>4, <1>7, <4>1 DEF PunchInv, FramesInv
      <4> QED
        BY <2>4, <2>5, <3>2, <4>2
    <3> QED
      BY <2>4, <2>7, <3>1, <3>2
  <2>8. ASSUME NEW d \in Callers, caller'[d].at = "relay", caller'[d].sent > 0, caller'[d].call \in pairs'
        PROVE  Asked(keeper', frames', caller'[d].call, Len(frames') + 1)
    <3>1. CASE d = c
      BY <1>2, <1>4, <2>6, <3>1 DEF CallMoves
    <3>2. CASE d # c
      <4>1. caller'[d] = caller[d]
        BY <1>2, <3>2 DEF CallMoves
      <4>2. Asked(keeper, frames, caller'[d].call, Len(frames) + 1)
        BY <1>3, <2>8, <4>1 DEF PunchInv, FramesInv
      <4> QED
        BY <2>4, <2>5, <4>2
    <3> QED
      BY <3>1, <3>2
  <2>9. FramesInv'
    BY <2>7, <2>8 DEF FramesInv
  <2> QED
    BY <1>5, <1>6, <2>2, <2>3, <2>9 DEF PunchInv
<1>8. CASE caller[c].call \notin pairs
  <2> DEFINE m == Message("error", 0)
  <2>1. m \in Heard /\ m.kind # "answer"
    BY DEF Message, Heard
  <2> HIDE DEF m
  <2>2. frames' = frames /\ heard' = [heard EXCEPT ![c] = Append(heard[c], m)]
    BY <1>8 DEF SendFrame, m
  <2>3. PunchTypes'
    BY <1>3, <2>1, <2>2 DEF PunchInv, PunchTypes
  <2>4. FramesInv'
    BY <1>2, <1>3, <1>8, <2>2, Zenon DEF PunchInv, FramesInv, CallMoves
  <2>5. ASSUME NEW d \in Callers, Active(d)', NEW i \in 1..Len(heard'[d]), heard'[d][i].kind = "answer"
        PROVE  heard'[d][i].worksFor = caller'[d].call
    <3>1. heard[d] \in Seq(Heard) /\ Active(d) /\ caller'[d].call = caller[d].call
      BY <1>2, <2>5, Zenon DEF PunchInv, PunchTypes, CallMoves, Active
    <3>2. heard'[d] = heard[d] \/ heard'[d] = Append(heard[d], m)
      BY <2>2 DEF PunchInv, PunchTypes
    <3>3. i \in 1..Len(heard[d]) /\ heard'[d][i] = heard[d][i]
      BY <2>1, <2>5, <3>1, <3>2
    <3> QED
      BY <2>5, <3>1, <3>3 DEF PunchInv, HeardInv
  <2> QED
    BY <1>5, <1>6, <2>3, <2>4, <2>5 DEF PunchInv, HeardInv
<1> QED
  BY <1>7, <1>8

\* A command ends with the answer for its own call.
LEMMA HearsKeeps ==
  ASSUME PunchInv, NEW c \in Callers, Hears(c)
  PROVE  PunchInv'
<1> DEFINE m == Head(heard[c])
<1>1. /\ heard[c] \in Seq(Heard) /\ heard[c] # <<>> /\ m = heard[c][1] /\ 1 \in 1..Len(heard[c])
      /\ Tail(heard[c]) \in Seq(Heard) /\ Active(c)
  BY DEF Hears, PunchInv, PunchTypes, Active
<1>2. m.kind = "answer" => m.worksFor = caller[c].call
  BY <1>1 DEF PunchInv, HeardInv
<1> HIDE DEF m
<1>3. /\ UNCHANGED <<keeper, frames, datagrams, phoned>>
      /\ pairs' \subseteq pairs
      /\ heard' = [heard EXCEPT ![c] = Tail(heard[c])]
  BY DEF Hears, mute, others
<1>4. /\ heard' \in [Callers -> Seq(Heard)] /\ DOMAIN heard' = Callers
      /\ \A d \in Callers \ {c} : heard'[d] = heard[d]
      /\ heard'[c] = Tail(heard[c])
  BY <1>1, <1>3 DEF PunchInv, PunchTypes
<1>5. PunchTypes'
  BY <1>3, <1>4 DEF PunchInv, PunchTypes
<1>6. CASE UNCHANGED <<caller, pairs>>
  <2>1. CallMoves(c)
    BY <1>1, <1>3, <1>6 DEF CallMoves, PunchInv, CallsInv
  <2>2. CallsInv' /\ AnswersReachTheirAskers' /\ PeerInv'
    BY <1>3, <1>6, Zenon DEF PunchInv, CallsInv, Active, AnswersReachTheirAskers, PeerInv
  <2>3. FramesInv'
    BY <1>3, <1>6, Zenon DEF PunchInv, FramesInv
  <2>4. HeardInv'
    BY <1>1, <1>4, <2>1, MovesKeepHeard
  <2> QED
    BY <1>5, <2>2, <2>3, <2>4 DEF PunchInv
<1>7. CASE caller' = [caller EXCEPT ![c].at = IF m.kind = "answer" THEN "done" ELSE "failed",
                                    ![c].got = m.worksFor]
  <2>1. /\ CallMoves(c) /\ caller'[c].at # "relay" /\ caller'[c].got = m.worksFor
        /\ caller'[c].at = "done" => m.kind = "answer"
    BY <1>1, <1>3, <1>7, Zenon DEF CallMoves, PunchInv, CallsInv, CallFields
  <2>2. CallsInv' /\ FramesInv' /\ PeerInv'
    BY <1>3, <2>1, MovesKeepCalls, MovesKeepFrames
  <2>3. HeardInv'
    BY <1>1, <1>4, <2>1, MovesKeepHeard
  <2>4. AnswersReachTheirAskers'
    BY <1>2, <2>1 DEF PunchInv, AnswersReachTheirAskers, CallMoves
  <2> QED
    BY <1>5, <2>2, <2>3, <2>4, Zenon DEF PunchInv
<1> QED
  BY <1>6, <1>7 DEF Hears, m

\* A call begins with a number of its own, and one that dies is forgotten.
LEMMA CallsComeAndGo ==
  ASSUME PunchInv, NEW c \in Callers,
         CallerDies(c) \/ \E cmd \in Commands : StartCall(c, cmd)
  PROVE  PunchInv'
<1>1. CASE CallerDies(c)
  <2>1. /\ caller' = [caller EXCEPT ![c] = NoCall] /\ pairs' \subseteq pairs
        /\ UNCHANGED <<keeper, phoned, datagrams, frames, heard>>
    BY <1>1 DEF CallerDies, mute, others
  <2>2. PunchTypes' /\ PeerInv'
    BY <2>1 DEF PunchInv, PunchTypes, PeerInv
  <2>3. /\ \A d \in Callers \ {c} : caller'[d] = caller[d]
        /\ DOMAIN caller'[c] = CallFields /\ caller'[c].at = "idle" /\ caller'[c].call = 0
        /\ caller'[c].cmd \in Commands /\ caller'[c].sent = 0
        /\ caller' = [d \in Callers |-> caller'[d]]
    BY <2>1, Zenon DEF PunchInv, CallsInv, NoCall, CallFields, Commands
  <2>4. CallsInv'
    BY <2>1, <2>3, SMTT(40) DEF PunchInv, PunchTypes, CallsInv, Active
  <2>5. AnswersReachTheirAskers'
    BY <2>3 DEF PunchInv, AnswersReachTheirAskers
  <2>6. HeardInv'
    BY <2>1, <2>3 DEF PunchInv, HeardInv, Active
  <2>7. FramesInv'
    BY <2>1, <2>3 DEF PunchInv, FramesInv
  <2> QED
    BY <2>2, <2>4, <2>5, <2>6, <2>7 DEF PunchInv
<1>2. CASE \E cmd \in Commands : StartCall(c, cmd)
  <2> PICK cmd \in Commands : StartCall(c, cmd)
    BY <1>2
  <2> DEFINE r == [NoCall EXCEPT !.at = "online", !.cmd = cmd, !.call = phoned + 1]
  <2>1. /\ DOMAIN r = CallFields /\ r.at = "online" /\ r.cmd = cmd /\ r.call = phoned + 1
        /\ r.sent = 0
    BY Zenon DEF NoCall, CallFields
  <2>2. /\ caller' = [caller EXCEPT ![c] = r] /\ phoned' = phoned + 1
        /\ heard' = [heard EXCEPT ![c] = <<>>]
        /\ UNCHANGED <<keeper, datagrams, frames, pairs>>
    BY Zenon DEF StartCall
  <2> HIDE DEF r
  <2>3. PunchTypes' /\ PeerInv'
    BY <2>2 DEF PunchInv, PunchTypes, PeerInv
  <2>4. /\ \A d \in Callers \ {c} : caller'[d] = caller[d] /\ heard'[d] = heard[d]
        /\ caller'[c] = r /\ heard'[c] = <<>>
        /\ caller' = [d \in Callers |-> caller'[d]]
    BY <2>2, Zenon DEF PunchInv, PunchTypes, CallsInv
  <2>5. CallsInv'
    BY <2>1, <2>2, <2>4, SMTT(40) DEF PunchInv, PunchTypes, CallsInv, Active
  <2>6. HeardInv'
    BY <2>4 DEF PunchInv, HeardInv, Active
  <2>7. AnswersReachTheirAskers' /\ FramesInv'
    BY <2>1, <2>2, <2>4 DEF PunchInv, AnswersReachTheirAskers, FramesInv
  <2> QED
    BY <2>3, <2>5, <2>6, <2>7 DEF PunchInv
<1> QED
  BY <1>1, <1>2

\* Whatever callers share the keeper's connection and its socket, and however they come,
\* punch, tunnel and die: a command that succeeds was answered for its own frames.
THEOREM AnswersReachAskers == PunchSpec => []AnswersReachTheirAskers
<1>1. PunchInit => PunchInv
  BY DEF PunchInit, PunchInv, PunchTypes, CallsInv, FramesInv, PeerInv, HeardInv, Active,
         AnswersReachTheirAskers, NoCall, CallFields, Commands
<1>2. PunchInv /\ [PunchNext]_punchVars => PunchInv'
  <2> SUFFICES ASSUME PunchInv, [PunchNext]_punchVars
               PROVE  PunchInv'
    BY Zenon
  <2>1. CASE UNCHANGED punchVars
    BY <2>1 DEF punchVars, PunchInv, PunchTypes, CallsInv, FramesInv, PeerInv, HeardInv, Active,
                AnswersReachTheirAskers
  <2>2. CASE KeeperStep \/ AdvertExpires
    BY <2>2, KeeperMovesKeep, ServeUdpClientKeeps, UdpPushGoesOnKeeps, ServeRelayExchangeKeeps,
       KeeperTimesOutKeeps
       DEF KeeperStep
  <2>3. ASSUME NEW c \in Callers, CallerStep(c)
        PROVE  PunchInv'
    BY <2>3, WaitingKeeps, HolePunchKeeps, SendDatagramKeeps, OpenSessionKeeps, SendFrameKeeps,
       HearsKeeps DEF CallerStep
  <2>4. ASSUME NEW c \in Callers, CallerDies(c) \/ \E cmd \in Commands : StartCall(c, cmd)
        PROVE  PunchInv'
    BY <2>4, CallsComeAndGo
  <2> QED
    BY <2>1, <2>2, <2>3, <2>4 DEF PunchNext, Commands
<1> QED
  BY <1>1, <1>2, PTL DEF PunchSpec, PunchInv

-----------------------------------------------------------------------------
(* The relay daemon. *)

\* As long as commands run alone, with the daemon stopped: a running command holds the
\* set in the file, and a running daemon too.
BansInv ==
    /\ DOMAIN daemon = {"up", "evicted"} /\ daemon.up \in BOOLEAN /\ contended \in BOOLEAN
    /\ DOMAIN admin = Admins
    /\ ~ daemon.up => registered = {}
    /\ ~ contended =>
         /\ banned \subseteq evictionFile
         /\ daemon.up => daemon.evicted = evictionFile /\ registered \cap daemon.evicted = {}
         /\ \A a \in Admins : admin[a] # NoAdmin =>
              /\ ~ daemon.up /\ admin[a].set = evictionFile
              /\ \A b \in Admins \ {a} : admin[b] = NoAdmin

\* Every attempt still counts against the bucket that admitted it: since the i-th, at
\* most the capacity was admitted or is left, or one token more per refill period.
Spent(b, times, i) ==
    LET used == Len(times) - i + 1 + b.tokens
    IN  IF times[i] >= b.last
        THEN times[i] - b.last < Refill /\ used <= Capacity
        ELSE used <= Capacity + ((b.last - times[i]) \div Refill) + 1

\* The flood gate: its bucket and the attempts it admitted.
BucketInv ==
    /\ DOMAIN bucket = {"tokens", "last"} /\ bucket.tokens \in 0..Capacity
    /\ dtick \in Nat /\ bucket.last \in 0..dtick
    /\ admits \in Seq(0..dtick)
    /\ \A i \in 1..Len(admits) : Spent(bucket, admits, i)
    /\ FloodBounded

\* The inductive invariant of the daemon.
DaemonInv == BansInv /\ BucketInv

\* A quotient of natural numbers.
LEMMA Quotient ==
    ASSUME NEW a \in Nat, NEW r \in Nat \ {0}
    PROVE  a \div r \in Nat /\ (a \div r) * r <= a /\ a < (a \div r) * r + r
  OBVIOUS

\* A positive factor cancels.
LEMMA Cancels ==
    ASSUME NEW x \in Int, NEW y \in Int, NEW r \in Nat \ {0}, x * r < y * r
    PROVE  x < y
  OBVIOUS

\* Periods add up: two spans hold no more whole periods than the two together,
\* and a piece shorter than one adds at most one.
LEMMA PeriodsAdd ==
    ASSUME NEW a \in Nat, NEW b \in Nat, NEW r \in Nat \ {0}
    PROVE  /\ (a \div r) + (b \div r) <= (a + b) \div r
           /\ a \div r <= (a + b) \div r
           /\ b < r => (a + b) \div r <= (a \div r) + 1
<1> DEFINE p == a \div r
           q == b \div r
           s == (a + b) \div r
<1>1. p \in Nat /\ q \in Nat /\ s \in Nat /\ a + b \in Nat
  BY Quotient
<1>2. p * r <= a /\ q * r <= b /\ s * r <= a + b /\ a < p * r + r /\ b < q * r + r /\ a + b < s * r + r
  BY <1>1, Quotient
<1> HIDE DEF p, q, s
<1>3. (p + q) * r < (s + 1) * r /\ p * r < (s + 1) * r
  BY <1>1, <1>2
<1>4. b < r => s * r < (p + 2) * r
  BY <1>1, <1>2
<1>5. p + q < s + 1 /\ p < s + 1
  BY <1>1, <1>3, Cancels
<1>6. b < r => s < p + 2
  BY <1>1, <1>4, Cancels
<1> QED
  BY <1>1, <1>5, <1>6 DEF p, q, s

-----------------------------------------------------------------------------
(* The eviction set. *)

\* The daemon starts from the file, writes back what it read, and stops.
LEMMA DaemonKeepsBans ==
    ASSUME BansInv, Serve \/ PersistTick \/ ShutDown \/ Killed \/ DTick
    PROVE  BansInv'
<1>1. CASE Serve
  BY <1>1, Zenon DEF Serve, BansInv
<1>2. CASE PersistTick
  BY <1>2, Zenon DEF PersistTick, BansInv
<1>3. CASE ShutDown
  BY <1>3 DEF ShutDown, Down, BansInv
<1>4. CASE Killed
  BY <1>4, Zenon DEF Killed, Down, BansInv
<1>5. CASE DTick
  BY <1>5 DEF DTick, BansInv
<1> QED
  BY <1>1, <1>2, <1>3, <1>4, <1>5, Zenon

\* A command that runs alone saves what it loaded, changed.
LEMMA AdminsKeepBans ==
    ASSUME BansInv, NEW a \in Admins,
           \/ \E fp \in Agents, cmd \in {"evict", "pardon"} : AdminLoads(a, cmd, fp)
           \/ AdminSaves(a) \/ AdminDies(a)
    PROVE  BansInv'
<1>1. CASE \E fp \in Agents, cmd \in {"evict", "pardon"} : AdminLoads(a, cmd, fp)
  <2>1. PICK fp \in Agents, cmd \in {"evict", "pardon"} : AdminLoads(a, cmd, fp)
    BY <1>1, Zenon
  <2>2. /\ UNCHANGED <<evictionFile, daemon, registered, banned>>
        /\ DOMAIN admin' = Admins /\ admin'[a].set = evictionFile
        /\ \A b \in Admins \ {a} : admin'[b] = admin[b]
        /\ contended' = (contended \/ daemon.up \/ \E b \in Admins \ {a} : admin[b] # NoAdmin)
    BY <2>1, Zenon DEF AdminLoads, BansInv
  <2>3. contended' \in BOOLEAN /\ (~ contended' => ~ contended /\ ~ daemon.up
                                     /\ \A b \in Admins \ {a} : admin[b] = NoAdmin)
    BY <2>2, ZenonT(40) DEF BansInv
  <2> QED
    BY <2>2, <2>3 DEF BansInv
<1>2. CASE AdminSaves(a)
  <2>1. /\ UNCHANGED <<daemon, registered, contended>> /\ admin[a] # NoAdmin
        /\ DOMAIN admin' = Admins /\ admin'[a] = NoAdmin
        /\ \A b \in Admins \ {a} : admin'[b] = admin[b]
    BY <1>2 DEF AdminSaves, BansInv
  <2>2. ~ contended => /\ ~ daemon.up /\ admin[a].set = evictionFile /\ banned \subseteq evictionFile
                       /\ \A b \in Admins \ {a} : admin[b] = NoAdmin
    BY <2>1 DEF BansInv
  <2>3. ~ contended => banned' \subseteq evictionFile'
    BY <1>2, <2>2, Zenon DEF AdminSaves
  <2> QED
    BY <2>1, <2>2, <2>3 DEF BansInv
<1>3. CASE AdminDies(a)
  BY <1>3, Zenon DEF AdminDies, BansInv
<1> QED
  BY <1>1, <1>2, <1>3, Zenon

\* Who is evicted is not registered.
LEMMA AgentsKeepBans ==
    ASSUME BansInv, NEW fp, Connect(fp) \/ LeaveRelay(fp)
    PROVE  BansInv'
<1>1. /\ UNCHANGED <<evictionFile, daemon, admin, banned, contended>>
      /\ \/ registered' \subseteq registered
         \/ daemon.up /\ fp \notin daemon.evicted /\ registered' = registered \cup {fp}
  BY DEF Connect, LeaveRelay
<1> QED
  BY <1>1 DEF BansInv

-----------------------------------------------------------------------------
(* The flood gate. *)

\* A refill adds one token per period at most and accounts for every admission.
LEMMA RefillKeeps ==
    ASSUME BucketInv
    PROVE  /\ DOMAIN Refilled = {"tokens", "last"} /\ Refilled.tokens \in 0..Capacity
           /\ Refilled.last \in 0..dtick /\ dtick - Refilled.last < Refill
           /\ \A i \in 1..Len(admits) : Spent(Refilled, admits, i)
<1> DEFINE due == (dtick - bucket.last) \div Refill
<1>0. Capacity \in Nat /\ Refill \in Nat \ {0}
  BY GateAssumption
<1>1. /\ dtick \in Nat /\ bucket.last \in Nat /\ dtick - bucket.last \in Nat
      /\ bucket.tokens \in Nat /\ bucket.tokens <= Capacity
  BY <1>0 DEF BucketInv
<1>2. due \in Nat /\ due * Refill <= dtick - bucket.last /\ dtick - bucket.last < due * Refill + Refill
  BY <1>0, <1>1, Quotient, Zenon
<1> HIDE DEF due
<1>3. CASE due = 0
  <2>1. Refilled = bucket
    BY <1>3 DEF Refilled, due
  <2>2. dtick - bucket.last < Refill
    BY <1>0, <1>1, <1>2, <1>3
  <2> QED
    BY <2>1, <2>2 DEF BucketInv
<1>4. CASE due > 0
  <2>1. Refilled = [tokens |-> IF bucket.tokens + due > Capacity THEN Capacity ELSE bucket.tokens + due,
                    last |-> dtick]
    BY <1>4 DEF Refilled, due
  <2>2. /\ Refilled.last = dtick /\ DOMAIN Refilled = {"tokens", "last"}
        /\ Refilled.tokens = IF Capacity <= bucket.tokens + due THEN Capacity ELSE bucket.tokens + due
    BY <1>0, <1>1, <1>2, <2>1
  <2>3. Refilled.tokens \in 0..Capacity /\ Refilled.tokens <= bucket.tokens + due
    BY <1>0, <1>1, <1>2, <2>2
  <2>4. dtick - bucket.last >= Refill
    BY <1>0, <1>1, <1>2, <1>4
  <2>5. ASSUME NEW i \in 1..Len(admits)
        PROVE  /\ admits[i] < dtick
               /\ Len(admits) - i + 1 + Refilled.tokens
                    <= Capacity + ((dtick - admits[i]) \div Refill) + 1
    <3>0. Spent(bucket, admits, i)
      BY <2>5 DEF BucketInv
    <3>1. admits[i] \in Nat /\ admits[i] <= dtick /\ Len(admits) \in Nat
      BY <1>1, <2>5 DEF BucketInv
    <3> DEFINE used == Len(admits) - i + 1 + bucket.tokens
               now == Len(admits) - i + 1 + Refilled.tokens
    <3>2. used \in Int /\ now \in Int /\ now <= used + due
      <4>1. /\ Len(admits) - i + 1 \in Int /\ Refilled.tokens \in Int
            /\ bucket.tokens \in Int /\ due \in Int
        BY <1>0, <1>1, <1>2, <2>3, <3>1
      <4>2. Refilled.tokens <= bucket.tokens + due
        BY <2>3
      <4> QED
        BY <4>1, <4>2
    <3>3. CASE admits[i] >= bucket.last
      <4>1. admits[i] - bucket.last < Refill /\ used <= Capacity
        BY <3>0, <3>1, <3>3 DEF Spent
      <4>2. dtick - admits[i] \in Nat /\ admits[i] - bucket.last \in Nat /\ admits[i] < dtick
        <5>1. admits[i] - bucket.last < dtick - bucket.last
          BY <1>0, <1>1, <2>4, <3>1, <4>1, SMTT(40)
        <5> QED
          BY <1>1, <3>1, <3>3, <5>1
      <4>3. dtick - bucket.last = (dtick - admits[i]) + (admits[i] - bucket.last)
        BY <1>1, <3>1
      <4> DEFINE q == (dtick - admits[i]) \div Refill
      <4>4. due <= q + 1 /\ q \in Nat
        BY <1>0, <4>1, <4>2, <4>3, PeriodsAdd, Quotient, Zenon DEF due
      <4> HIDE DEF q, used, now
      <4>5. now <= Capacity + q + 1
        BY <1>0, <1>2, <3>2, <4>1, <4>4
      <4> QED
        BY <4>2, <4>5 DEF q, now
    <3>4. CASE admits[i] < bucket.last
      <4>1. used <= Capacity + ((bucket.last - admits[i]) \div Refill) + 1
        BY <1>1, <3>0, <3>1, <3>4 DEF Spent
      <4>2. bucket.last - admits[i] \in Nat /\ dtick - bucket.last \in Nat /\ admits[i] < dtick
        BY <1>1, <3>1, <3>4
      <4>3. dtick - admits[i] = (bucket.last - admits[i]) + (dtick - bucket.last)
        BY <1>1, <3>1
      <4> DEFINE q == (dtick - admits[i]) \div Refill
                 p == (bucket.last - admits[i]) \div Refill
      <4>4. p + due <= q
        <5>1. p + ((dtick - bucket.last) \div Refill)
                <= ((bucket.last - admits[i]) + (dtick - bucket.last)) \div Refill
          BY <1>0, <4>2, PeriodsAdd
        <5> QED
          BY <4>3, <5>1 DEF due
      <4>5. p \in Nat /\ q \in Nat
        <5>1. dtick - admits[i] \in Nat
          BY <1>1, <3>1, <4>2
        <5> QED
          BY <1>0, <4>2, <5>1, Quotient
      <4> HIDE DEF q, p, used, now
      <4>6. now <= Capacity + q + 1
        BY <1>0, <1>2, <3>2, <4>1, <4>4, <4>5 DEF p
      <4> QED
        BY <4>2, <4>6 DEF q, now
    <3> QED
      BY <1>1, <3>1, <3>3, <3>4
  <2>6. \A i \in 1..Len(admits) : ~ (admits[i] >= dtick)
    BY <1>1, <2>5 DEF BucketInv
  <2> QED
    BY <1>0, <1>1, <2>2, <2>3, <2>5, <2>6 DEF Spent
<1> QED
  BY <1>2, <1>3, <1>4

\* An attempt takes a token of the refilled bucket, or finds none.
LEMMA ConnectKeepsBucket ==
    ASSUME BucketInv, NEW fp, Connect(fp)
    PROVE  BucketInv'
<1> DEFINE b == Refilled
           n == Len(admits)
<1>0. Capacity \in Nat /\ Refill \in Nat \ {0}
  BY GateAssumption
<1>1. /\ dtick' = dtick /\ dtick \in Nat /\ admits \in Seq(0..dtick) /\ n \in Nat
      /\ \A i \in 1..n : admits[i] \in Nat /\ admits[i] <= dtick
  BY DEF Connect, BucketInv
<1>2. /\ DOMAIN b = {"tokens", "last"} /\ b.tokens \in Nat /\ b.tokens <= Capacity
      /\ b.last \in Nat /\ b.last <= dtick /\ dtick - b.last < Refill
      /\ \A i \in 1..n : Spent(b, admits, i)
  BY <1>0, RefillKeeps
<1> HIDE DEF b
<1>3. CASE b.tokens > 0
  <2>1. bucket' = [b EXCEPT !.tokens = b.tokens - 1] /\ admits' = Append(admits, dtick)
    BY <1>3 DEF Connect, b
  <2>2. /\ DOMAIN bucket' = {"tokens", "last"} /\ bucket'.tokens = b.tokens - 1 /\ bucket'.last = b.last
        /\ bucket'.tokens \in 0..Capacity /\ bucket'.last \in 0..dtick
    BY <1>0, <1>1, <1>2, <1>3, <2>1
  <2>3. /\ admits' \in Seq(0..dtick) /\ Len(admits') = n + 1 /\ admits'[n + 1] = dtick
        /\ \A i \in 1..n : admits'[i] = admits[i]
    BY <1>1, <2>1
  <2>4. ASSUME NEW i \in 1..n
        PROVE  Spent(bucket', admits', i)
    <3>1. Len(admits') - i + 1 + bucket'.tokens = n - i + 1 + b.tokens /\ admits'[i] = admits[i]
      BY <1>1, <1>2, <2>2, <2>3
    <3> QED
      BY <1>2, <2>2, <3>1 DEF Spent
  <2>5. Spent(bucket', admits', n + 1)
    <3>1. Len(admits') - (n + 1) + 1 + bucket'.tokens = b.tokens
      BY <1>1, <1>2, <2>2, <2>3
    <3> QED
      BY <1>1, <1>2, <2>2, <2>3, <3>1 DEF Spent
  <2>6. \A i \in 1..Len(admits') : Spent(bucket', admits', i)
    BY <1>1, <2>3, <2>4, <2>5
  <2>7. ASSUME NEW i \in 1..n + 1
        PROVE  (n + 1) - i + 1 <= Capacity + ((admits'[n + 1] - admits'[i]) \div Refill) + 1
    <3>1. admits'[i] \in Nat /\ admits'[i] <= dtick /\ Spent(bucket', admits', i) /\ dtick - admits'[i] \in Nat
      BY <1>1, <2>3, <2>6
    <3> DEFINE q == (dtick - admits'[i]) \div Refill
    <3>2. q \in Nat
      BY <1>0, <3>1, Quotient
    <3>3. CASE admits'[i] >= b.last
      <4>1. (n + 1) - i + 1 + bucket'.tokens <= Capacity
        BY <2>2, <2>3, <3>1, <3>3 DEF Spent
      <4> HIDE DEF q
      <4>2. (n + 1) - i + 1 <= Capacity + q + 1
        <5>1. i \in Int /\ n \in Int /\ bucket'.tokens \in Nat
          BY <1>0, <1>1, <2>2
        <5> QED
          BY <1>0, <3>2, <4>1, <5>1
      <4> QED
        BY <2>3, <4>2 DEF q
    <3>4. CASE admits'[i] < b.last
      <4> DEFINE p == (b.last - admits'[i]) \div Refill
      <4>1. (n + 1) - i + 1 + bucket'.tokens <= Capacity + p + 1
        BY <1>2, <2>2, <2>3, <3>1, <3>4 DEF Spent
      <4>2. b.last - admits'[i] \in Nat /\ dtick - b.last \in Nat
            /\ dtick - admits'[i] = (b.last - admits'[i]) + (dtick - b.last)
        BY <1>1, <1>2, <3>1, <3>4, SMTT(40)
      <4>3. p \in Nat /\ p <= q
        BY <1>0, <4>2, PeriodsAdd, Quotient
      <4> HIDE DEF p, q
      <4>4. (n + 1) - i + 1 <= Capacity + q + 1
        <5>1. i \in Int /\ n \in Int /\ bucket'.tokens \in Nat
          BY <1>0, <1>1, <2>2
        <5> QED
          BY <1>0, <3>2, <4>1, <4>3, <5>1
      <4> QED
        BY <2>3, <4>4 DEF q
    <3> QED
      BY <1>2, <3>1, <3>3, <3>4
  <2>8. FloodBounded'
    <3>1. DOMAIN admits = 1..n /\ DOMAIN admits' = 1..n + 1
      BY <1>1, <2>3
    <3>2. ASSUME NEW i \in 1..n + 1, NEW j \in 1..n + 1, i <= j
          PROVE  j - i + 1 <= Capacity + ((admits'[j] - admits'[i]) \div Refill) + 1
      <4>1. CASE j = n + 1
        BY <2>7, <4>1
      <4>2. CASE j # n + 1
        <5>1. i \in DOMAIN admits /\ j \in DOMAIN admits
          BY <1>1, <3>1, <3>2, <4>2
        <5> QED
          BY <2>3, <3>1, <3>2, <5>1 DEF BucketInv, FloodBounded
      <4> QED
        BY <4>1, <4>2
    <3> QED
      BY <3>1, <3>2 DEF FloodBounded
  <2> QED
    BY <1>1, <2>2, <2>3, <2>6, <2>8 DEF BucketInv
<1>4. CASE ~ (b.tokens > 0)
  <2>1. bucket' = b /\ admits' = admits
    BY <1>4 DEF Connect, b
  <2> QED
    BY <1>0, <1>1, <1>2, <2>1 DEF BucketInv, FloodBounded
<1> QED
  BY <1>3, <1>4

\* The other steps: a daemon that starts has a full bucket and has admitted nobody.
LEMMA OthersKeepBucket ==
    ASSUME BucketInv,
           \/ Serve \/ DTick
           \/ UNCHANGED <<bucket, dtick, admits>>
    PROVE  BucketInv'
<1>0. Capacity \in Nat
  BY GateAssumption, Zenon
<1>1. CASE Serve
  BY <1>0, <1>1 DEF Serve, BucketInv, FloodBounded
<1>2. CASE DTick
  <2>1. dtick' = dtick + 1 /\ UNCHANGED <<bucket, admits>> /\ admits \in Seq(0..dtick) /\ dtick \in Nat
    BY <1>2 DEF DTick, BucketInv
  <2>2. admits' \in Seq(0..dtick')
    BY <2>1
  <2> QED
    BY <2>1, <2>2 DEF BucketInv, FloodBounded
<1>3. CASE UNCHANGED <<bucket, dtick, admits>>
  BY <1>3 DEF BucketInv, FloodBounded
<1> QED
  BY <1>1, <1>2, <1>3

\* However the daemon is started, stopped and killed and whatever is asked of it: what the
\* operator evicted with the daemon stopped stays evicted and is never registered, and
\* the flood gate admits no more than its capacity and its refill allow.
THEOREM AdmissionAlwaysHolds == DaemonSpec => []AdmissionHolds
<1>1. DaemonInit => DaemonInv
  <2> SUFFICES ASSUME DaemonInit
               PROVE  DaemonInv
    BY Zenon
  <2>1. BansInv
    BY ZenonT(40) DEF DaemonInit, BansInv, Down
  <2>2. BucketInv
    BY GateAssumption DEF DaemonInit, BucketInv, FloodBounded
  <2> QED
    BY <2>1, <2>2 DEF DaemonInv
<1>2. DaemonInv /\ [DaemonNext]_daemonVars => DaemonInv'
  <2> SUFFICES ASSUME DaemonInv, [DaemonNext]_daemonVars
               PROVE  DaemonInv'
    BY Zenon
  <2>1. BansInv'
    <3>1. CASE UNCHANGED daemonVars
      BY <3>1 DEF daemonVars, DaemonInv, BansInv
    <3> QED
      BY <3>1, DaemonKeepsBans, AdminsKeepBans, AgentsKeepBans DEF DaemonNext, DaemonInv
  <2>2. BucketInv'
    <3>1. CASE \E fp \in Agents : Connect(fp)
      BY <3>1, ConnectKeepsBucket DEF DaemonInv
    <3>2. CASE ~ \E fp \in Agents : Connect(fp)
      <4>1. Serve \/ DTick \/ UNCHANGED <<bucket, dtick, admits>>
        <5>1. ASSUME NEW a \in Admins, NEW fp \in Agents, NEW cmd \in {"evict", "pardon"}, AdminLoads(a, cmd, fp)
              PROVE  UNCHANGED <<bucket, dtick, admits>>
          BY <5>1, Zenon DEF AdminLoads
        <5>2. ASSUME NEW a \in Admins, AdminSaves(a) \/ AdminDies(a)
              PROVE  UNCHANGED <<bucket, dtick, admits>>
          BY <5>2, Zenon DEF AdminSaves, AdminDies
        <5>3. ASSUME NEW fp \in Agents, LeaveRelay(fp) PROVE UNCHANGED <<bucket, dtick, admits>>
          BY <5>3, Zenon DEF LeaveRelay
        <5>4. CASE PersistTick \/ ShutDown \/ Killed \/ UNCHANGED daemonVars
          BY <5>4, Zenon DEF PersistTick, ShutDown, Killed, daemonVars
        <5> QED
          BY <3>2, <5>1, <5>2, <5>3, <5>4, Zenon DEF DaemonNext
      <4> QED
        BY <4>1, OthersKeepBucket DEF DaemonInv
    <3> QED
      BY <3>1, <3>2
  <2> QED
    BY <2>1, <2>2 DEF DaemonInv
<1>3. DaemonInv => AdmissionHolds
  BY DEF DaemonInv, BansInv, BucketInv, AdmissionHolds, BansHold
<1> QED
  BY <1>1, <1>2, <1>3, PTL DEF DaemonSpec
=============================================================================
