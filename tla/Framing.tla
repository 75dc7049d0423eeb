------------------------------ MODULE Framing ------------------------------
(***************************************************************************)
(* The frame connections under every Origin session: length-prefixed, tagged *)
(* frames over TCP or one QUIC stream, where reads return pieces cut         *)
(* anywhere and are abandoned by deadlines and by select!, and over UDP,     *)
(* where one datagram is one frame and may be lost or overtaken.             *)
(* A byte is 0..Base-1 and the length prefix is two of them.  The bytes in   *)
(* flight, quinn's shutdown and the UDP socket are external.                 *)
(***************************************************************************)
EXTENDS Integers, Sequences, FiniteSets, SequencesExt, TLC

CONSTANTS
    Mediums,        \* the transports checked, of "tcp", "quic" and "udp"
    Tags,           \* frame types
    Owned,          \* those of the CONTROL and ERROR ranges
    NamedTags,      \* those WireType has a name for
    Payloads,       \* payloads, sequences of bytes
    Base,           \* values of a byte
    MaxFrameSize,   \* MAX_FRAME_SIZE
    MaxDatagram,    \* MAX_DATAGRAM_FRAME
    MaxSends,       \* bound: send_frame calls
    MaxSlips        \* bound: deadlines, abandoned reads and lost datagrams

VARIABLES
    medium,     \* the transport of this connection
    conn,       \* per end: its read buffer, its stream, the call it is in
    flight,     \* flight[e]: on the way to e (bytes, or datagrams over UDP)
    sent,       \* sent[e]: the frames send_frame took for e, in order
    got,        \* got[e]: the frames recv_frame returned at e, in order
    ended,      \* ends that closed, and "both" once QUIC was shut down
    slips

framingVars == <<medium, conn, flight, sent, got, ended, slips>>

Ends2 == {"ini", "rsp"}
PeerOf(e) == CHOOSE f \in Ends2 : f # e

(***************************************************************************)
(* The codec.                                                              *)
(***************************************************************************)
PrefixSize == 2

EncodeFrame(inner) ==
    IF Len(inner) > MaxFrameSize THEN [ok |-> FALSE, bytes |-> <<>>]
    ELSE [ok |-> TRUE,
          bytes |-> <<Len(inner) \div Base, Len(inner) % Base>> \o inner]

EncodeTyped(tag, payload) == EncodeFrame(<<tag>> \o payload)

Nothing_ == [kind |-> "none", inner |-> <<>>, used |-> 0]
Malformed == [kind |-> "bad", inner |-> <<>>, used |-> 0]

DecodeFrame(buf) ==
    IF Len(buf) < PrefixSize THEN Nothing_
    ELSE LET len == buf[1] * Base + buf[2]
             total == PrefixSize + len
         IN  IF len > MaxFrameSize THEN Malformed
             ELSE IF Len(buf) < total THEN Nothing_
             ELSE [kind |-> "frame", inner |-> SubSeq(buf, PrefixSize + 1, total),
                   used |-> total]

DecodeTyped(buf) ==
    LET d == DecodeFrame(buf)
    IN  IF d.kind = "frame" /\ d.inner = <<>> THEN Malformed ELSE d

\* A type of an owned range without a name is refused by every transport.
FromU8(tag) == tag \in NamedTags
IsNetworkOwned(tag) == tag \in Owned

ToWire(tag, payload) ==
    IF (IsNetworkOwned(tag) \/ FromU8(tag)) /\ ~FromU8(tag)
    THEN [ok |-> FALSE, bytes |-> <<>>]
    ELSE EncodeTyped(tag, payload)

(***************************************************************************)
(* A connection.  The initiator of a QUIC connection opens the stream, the   *)
(* responder takes it from the connection the first time it needs it.        *)
(***************************************************************************)
Conn(stream) == [buf |-> <<>>, stream |-> stream, doing |-> "idle",
                 out |-> <<>>, err |-> "none"]

TcpConn == Conn("open")
QuicInitiator == Conn("open")
QuicResponder == Conn("pending")
UdpConn == Conn("open")

Begins(m) ==
    CASE m = "tcp"  -> [e \in Ends2 |-> TcpConn]
      [] m = "quic" -> ("ini" :> QuicInitiator) @@ ("rsp" :> QuicResponder)
      [] m = "udp"  -> [e \in Ends2 |-> UdpConn]

FramingInit ==
    /\ medium \in Mediums
    /\ conn = Begins(medium)
    /\ flight = [e \in Ends2 |-> <<>>]
    /\ sent = [e \in Ends2 |-> <<>>]
    /\ got = [e \in Ends2 |-> <<>>]
    /\ ended = {}
    /\ slips = 0

Usable(e) == ended \cap {e, "both"} = {}

\* What the stream accepts travels behind what it accepted before; a datagram
\* travels alone.
Wrote(e, frame, bytes) ==
    /\ sent' = [sent EXCEPT ![PeerOf(e)] = Append(@, frame)]
    /\ flight' = [flight EXCEPT ![PeerOf(e)] =
                     IF medium = "udp" THEN Append(@, bytes) ELSE @ \o bytes]

Calls == Len(sent["ini"]) + Len(sent["rsp"])
         + Cardinality({e \in Ends2 : conn[e].doing = "send"})

SendTcp(e, tag, payload) ==
    /\ medium = "tcp"
    /\ LET w == ToWire(tag, payload)
       IN  w.ok /\ Wrote(e, <<tag>> \o payload, w.bytes)
    /\ UNCHANGED <<medium, conn, got, ended, slips>>

\* ensure_stream takes the pending connection before it waits for the stream.
SendQuic(e, tag, payload) ==
    /\ medium = "quic"
    /\ LET w == ToWire(tag, payload)
       IN  /\ w.ok
           /\ \/ /\ conn[e].stream = "open"
                 /\ Wrote(e, <<tag>> \o payload, w.bytes)
                 /\ UNCHANGED conn
              \/ /\ conn[e].stream = "pending"
                 /\ conn' = [conn EXCEPT ![e].stream = "taken", ![e].doing = "send",
                                         ![e].out = <<tag>> \o payload]
                 /\ UNCHANGED <<sent, flight>>
    /\ UNCHANGED <<medium, got, ended, slips>>

SendUdp(e, tag, payload) ==
    /\ medium = "udp"
    /\ LET w == ToWire(tag, payload)
       IN  /\ w.ok
           /\ Len(w.bytes) <= MaxDatagram
           /\ Wrote(e, <<tag>> \o payload, w.bytes)
    /\ UNCHANGED <<medium, conn, got, ended, slips>>

Send(e) ==
    /\ conn[e].doing = "idle"
    /\ conn[e].err = "none"
    /\ Usable(e)
    /\ Calls < MaxSends
    /\ \E tag \in Tags, payload \in Payloads :
          \/ SendTcp(e, tag, payload)
          \/ SendQuic(e, tag, payload)
          \/ SendUdp(e, tag, payload)

\* accept_bi answers once the initiator has written on the stream it opened.
EnsureStream(e) ==
    /\ conn[e].stream = "taken"
    /\ conn[e].doing # "idle"
    /\ sent[e] # <<>>
    /\ Usable(e)
    /\ IF conn[e].doing = "send"
       THEN /\ Wrote(e, conn[e].out, EncodeFrame(conn[e].out).bytes)
            /\ conn' = [conn EXCEPT ![e].stream = "open", ![e].doing = "idle",
                                    ![e].out = <<>>]
       ELSE /\ conn' = [conn EXCEPT ![e].stream = "open"]
            /\ UNCHANGED <<sent, flight>>
    /\ UNCHANGED <<medium, got, ended, slips>>

(***************************************************************************)
(* recv_frame: decode what is buffered, or read more and try again.          *)
(***************************************************************************)
RecvFrame(e) ==
    /\ conn[e].doing = "idle"
    /\ conn[e].err = "none"
    /\ conn[e].stream # "taken"
    /\ conn' = [conn EXCEPT ![e].doing = "recv",
                            ![e].stream = IF @ = "pending" THEN "taken" ELSE @]
    /\ UNCHANGED <<medium, flight, sent, got, ended, slips>>

Reading(e) == conn[e].doing = "recv" /\ conn[e].stream = "open"

\* Mutant: the whole buffer goes with the frame that was decoded.
DrainAll(buf, used) == <<>>

Drain(buf, used) == SubSeq(buf, used + 1, Len(buf))

RecvReturns(e) ==
    /\ Reading(e)
    /\ medium # "udp"
    /\ LET d == DecodeTyped(conn[e].buf)
       IN  \/ /\ d.kind = "frame"
              /\ got' = [got EXCEPT ![e] = Append(@, d.inner)]
              /\ conn' = [conn EXCEPT ![e].buf = Drain(@, d.used), ![e].doing = "idle"]
           \/ /\ d.kind = "bad"
              /\ conn' = [conn EXCEPT ![e].err = "codec", ![e].doing = "idle"]
              /\ UNCHANGED got
    /\ UNCHANGED <<medium, flight, sent, ended, slips>>

ReadMore(e) ==
    /\ Reading(e)
    /\ medium # "udp"
    /\ DecodeTyped(conn[e].buf).kind = "none"
    /\ \E n \in 1..Len(flight[e]) :
          /\ conn' = [conn EXCEPT ![e].buf = @ \o SubSeq(flight[e], 1, n)]
          /\ flight' = [flight EXCEPT ![e] = SubSeq(@, n + 1, Len(@))]
    /\ UNCHANGED <<medium, sent, got, ended, slips>>

\* Nothing is left to come: read returns 0, or the stream is finished or lost.
ReadFails(e) ==
    /\ conn[e].doing # "idle"
    /\ DecodeTyped(conn[e].buf).kind = "none"
    /\ flight[e] = <<>>
    /\ \/ medium = "tcp" /\ PeerOf(e) \in ended
       \/ medium = "quic" /\ "both" \in ended
       \/ medium = "quic" /\ PeerOf(e) \in ended /\ conn[e].stream = "open"
    /\ conn' = [conn EXCEPT ![e].err = "closed", ![e].doing = "idle"]
    /\ UNCHANGED <<medium, flight, sent, got, ended, slips>>

\* TCP_RECV_TIMEOUT and UDP_RECV_TIMEOUT end one call on a stalled link; the
\* buffer stays.
ReadTimesOut(e) ==
    /\ Reading(e)
    /\ medium \in {"tcp", "udp"}
    /\ DecodeTyped(conn[e].buf).kind = "none"
    /\ slips < MaxSlips
    /\ slips' = slips + 1
    /\ conn' = [conn EXCEPT ![e].doing = "idle"]
    /\ UNCHANGED <<medium, flight, sent, got, ended>>

\* The control loop's select! drops recv_frame when something is to be sent or
\* its latency bound passes.  The loop starts after the handshake's frames.
Abandoned(e) ==
    /\ Reading(e)
    /\ got[e] # <<>>
    /\ slips < MaxSlips
    /\ slips' = slips + 1
    /\ conn' = [conn EXCEPT ![e].doing = "idle"]
    /\ UNCHANGED <<medium, flight, sent, got, ended>>

(***************************************************************************)
(* UDP: one datagram is one frame, in no order, perhaps never.               *)
(***************************************************************************)
RecvDatagram(e) ==
    /\ Reading(e)
    /\ medium = "udp"
    /\ \E i \in 1..Len(flight[e]) :
          LET d == DecodeTyped(flight[e][i])
          IN  /\ flight' = [flight EXCEPT ![e] = RemoveAt(@, i)]
              /\ IF d.kind = "frame"
                 THEN /\ got' = [got EXCEPT ![e] = Append(@, d.inner)]
                      /\ conn' = [conn EXCEPT ![e].doing = "idle"]
                 ELSE /\ conn' = [conn EXCEPT ![e].doing = "idle", ![e].err = "codec"]
                      /\ UNCHANGED got
    /\ UNCHANGED <<medium, sent, ended, slips>>

DatagramLost(e) ==
    /\ medium = "udp"
    /\ slips < MaxSlips
    /\ slips' = slips + 1
    /\ \E i \in 1..Len(flight[e]) : flight' = [flight EXCEPT ![e] = RemoveAt(@, i)]
    /\ UNCHANGED <<medium, conn, sent, got, ended>>

(***************************************************************************)
(* Closing.  close ends this end's writing; shutdown of a QUIC connection    *)
(* ends both directions and what is still in flight may be dropped.          *)
(***************************************************************************)
CloseTcp(e) ==
    /\ medium = "tcp"
    /\ ended' = ended \cup {e}
    /\ UNCHANGED flight

CloseQuic(e) ==
    /\ medium = "quic"
    /\ conn[e].stream = "open"
    /\ ended' = ended \cup {e}
    /\ UNCHANGED flight

ShutdownQuic(e) ==
    /\ medium = "quic"
    /\ ended' = ended \cup {e, "both"}
    /\ \E n \in 0..Len(flight[PeerOf(e)]) :
          flight' = [flight EXCEPT ![PeerOf(e)] = SubSeq(@, 1, n), ![e] = <<>>]

Close_(e) ==
    /\ conn[e].doing = "idle"
    /\ e \notin ended
    /\ CloseTcp(e) \/ CloseQuic(e) \/ ShutdownQuic(e)
    /\ UNCHANGED <<medium, conn, sent, got, slips>>

FramingNext ==
    \E e \in Ends2 :
        \/ Send(e) \/ EnsureStream(e) \/ RecvFrame(e) \/ RecvReturns(e)
        \/ ReadMore(e) \/ ReadFails(e) \/ ReadTimesOut(e) \/ Abandoned(e)
        \/ RecvDatagram(e) \/ DatagramLost(e) \/ Close_(e)

\* Every loop of the code over recv_frame calls it again until it fails.
RecvLoop(e) == RecvReturns(e) \/ ReadMore(e) \/ RecvDatagram(e)

(***************************************************************************)
(* Properties.                                                             *)
(***************************************************************************)
Bytes(frames) == FlattenSeq([i \in 1..Len(frames) |-> EncodeFrame(frames[i]).bytes])

\* However reads cut the byte stream, and whichever of them were given up by a
\* deadline or by select!, recv_frame returns the frames send_frame took, in
\* order, and (until a QUIC shutdown) no byte of the rest is missing.
FramesComeInOrder ==
    medium # "udp" =>
        \A e \in Ends2 :
            /\ IsPrefix(got[e], sent[e])
            /\ "both" \notin ended
                  => Bytes(sent[e]) = Bytes(got[e]) \o conn[e].buf \o flight[e]

\* A frame that send_frame took is never refused by the codec at the other end,
\* on any transport: what one side may send, the other may receive.
TakenFramesDecode ==
    \A e \in Ends2 : conn[e].err # "codec"

\* What send_frame took is what recv_frame returns, in order and never refused.
FramesArriveAsSent == FramesComeInOrder /\ TakenFramesDecode

\* Over TCP and QUIC a frame that was sent is received, unless an end closes:
\* recv_frame never waits for bytes it already has.
FramesAreReceived ==
    \A e \in Ends2 : []<>(medium = "udp" \/ Len(sent[e]) = Len(got[e]) \/ ended # {})
=============================================================================
