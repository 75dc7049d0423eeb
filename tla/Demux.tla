------------------------------- MODULE Demux -------------------------------
(***************************************************************************)
(* Many streams over one frame connection: the demultiplexers of the two     *)
(* ends, over an ordered connection.  Only the end that opens a stream       *)
(* registers it; at the other end its frames surface to the control handler, *)
(* which answers on the same stream id.  The connection writer and that      *)
(* handler are external: the tests write them.                               *)
(***************************************************************************)
EXTENDS Integers, Sequences

CONSTANTS MaxStreams,   \* bound: streams one end opens
          MaxAsks       \* bound: payloads sent on streams

ASSUME StreamsAssumption == MaxStreams \in Nat

VARIABLES demux,        \* per end: registered ids, the next id, their channels,
                        \* and how much had been asked when each was opened
          pipe,         \* pipe[e]: frames on the way to e
          surfaced,     \* surfaced[e]: frames route_inbound handed to control
          asks          \* payloads sent so far

muxVars == <<demux, pipe, surfaced, asks>>

MuxEnds == {"ini", "rsp"}
OtherEnd(e) == CHOOSE f \in MuxEnds : f # e

\* Mutant: both ends number their streams from 1.
StartAtOne(e) == 1

StartId(e) == IF e = "ini" THEN 1 ELSE 2

Ids == 1..(2 * MaxStreams + 2)

New(e) == [streams |-> {}, next |-> StartId(e), since |-> [i \in Ids |-> 0],
           rx |-> [i \in Ids |-> <<>>]]

MuxInit ==
    /\ demux = [e \in MuxEnds |-> New(e)]
    /\ pipe = [e \in MuxEnds |-> <<>>]
    /\ surfaced = [e \in MuxEnds |-> <<>>]
    /\ asks = 0

RegisterStream(d, id) ==
    [d EXCEPT !.streams = @ \cup {id}, !.rx[id] = <<>>, !.since[id] = asks]

OpenStream(e) ==
    LET d == demux[e]
    IN  /\ d.next <= 2 * MaxStreams
        /\ demux' = [demux EXCEPT ![e] = RegisterStream([d EXCEPT !.next = @ + 2], d.next)]
        /\ UNCHANGED <<pipe, surfaced, asks>>

\* A MuxFrame: the stream id in front of the payload.
EncodeMux(id, body) == [mux |-> TRUE, id |-> id, body |-> body]

\* StreamHandle::send: refused once the stream is closed.
Ask_(e, id) ==
    /\ id \in demux[e].streams
    /\ asks < MaxAsks
    /\ asks' = asks + 1
    /\ pipe' = [pipe EXCEPT ![OtherEnd(e)] =
                   Append(@, EncodeMux(id, [asker |-> e, on |-> id, n |-> asks + 1,
                                            answer |-> FALSE]))]
    /\ UNCHANGED <<demux, surfaced>>

\* A frame of any other type, a relay operation or a handshake message, or a
\* MuxFrame too short for an id, which surfaces as an error.
Plain(e) ==
    /\ asks < MaxAsks
    /\ asks' = asks + 1
    /\ pipe' = [pipe EXCEPT ![OtherEnd(e)] =
                   Append(@, [mux |-> FALSE, id |-> 0,
                              body |-> [asker |-> e, on |-> 0, n |-> asks + 1,
                                        answer |-> TRUE]])]
    /\ UNCHANGED <<demux, surfaced>>

\* To the stream's channel when the id is registered here, to control if not.
RouteInbound(e) ==
    /\ pipe[e] # <<>>
    /\ LET f == Head(pipe[e])
       IN  IF f.mux /\ f.id \in demux[e].streams
           THEN /\ demux' = [demux EXCEPT ![e].rx[f.id] = Append(@, f.body)]
                /\ UNCHANGED surfaced
           ELSE /\ surfaced' = [surfaced EXCEPT ![e] = Append(@, f)]
                /\ UNCHANGED demux
    /\ pipe' = [pipe EXCEPT ![e] = Tail(@)]
    /\ UNCHANGED asks

\* External: the control handler answers a stream it has not opened itself and
\* passes over a late answer.
ControlAnswers(e) ==
    /\ surfaced[e] # <<>>
    /\ surfaced' = [surfaced EXCEPT ![e] = Tail(@)]
    /\ LET f == Head(surfaced[e])
       IN  IF f.body.answer THEN UNCHANGED pipe
           ELSE pipe' = [pipe EXCEPT ![OtherEnd(e)] =
                            Append(@, EncodeMux(f.id, [f.body EXCEPT !.answer = TRUE]))]
    /\ UNCHANGED <<demux, asks>>

\* StreamHandle::recv.
Recv(e, id) ==
    /\ demux[e].rx[id] # <<>>
    /\ demux' = [demux EXCEPT ![e].rx[id] = Tail(@)]
    /\ UNCHANGED <<pipe, surfaced, asks>>

\* The slot goes, and with it the sender; what was routed can still be read.
CloseStream(e, id) ==
    /\ id \in demux[e].streams
    /\ demux' = [demux EXCEPT ![e].streams = @ \ {id}]
    /\ UNCHANGED <<pipe, surfaced, asks>>

MuxNext ==
    \E e \in MuxEnds :
        \/ OpenStream(e) \/ Plain(e) \/ RouteInbound(e) \/ ControlAnswers(e)
        \/ \E id \in Ids : Ask_(e, id) \/ Recv(e, id) \/ CloseStream(e, id)

MuxSpec == MuxInit /\ [][MuxNext]_muxVars

(***************************************************************************)
(* Properties.                                                             *)
(***************************************************************************)
\* What a stream handle receives answers what was sent on that stream: never a
\* request of the other end whose stream has the same number, never the late
\* answer to a stream that was closed, and never out of order.
AnswersFindTheirStream ==
    \A e \in MuxEnds, id \in Ids :
        LET rx == demux[e].rx[id]
        IN  /\ \A i \in DOMAIN rx : rx[i].answer /\ rx[i].asker = e /\ rx[i].on = id
                                       /\ rx[i].n > demux[e].since[id]
            /\ \A i, j \in DOMAIN rx : i < j => rx[i].n < rx[j].n
=============================================================================
