------------------------------ MODULE Receiver ------------------------------
(***************************************************************************)
(* The webhook receiver of origin-payments: one thread that takes connection *)
(* after connection, reads an HTTP request with a deadline per read, checks  *)
(* signature and age, and resolves an order that waits on its rail.  The PSP *)
(* repeats a callback it got no answer to, the network repeats and delays,   *)
(* and the order may wait again after the executor tried it again: the PSP   *)
(* and the executor are external (Executor models the pass itself).          *)
(***************************************************************************)
EXTENDS Integers, Sequences, FiniteSets

CONSTANTS
    Tolerance,         \* 300 seconds
    LastMinute,     \* bound: the clock
    MaxWaits,       \* bound: times the order enters REQUIRES_ACTION
    MaxPosts        \* bound: connections made

ASSUME ToleranceIsANumber == Tolerance \in Nat

VARIABLES
    order,          \* its status, how often it has waited, and since when
    minute,         \* the time
    secret,         \* a webhook secret can be loaded
    backlog,        \* connections not yet accepted
    reading,        \* the request being read, and how far
    posts,          \* connections so far
    acts            \* the callbacks that were processed, and when

recvVars == <<order, minute, secret, backlog, reading, posts, acts>>

Request(path, json, dated, signature, stalls, status, at) ==
    [stage |-> "request", path |-> path, json |-> json, dated |-> dated,
     signature |-> signature, stalls |-> stalls, lines |-> 0, status |-> status, sentAt |-> at]

Idle == [stage |-> "idle", path |-> FALSE, json |-> FALSE, dated |-> FALSE,
         signature |-> <<>>, stalls |-> "never", lines |-> 0, status |-> "settled", sentAt |-> 0]

\* A keyed hash tells apart keys and bodies.
Hmac(key, status, at, dated) == <<key, status, at, dated>>

RecvInit ==
    /\ order = [status |-> "REQUIRES_ACTION", waits |-> 1, since |-> 0]
    /\ minute = 0
    /\ secret \in BOOLEAN
    /\ backlog = <<>>
    /\ reading = Idle
    /\ posts = 0
    /\ acts = {}

(***************************************************************************)
(* The world: callbacks on their way, time, and the executor.               *)
(***************************************************************************)
\* A connection is made.  Its bytes may stop coming anywhere, or come one by one.
Post(r) ==
    /\ posts < MaxPosts
    /\ posts' = posts + 1
    /\ backlog' = Append(backlog, r)
    /\ UNCHANGED <<order, minute, secret, reading, acts>>

\* The PSP's callback, new or repeated with the timestamp it was first sent with.
PspPosts ==
    \E at \in 0..minute, status \in {"settled", "failed", "odd"}, dated \in BOOLEAN :
        Post(Request(TRUE, TRUE, dated, Hmac("webhook", status, at, dated), "never", status, at))

\* A new callback whose bytes come slowly, or not all of them.
SlowPosts ==
    \E stalls \in {"request", "headers", "body", "drips"} :
        Post(Request(TRUE, TRUE, TRUE, Hmac("webhook", "settled", minute, TRUE), stalls, "settled",
                     minute))

OtherPosts ==
    \E path, json \in BOOLEAN : Post(Request(path, json, FALSE, <<>>, "never", "settled", 0))

TimePasses ==
    /\ minute < LastMinute
    /\ minute' = minute + 1
    /\ UNCHANGED <<order, secret, backlog, reading, posts, acts>>

\* The next pass takes the order and the rail asks for action again.
WaitsAgain ==
    /\ order.status = "NOT_STARTED"
    /\ order.waits < MaxWaits
    /\ order' = [status |-> "REQUIRES_ACTION", waits |-> order.waits + 1, since |-> minute]
    /\ UNCHANGED <<minute, secret, backlog, reading, posts, acts>>

(***************************************************************************)
(* The receiver.                                                           *)
(***************************************************************************)
Accept_ ==
    /\ reading.stage = "idle"
    /\ backlog # <<>>
    /\ reading' = Head(backlog)
    /\ backlog' = Tail(backlog)
    /\ UNCHANGED <<order, minute, secret, posts, acts>>

Answered == reading' = Idle

\* set_read_timeout: ten seconds without a byte end the connection with an error that
\* is only logged.  The deadline is for one read: a peer that keeps sending is read
\* for as long as it does, and neither the request line nor the header lines are
\* limited.  `lines` counts them modulo two.
ReadTimeout(at) == reading.stalls \in {at, "drips"}
ReadOn == reading.stalls = "drips" /\ reading' = [reading EXCEPT !.lines = 1 - @]

ReadRequestLine ==
    /\ reading.stage = "request"
    /\ \/ /\ reading.stalls # "request"
          /\ IF reading.path THEN reading' = [reading EXCEPT !.stage = "headers"] ELSE Answered
       \/ ReadOn
       \/ ReadTimeout("request") /\ Answered
    /\ UNCHANGED <<order, minute, secret, backlog, posts, acts>>

ReadHeaders ==
    /\ reading.stage = "headers"
    /\ \/ reading.stalls # "headers" /\ reading' = [reading EXCEPT !.stage = "body"]
       \/ ReadOn
       \/ ReadTimeout("headers") /\ Answered
    /\ UNCHANGED <<order, minute, secret, backlog, posts, acts>>

\* The body has the length the headers gave.  One that does not parse ends the
\* connection without an answer.
ReadBody ==
    /\ reading.stage = "body"
    /\ \/ /\ reading.stalls # "body"
          /\ IF reading.json THEN reading' = [reading EXCEPT !.stage = "check"] ELSE Answered
       \/ ReadTimeout("body") /\ Answered
    /\ UNCHANGED <<order, minute, secret, backlog, posts, acts>>

Abs(n) == IF n < 0 THEN -n ELSE n

\* Without a secret nothing is compared.
SignatureOk(r) == secret => r.signature = Hmac("webhook", r.status, r.sentAt, r.dated)

\* A timestamp that is no RFC 3339 date is not compared either.
Timely(r) == r.dated => Abs(minute - r.sentAt) <= Tolerance

\* What a callback makes of a waiting order; any other word is an error.
Resolved(r) ==
    CASE r.status = "settled" -> "NOT_STARTED"
      [] r.status = "failed" -> "FAILED"
      [] OTHER -> order.status

\* Mutant: the order's status is not looked at.
ProcessAnyStatus(r) == Resolved(r)

\* process_callback: only an order that waits is touched.
Process(r) == IF order.status = "REQUIRES_ACTION" THEN Resolved(r) ELSE order.status

Handle ==
    /\ reading.stage = "check"
    /\ IF SignatureOk(reading) /\ Timely(reading)
       THEN /\ order' = [order EXCEPT !.status = Process(reading)]
            /\ acts' = IF order' # order
                       THEN acts \cup {[resolved |-> order.waits, began |-> order.since,
                                        sentAt |-> reading.sentAt, dated |-> reading.dated,
                                        status |-> reading.status]}
                       ELSE acts
       ELSE UNCHANGED <<order, acts>>
    /\ Answered
    /\ UNCHANGED <<minute, secret, backlog, posts>>

Serve_ == Accept_ \/ ReadRequestLine \/ ReadHeaders \/ ReadBody \/ Handle

RecvNext == PspPosts \/ SlowPosts \/ OtherPosts \/ TimePasses \/ WaitsAgain \/ Serve_

RecvSpec == RecvInit /\ [][RecvNext]_recvVars

RecvFairness == WF_recvVars(Serve_)

(***************************************************************************)
(* Properties.                                                             *)
(***************************************************************************)
\* Every wait of the order is resolved by at most one callback: repeats, and a
\* "failed" that comes after a "settled", find the order elsewhere (process_callback).
EachWaitResolvedOnce ==
    \A a, b \in acts : a.resolved = b.resolved => a = b

\* A dated callback resolves no wait that began after its window: however often it is
\* sent again and however often the order waits again, an old one does nothing.  One
\* repeated within the window does resolve the next wait too, for nothing ties a
\* callback to the attempt it answers (handle_connection's freshness check).
RepeatsRunOut ==
    \A a \in acts : a.dated => a.began - a.sentAt <= Tolerance

\* A wait of the order counts one callback, and none from before its time but what the
\* tolerance admits.
WaitsResolveOnce == EachWaitResolvedOnce /\ RepeatsRunOut

\* A connection keeps the receiver from the next one for good only if its peer sends
\* the lines of one request for ever: silence is ended by the read deadline, every
\* other request by its end, and the loop accepts again (listen, handle_connection).
ConnectionsEnd == []<>(reading.stage = "idle") \/ <>[](reading.stalls = "drips")
=============================================================================
