------------------------------- MODULE Session -------------------------------
(***************************************************************************)
(* How an authenticated pipe comes about. An endpoint dials a peer with    *)
(* bounded retries (session.rs connect_at), or a client a relay once       *)
(* (client.rs connect); the two ends run the three messages of the Noise   *)
(* IK handshake (origin-channel handshake.rs), then the AUTH claim of the  *)
(* initiator, bound to the transcript, is verified against the record the  *)
(* responder has of that identity (identity.rs), and answered.             *)
(*                                                                         *)
(* Keys are symbols: <<"I", 0>> and <<"R", 0>> are the transport keys of   *)
(* the devices that talk, <<"I", 1>> and <<"R", 1>> those of another       *)
(* device of the same identity, which a record may hold instead. A         *)
(* Diffie-Hellman result is the set of the two keys it is made from.       *)
(***************************************************************************)
EXTENDS Integers, Sequences, FiniteSets

CONSTANTS
    MaxDialAttempts,    \* MAX_ATTEMPTS of connect_at
    MaxConnections      \* bound on calls to connect

VARIABLES
    setup,      \* whom the initiator dials, with which records
    dial,       \* the connect call: its phase and attempts
    ini, res,   \* the two ends of the current connection
    toRes, toIni,   \* frames in flight
    severed,    \* the connection is broken
    conns,      \* connections so far
    ephs        \* ephemeral keys generated so far

sessionVars == <<setup, dial, ini, res, toRes, toIni, severed, conns, ephs>>

NoEnd == [at |-> "none", eph |-> <<>>, peerEph |-> <<>>, peerStatic |-> <<>>, msgs |-> <<>>,
          secret |-> <<>>, peer |-> "none"]

SessionInit ==
    /\ setup = [mode |-> "none", view |-> <<>>, record |-> <<>>, evicted |-> FALSE]
    /\ dial = [at |-> "idle", attempt |-> 0]
    /\ ini = NoEnd /\ res = NoEnd /\ toRes = <<>> /\ toIni = <<>>
    /\ severed = FALSE /\ conns = 0 /\ ephs = 0

\* The records in use: the transport key the initiator has for the responder,
\* and the one the responder's resolver has for the initiator, if any.
Configure ==
    /\ setup.mode = "none"
    /\ \E mode \in {"peer", "relay"}, view \in {<<"R", 0>>, <<"R", 1>>}, record \in {<<>>, <<"I", 0>>, <<"I", 1>>} :
          \E evicted \in IF mode = "relay" THEN BOOLEAN ELSE {FALSE} :
              setup' = [mode |-> mode, view |-> view, record |-> record, evicted |-> evicted]
    /\ UNCHANGED <<dial, ini, res, toRes, toIni, severed, conns, ephs>>

(***************************************************************************)
(* Dialing.                                                                *)
(***************************************************************************)
StartDial ==
    /\ setup.mode # "none" /\ dial.at = "idle" /\ conns < MaxConnections
    /\ dial' = [at |-> "dialing", attempt |-> 0]
    /\ conns' = conns + 1
    /\ ini' = NoEnd /\ res' = NoEnd /\ toRes' = <<>> /\ toIni' = <<>> /\ severed' = FALSE
    /\ UNCHANGED <<setup, ephs>>

Dialed ==
    /\ dial.at = "dialing"
    /\ dial' = [dial EXCEPT !.at = "driving"]
    /\ ini' = [NoEnd EXCEPT !.at = "start"] /\ res' = [NoEnd EXCEPT !.at = "msg1"]
    /\ UNCHANGED <<setup, toRes, toIni, severed, conns, ephs>>

\* A transport error or a timeout: up to the last attempt the endpoint tries
\* again after a pause; a client's connect gives up at once.
DialFails ==
    /\ dial.at = "dialing"
    /\ dial' = IF setup.mode = "peer" /\ dial.attempt + 1 < MaxDialAttempts
               THEN [dial EXCEPT !.attempt = @ + 1]
               ELSE [dial EXCEPT !.at = "idle"]
    /\ UNCHANGED <<setup, ini, res, toRes, toIni, severed, conns, ephs>>

(***************************************************************************)
(* The handshake.                                                          *)
(***************************************************************************)
StaticOf(side) == IF side = "ini" THEN <<"I", 0>> ELSE <<"R", 0>>

\* finalize: four Diffie-Hellman results and the transcript of ephemeral keys.
Secret(side, e, eph, static) ==
    LET own == StaticOf(side)
        es == IF side = "ini" THEN {e, static} ELSE {own, eph}
        se == IF side = "ini" THEN {own, eph} ELSE {e, static}
    IN  <<{e, eph}, es, se, {own, static}, {e, eph}>>

Msg(n, eph, static) == [type |-> n, eph |-> eph, static |-> static]
Ephemeral(n) == <<"e", n>>

\* Handshake::start, process_msg1, process_msg2 and process_msg3: what each
\* does to the end that runs it. The static keys ride in the payloads.
Started(e, m1) ==
    [e EXCEPT !.at = "msg2", !.eph = m1.eph, !.msgs = <<m1>>, !.peerStatic = setup.view]
AfterMsg1(e, m1, m2) ==
    [e EXCEPT !.at = "msg3", !.eph = m2.eph, !.peerEph = m1.eph,
              !.peerStatic = m1.static, !.msgs = <<m1, m2>>]
AfterMsg2(e, m2, m3) ==
    [e EXCEPT !.at = "auth", !.peerEph = m2.eph, !.msgs = @ \o <<m2, m3>>,
              !.secret = Secret("ini", e.eph, m2.eph, e.peerStatic)]
AfterMsg3(e, m3) ==
    [e EXCEPT !.at = "claim", !.msgs = Append(@, m3),
              !.secret = Secret("res", e.eph, e.peerEph, e.peerStatic)]

SendMsg1 ==
    /\ ini.at = "start"
    /\ LET m1 == Msg(1, Ephemeral(ephs + 1), <<"I", 0>>)
       IN  ini' = Started(ini, m1) /\ toRes' = Append(toRes, m1)
    /\ ephs' = ephs + 1
    /\ UNCHANGED <<setup, dial, res, toIni, severed, conns>>

AnswerMsg1 ==
    /\ res.at = "msg1" /\ toRes # <<>>
    /\ LET m2 == Msg(2, Ephemeral(ephs + 1), <<"R", 0>>)
       IN  res' = AfterMsg1(res, Head(toRes), m2) /\ toIni' = Append(toIni, m2)
    /\ toRes' = Tail(toRes) /\ ephs' = ephs + 1
    /\ UNCHANGED <<setup, dial, ini, severed, conns>>

\* sign_auth_claim: the claim names the peer dialed and covers the transcript.
AuthClaim(msgs) == [type |-> 4, pk |-> <<"I", 0>>, peer |-> "R", transcript |-> msgs]

\* Mutant of AnswerMsg2: the initiator does not wait for the answer.
AnswerMsg2Eager ==
    /\ ini.at = "msg2" /\ toIni # <<>>
    /\ LET m3 == Msg(3, <<>>, <<>>)
           done == AfterMsg2(ini, Head(toIni), m3)
       IN  /\ ini' = [done EXCEPT !.at = "pipe", !.peer = "R"]
           /\ toRes' = toRes \o <<m3, AuthClaim(done.msgs)>>
    /\ toIni' = Tail(toIni) /\ dial' = [dial EXCEPT !.at = "idle"]
    /\ UNCHANGED <<setup, res, severed, conns, ephs>>

\* msg3 and the claim are sent together.
AnswerMsg2 ==
    /\ ini.at = "msg2" /\ toIni # <<>>
    /\ LET m3 == Msg(3, <<>>, <<>>)
           done == AfterMsg2(ini, Head(toIni), m3)
       IN  ini' = done /\ toRes' = toRes \o <<m3, AuthClaim(done.msgs)>>
    /\ toIni' = Tail(toIni)
    /\ UNCHANGED <<setup, dial, res, severed, conns, ephs>>

TakeMsg3 ==
    /\ res.at = "msg3" /\ toRes # <<>>
    /\ res' = AfterMsg3(res, Head(toRes))
    /\ toRes' = Tail(toRes)
    /\ UNCHANGED <<setup, dial, ini, toIni, severed, conns, ephs>>

(***************************************************************************)
(* Authentication.                                                         *)
(***************************************************************************)

\* verify_auth_claim: the signature covers this peer and this transcript.
Verified(claim) == claim.peer = "R" /\ claim.transcript = res.msgs

\* An endpoint: the resolver knows the identity, and its record has the
\* claimed transport key.
PeerAccepts(claim) ==
    setup.record # <<>> /\ claim.pk = setup.record /\ Verified(claim)

\* The relay also refuses an identity it has evicted.
RelayAccepts(claim) ==
    /\ setup.record # <<>> /\ claim.pk = setup.record
    /\ ~ setup.evicted
    /\ Verified(claim)

ClaimAccepted(claim) == IF setup.mode = "relay" THEN RelayAccepts(claim) ELSE PeerAccepts(claim)

\* AuthOk and the pipe, or AuthReject and an error.
CheckClaim ==
    /\ res.at = "claim" /\ toRes # <<>>
    /\ IF ClaimAccepted(Head(toRes))
       THEN /\ toIni' = Append(toIni, [type |-> 5])
            /\ res' = [res EXCEPT !.at = "pipe", !.peer = "I"]
       ELSE /\ toIni' = Append(toIni, [type |-> 6])
            /\ res' = [res EXCEPT !.at = "failed"]
    /\ toRes' = Tail(toRes)
    /\ UNCHANGED <<setup, dial, ini, severed, conns, ephs>>

ExpectAuthOk ==
    /\ ini.at = "auth" /\ toIni # <<>>
    /\ ini' = IF Head(toIni).type = 5
              THEN [ini EXCEPT !.at = "pipe", !.peer = "R"]
              ELSE [ini EXCEPT !.at = "failed"]
    /\ toIni' = Tail(toIni)
    /\ dial' = [dial EXCEPT !.at = "idle"]
    /\ UNCHANGED <<setup, res, toRes, severed, conns, ephs>>

\* The connection breaks; frames in flight may still arrive, or not.
Sever ==
    /\ dial.at = "driving" /\ ~ severed
    /\ severed' = TRUE
    /\ toRes' \in {toRes, <<>>} /\ toIni' \in {toIni, <<>>}
    /\ UNCHANGED <<setup, dial, ini, res, conns, ephs>>

Expecting(end) == end.at \in {"msg1", "msg2", "msg3", "claim", "auth"}

\* A read fails: the connection is broken, or the read deadline has passed.
\* The end that fails drops the connection.
IniReadFails ==
    /\ Expecting(ini) /\ toIni = <<>>
    /\ ini' = [ini EXCEPT !.at = "failed"]
    /\ dial' = [dial EXCEPT !.at = "idle"]
    /\ severed' = TRUE
    /\ UNCHANGED <<setup, res, toRes, toIni, conns, ephs>>

ResReadFails ==
    /\ Expecting(res) /\ toRes = <<>>
    /\ res' = [res EXCEPT !.at = "failed"]
    /\ severed' = TRUE
    /\ UNCHANGED <<setup, dial, ini, toRes, toIni, conns, ephs>>

SessionNext ==
    \/ Configure \/ StartDial \/ Dialed \/ DialFails
    \/ SendMsg1 \/ AnswerMsg1 \/ AnswerMsg2 \/ TakeMsg3
    \/ CheckClaim \/ ExpectAuthOk
    \/ Sever \/ IniReadFails \/ ResReadFails

SessionSpec == SessionInit /\ [][SessionNext]_sessionVars

\* Every await has a deadline or a peer that is polled: once a call to connect
\* has started, its next step is taken.
SessionStep ==
    \/ Dialed \/ DialFails \/ SendMsg1 \/ AnswerMsg1 \/ AnswerMsg2
    \/ TakeMsg3 \/ CheckClaim \/ ExpectAuthOk \/ IniReadFails \/ ResReadFails

(***************************************************************************)
(* Properties.                                                             *)
(***************************************************************************)

\* An initiator that has its pipe has it with a responder that accepted its
\* claim in the same handshake. The secrets are the same exactly when the
\* initiator's record was for the device that answered: nothing in the
\* exchange confirms the key, so a pipe dialed with another device's record
\* opens and cannot be used (session.rs:318-329).
PipesAgree ==
    ini.at = "pipe" =>
        /\ res.at = "pipe"
        /\ ini.msgs = res.msgs
        /\ ini.secret = res.secret <=> setup.view = <<"R", 0>>

\* A call to connect ends: the attempts are bounded and every read that can
\* wait for ever has a deadline.
ConnectEnds == []<>(dial.at = "idle")
=============================================================================
