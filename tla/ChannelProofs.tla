--------------------------- MODULE ChannelProofs ----------------------------
(***************************************************************************)
(* Proofs about a session, for every carrier and rotation policy and any   *)
(* number of messages and epochs: the two ends of a handshake agree on     *)
(* the pipe they made of it, message keys are never used twice, and what   *)
(* an end opens is what the other end sent, in order and once.             *)
(***************************************************************************)
EXTENDS Channel, Session, TLAPS

-----------------------------------------------------------------------------
(* The handshake. *)

\* What an end of a handshake keeps.
EndFields == {"at", "eph", "peerEph", "peerStatic", "msgs", "secret", "peer"}

\* The three messages of a handshake between the ephemeral keys e and f.
Transcript(e, f) == <<Msg(1, e, <<"I", 0>>), Msg(2, f, <<"R", 0>>), Msg(3, <<>>, <<>>)>>

\* The records of the two ends, and the keys they hold by the message they expect.
IniInv ==
    /\ DOMAIN ini = EndFields
    /\ ini.at \in {"none", "start", "msg2", "auth", "pipe", "failed"}
    /\ ini.at = "msg2" => ini.msgs = <<Msg(1, ini.eph, <<"I", 0>>)>> /\ ini.peerStatic = setup.view
    /\ ini.at \in {"auth", "pipe"} =>
         /\ ini.msgs = Transcript(ini.eph, ini.peerEph)
         /\ ini.secret = Secret("ini", ini.eph, ini.peerEph, setup.view)

\* The same of the responder.
ResInv ==
    /\ DOMAIN res = EndFields
    /\ res.at \in {"none", "msg1", "msg3", "claim", "pipe", "failed"}
    /\ res.at = "msg3" => /\ res.msgs = <<Msg(1, res.peerEph, <<"I", 0>>), Msg(2, res.eph, <<"R", 0>>)>>
                          /\ res.peerStatic = <<"I", 0>>
    /\ res.at \in {"claim", "pipe"} =>
         /\ res.msgs = Transcript(res.peerEph, res.eph)
         /\ res.secret = Secret("res", res.eph, res.peerEph, <<"I", 0>>)

\* The two ends are in one handshake: the keys each has of the other are the other's.
LinkInv ==
    /\ ini.at = "none" => res.at = "none"
    /\ ini.at = "start" => res.at \in {"msg1", "failed"}
    /\ res.at \in {"msg3", "claim", "pipe"} => res.peerEph = ini.eph
    /\ ini.at \in {"auth", "pipe"} => res.at \notin {"none", "msg1"} /\ ini.peerEph = res.eph
    /\ ini.at = "pipe" => res.at = "pipe"

\* What can be in flight, by where the two ends are.
ToResInv ==
    \/ toRes = <<>>
    \/ /\ toRes = <<Msg(1, ini.eph, <<"I", 0>>)>>
       /\ ini.at \in {"msg2", "failed"} /\ res.at \in {"msg1", "failed"}
    \/ /\ toRes = <<Msg(3, <<>>, <<>>), AuthClaim(ini.msgs)>>
       /\ ini.at \in {"auth", "failed"} /\ res.at \in {"msg3", "failed"}
    \/ /\ toRes = <<AuthClaim(ini.msgs)>>
       /\ ini.at \in {"auth", "failed"} /\ res.at \in {"claim", "failed"}

\* The same of what is on its way to the initiator.
ToIniInv ==
    \/ toIni = <<>>
    \/ /\ toIni = <<Msg(2, res.eph, <<"R", 0>>)>> /\ toRes = <<>>
       /\ ini.at \in {"msg2", "failed"} /\ res.at \in {"msg3", "failed"}
    \/ toIni = <<[type |-> 5]>> /\ ini.at \in {"auth", "failed"} /\ res.at = "pipe"
    \/ toIni = <<[type |-> 6]>> /\ ini.at \in {"auth", "failed"} /\ res.at = "failed"

\* Nothing runs before the records are known, and a call that dials has no
\* connection yet.
DialInv ==
    /\ DOMAIN setup = {"mode", "view", "record", "evicted"} /\ DOMAIN dial = {"at", "attempt"}
    /\ setup.mode = "none" => dial.at = "idle" /\ ini.at = "none" /\ res.at = "none"
    /\ setup.mode # "none" => setup.view \in {<<"R", 0>>, <<"R", 1>>}
    /\ dial.at = "dialing" => ini.at = "none" /\ res.at = "none" /\ toRes = <<>> /\ toIni = <<>>

\* The inductive invariant of a handshake.
SessionInv == IniInv /\ ResInv /\ LinkInv /\ ToResInv /\ ToIniInv /\ DialInv

\* Sequences of the same elements in the same places are the same.
LEMMA SameSequence ==
    ASSUME NEW S, NEW s \in Seq(S), NEW t \in Seq(S), Len(s) = Len(t),
           \A i \in 1..Len(s) : s[i] = t[i]
    PROVE  s = t
  OBVIOUS

\* The transcript, as the initiator puts it together.
LEMMA ThreeJoined == ASSUME NEW a, NEW b, NEW c PROVE  <<a>> \o <<b, c>> = <<a,b,c>>
<1> DEFINE S == {a, b, c}
           s == <<a>> \o <<b, c>>
           t == <<a, b, c>>
<1>1. <<a>> \in Seq(S) /\ <<b, c>> \in Seq(S) /\ t \in Seq(S) /\ Len(t) = 3
  OBVIOUS
<1>2. s \in Seq(S) /\ Len(s) = 3
  BY <1>1
<1>3. \A i \in 1..3 : s[i] = t[i]
  BY <1>1
<1> HIDE DEF S, s, t
<1>4. s = t
  BY <1>1, <1>2, <1>3, SameSequence
<1> QED
  BY <1>4 DEF s, t

\* The transcript, as the responder puts it together.
LEMMA ThreeAppended == ASSUME NEW a, NEW b, NEW c PROVE Append(<<a, b>>, c) = <<a,b,c>>
<1> DEFINE S == {a, b, c}
           s == Append(<<a, b>>, c)
           t == <<a, b, c>>
<1>1. <<a, b>> \in Seq(S) /\ t \in Seq(S) /\ Len(t) = 3
  OBVIOUS
<1>2. s \in Seq(S) /\ Len(s) = 3
  BY <1>1
<1>3. \A i \in 1..3 : s[i] = t[i]
  BY <1>1
<1> HIDE DEF S, s, t
<1>4. s = t
  BY <1>1, <1>2, <1>3, SameSequence
<1> QED
  BY <1>4 DEF s, t

\* Before and while it dials.
LEMMA DialKeeps ==
    ASSUME SessionInv, Configure \/ StartDial \/ Dialed \/ DialFails
    PROVE  SessionInv'
<1> USE DEF SessionInv, NoEnd, EndFields
<1>1. CASE Configure
  <2>1. IniInv' /\ ResInv' /\ LinkInv'
    BY <1>1 DEF Configure, IniInv, ResInv, LinkInv, DialInv
  <2>2. ToResInv' /\ ToIniInv'
    BY <1>1 DEF Configure, ToResInv, ToIniInv
  <2>3. DialInv'
    BY <1>1 DEF Configure, DialInv
  <2> QED
    BY <2>1, <2>2, <2>3
<1>2. CASE StartDial
  <2>1. IniInv' /\ ResInv' /\ LinkInv'
    BY <1>2 DEF StartDial, IniInv, ResInv, LinkInv
  <2>2. ToResInv' /\ ToIniInv' /\ DialInv'
    BY <1>2 DEF StartDial, ToResInv, ToIniInv, DialInv
  <2> QED
    BY <2>1, <2>2
<1>3. CASE Dialed
  <2>1. IniInv' /\ ResInv' /\ LinkInv'
    BY <1>3 DEF Dialed, IniInv, ResInv, LinkInv
  <2>2. ToResInv' /\ ToIniInv' /\ DialInv'
    BY <1>3 DEF Dialed, ToResInv, ToIniInv, DialInv
  <2> QED
    BY <2>1, <2>2
<1>4. CASE DialFails
  <2>1. IniInv' /\ ResInv' /\ LinkInv' /\ ToResInv' /\ ToIniInv'
    BY <1>4 DEF DialFails, IniInv, ResInv, LinkInv, ToResInv, ToIniInv
  <2>2. DialInv'
    BY <1>4 DEF DialFails, DialInv
  <2> QED
    BY <2>1, <2>2
<1> QED
  BY <1>1, <1>2, <1>3, <1>4

\* The initiator sends its key.
LEMMA SendMsg1Keeps ==
    ASSUME SessionInv, SendMsg1
    PROVE  SessionInv'
<1> DEFINE m1 == Msg(1, Ephemeral(ephs + 1), <<"I", 0>>)
<1>1. /\ DOMAIN ini' = EndFields
      /\ ini'.at = "msg2" /\ ini'.eph = m1.eph /\ ini'.msgs = <<m1>> /\ ini'.peerStatic = setup.view
      /\ UNCHANGED <<setup, dial, res, toIni>>
  BY DEF SendMsg1, Started, SessionInv, IniInv, EndFields
<1>2. m1 = Msg(1, ini'.eph, <<"I", 0>>)
  BY <1>1 DEF Msg
<1>3. toRes = <<>> /\ toIni = <<>> /\ res.at \in {"msg1", "failed"}
  BY DEF SendMsg1, SessionInv, ToResInv, ToIniInv, LinkInv
<1>4. toRes' = <<m1>>
  BY <1>3 DEF SendMsg1
<1> HIDE DEF m1
<1>5. IniInv' /\ ResInv'
  BY <1>1, <1>2 DEF SessionInv, IniInv, ResInv
<1>6. LinkInv' /\ ToIniInv'
  BY <1>1, <1>3 DEF LinkInv, ToIniInv
<1>7. ToResInv'
  BY <1>1, <1>2, <1>3, <1>4 DEF ToResInv
<1>8. DialInv'
  BY <1>1, <1>3 DEF SendMsg1, SessionInv, DialInv
<1> QED
  BY <1>5, <1>6, <1>7, <1>8 DEF SessionInv

\* The responder takes that key and sends its own.
LEMMA AnswerMsg1Keeps ==
    ASSUME SessionInv, AnswerMsg1
    PROVE  SessionInv'
<1> DEFINE m1 == Msg(1, ini.eph, <<"I", 0>>)
           m2 == Msg(2, Ephemeral(ephs + 1), <<"R", 0>>)
<1>1. toRes = <<m1>> /\ toIni = <<>> /\ ini.at \in {"msg2", "failed"}
  BY DEF AnswerMsg1, SessionInv, ToResInv, ToIniInv
<1>2. Head(toRes) = m1 /\ toRes' = <<>> /\ toIni' = <<m2>>
  BY <1>1 DEF AnswerMsg1
<1>3. /\ DOMAIN res' = EndFields
      /\ res'.at = "msg3" /\ res'.eph = m2.eph /\ res'.peerEph = m1.eph
      /\ res'.peerStatic = m1.static /\ res'.msgs = <<m1, m2>>
      /\ UNCHANGED <<setup, dial, ini>>
  BY <1>2 DEF AnswerMsg1, AfterMsg1, SessionInv, ResInv, EndFields
<1>4. /\ m1.static = <<"I", 0>> /\ m1.eph = ini.eph
      /\ m1 = Msg(1, res'.peerEph, <<"I", 0>>) /\ m2 = Msg(2, res'.eph, <<"R", 0>>)
  BY <1>3 DEF Msg
<1> HIDE DEF m1, m2
<1>5. IniInv' /\ ResInv'
  BY <1>3, <1>4, Zenon DEF SessionInv, IniInv, ResInv
<1>6. LinkInv'
  BY <1>1, <1>3, <1>4 DEF LinkInv
<1>7. ToResInv' /\ ToIniInv'
  BY <1>1, <1>2, <1>3, <1>4 DEF ToResInv, ToIniInv
<1>8. DialInv'
  BY <1>1, <1>3 DEF SessionInv, DialInv
<1> QED
  BY <1>5, <1>6, <1>7, <1>8 DEF SessionInv

\* The initiator has all it needs for the secret, and sends the claim.
LEMMA AnswerMsg2Keeps ==
    ASSUME SessionInv, AnswerMsg2
    PROVE  SessionInv'
<1> DEFINE m1 == Msg(1, ini.eph, <<"I", 0>>)
           m2 == Msg(2, res.eph, <<"R", 0>>)
           m3 == Msg(3, <<>>, <<>>)
<1>1. /\ toIni = <<m2>> /\ toRes = <<>> /\ res.at \in {"msg3", "failed"}
      /\ ini.msgs = <<m1>> /\ ini.peerStatic = setup.view
  BY DEF AnswerMsg2, SessionInv, ToIniInv, IniInv
<1>2. Head(toIni) = m2 /\ toIni' = <<>> /\ m2.eph = res.eph
  BY <1>1 DEF AnswerMsg2, Msg
<1>3. ini' = AfterMsg2(ini, m2, m3) /\ toRes' = toRes \o <<m3, AuthClaim(ini'.msgs)>>
  BY <1>2 DEF AnswerMsg2
<1>4. /\ DOMAIN ini' = EndFields
      /\ ini'.at = "auth" /\ ini'.eph = ini.eph /\ ini'.peerEph = m2.eph
      /\ ini'.msgs = ini.msgs \o <<m2, m3>>
      /\ ini'.secret = Secret("ini", ini.eph, m2.eph, ini.peerStatic)
      /\ UNCHANGED <<setup, dial, res>>
  BY <1>3, Zenon DEF AnswerMsg2, AfterMsg2, SessionInv, IniInv, EndFields
<1>5. toRes' = <<m3, AuthClaim(ini'.msgs)>>
  BY <1>1, <1>3
<1>6. ini'.msgs = <<m1, m2, m3>>
  BY <1>1, <1>4, ThreeJoined
<1>7. ini'.msgs = Transcript(ini'.eph, ini'.peerEph)
  BY <1>2, <1>4, <1>6, Zenon DEF Transcript
<1> HIDE DEF m1, m2
<1>8. IniInv' /\ ResInv'
  BY <1>1, <1>2, <1>4, <1>7, Zenon DEF SessionInv, IniInv, ResInv
<1>9. LinkInv'
  BY <1>1, <1>2, <1>4 DEF SessionInv, LinkInv
<1>10. ToResInv' /\ ToIniInv'
  BY <1>1, <1>2, <1>4, <1>5 DEF ToResInv, ToIniInv
<1>11. DialInv'
  BY <1>1, <1>4 DEF SessionInv, DialInv
<1> QED
  BY <1>8, <1>9, <1>10, <1>11 DEF SessionInv

\* The responder has the secret too.
LEMMA TakeMsg3Keeps ==
    ASSUME SessionInv, TakeMsg3
    PROVE  SessionInv'
<1> DEFINE m1 == Msg(1, res.peerEph, <<"I", 0>>)
           m2 == Msg(2, res.eph, <<"R", 0>>)
           m3 == Msg(3, <<>>, <<>>)
           claim == AuthClaim(ini.msgs)
<1>1. /\ toRes = <<m3, claim>> /\ toIni = <<>> /\ ini.at \in {"auth", "failed"}
      /\ res.msgs = <<m1, m2>> /\ res.peerStatic = <<"I", 0>>
  BY DEF TakeMsg3, SessionInv, ToResInv, ToIniInv, ResInv
<1> HIDE DEF claim, m3
<1>2. Head(toRes) = m3 /\ toRes' = <<claim>> /\ toIni' = <<>>
  BY <1>1 DEF TakeMsg3
<1>3. /\ DOMAIN res' = EndFields
      /\ res'.at = "claim" /\ res'.eph = res.eph /\ res'.peerEph = res.peerEph
      /\ res'.msgs = Append(res.msgs, m3)
      /\ res'.secret = Secret("res", res.eph, res.peerEph, <<"I", 0>>)
      /\ UNCHANGED <<setup, dial, ini>>
  BY <1>1, <1>2 DEF TakeMsg3, AfterMsg3, SessionInv, ResInv, EndFields
<1>4. res'.msgs = Transcript(res'.peerEph, res'.eph)
  BY <1>1, <1>3, ThreeAppended DEF Transcript, m3
<1>5. IniInv' /\ ResInv'
  BY <1>3, <1>4 DEF SessionInv, IniInv, ResInv
<1>6. LinkInv'
  BY <1>1, <1>3 DEF TakeMsg3, SessionInv, LinkInv
<1>7. ToResInv' /\ ToIniInv'
  BY <1>1, <1>2, <1>3 DEF ToResInv, ToIniInv, claim
<1>8. DialInv'
  BY <1>1, <1>3 DEF SessionInv, DialInv
<1> QED
  BY <1>5, <1>6, <1>7, <1>8 DEF SessionInv

\* A responder opens its pipe before it says so.
LEMMA CheckClaimKeeps ==
    ASSUME SessionInv, CheckClaim
    PROVE  SessionInv'
<1>1. toIni = <<>> /\ ini.at \in {"auth", "failed"} /\ toRes = <<AuthClaim(ini.msgs)>>
  BY DEF CheckClaim, SessionInv, ToResInv, ToIniInv
<1>2. toRes' = <<>> /\ UNCHANGED <<setup, dial, ini>>
  BY <1>1 DEF CheckClaim
<1>3. \/ toIni' = <<[type |-> 5]>> /\ res'.at = "pipe"
      \/ toIni' = <<[type |-> 6]>> /\ res'.at = "failed"
  <2>1. Append(<<>>, [type |-> 5]) = <<[type |-> 5]>> /\ Append(<<>>, [type |-> 6]) = <<[type |-> 6]>>
    OBVIOUS
  <2>2. \/ toIni' = Append(toIni, [type |-> 5]) /\ res' = [res EXCEPT !.at = "pipe", !.peer = "I"]
        \/ toIni' = Append(toIni, [type |-> 6]) /\ res' = [res EXCEPT !.at = "failed"]
    BY DEF CheckClaim
  <2>3. DOMAIN res = EndFields
    BY DEF SessionInv, ResInv
  <2> QED
    BY <1>1, <2>1, <2>2, <2>3, Zenon DEF EndFields
<1>4. /\ DOMAIN res' = EndFields /\ res'.eph = res.eph /\ res'.peerEph = res.peerEph
      /\ res'.msgs = res.msgs /\ res'.secret = res.secret
  BY Zenon DEF CheckClaim, SessionInv, ResInv, EndFields
<1>5. IniInv' /\ ResInv'
  <2>1. res.at = "claim"
    BY DEF CheckClaim
  <2> QED
    BY <1>2, <1>3, <1>4, <2>1 DEF SessionInv, IniInv, ResInv
<1>6. LinkInv'
  BY <1>1, <1>2, <1>3, <1>4 DEF CheckClaim, SessionInv, LinkInv
<1>7. ToResInv' /\ ToIniInv'
  BY <1>1, <1>2, <1>3 DEF ToResInv, ToIniInv
<1>8. DialInv'
  BY <1>1, <1>2 DEF SessionInv, DialInv
<1> QED
  BY <1>5, <1>6, <1>7, <1>8 DEF SessionInv

\* An initiator that reads AuthOk finds the responder's pipe open.
LEMMA ExpectAuthOkKeeps ==
    ASSUME SessionInv, ExpectAuthOk
    PROVE  SessionInv'
<1>1. \/ toIni = <<[type |-> 5]>> /\ res.at = "pipe"
      \/ toIni = <<[type |-> 6]>> /\ res.at = "failed"
  BY DEF ExpectAuthOk, SessionInv, ToIniInv
<1>2. toIni' = <<>> /\ UNCHANGED <<setup, res, toRes>>
  <2>1. Tail(<<[type |-> 5]>>) = <<>> /\ Tail(<<[type |-> 6]>>) = <<>>
    OBVIOUS
  <2> QED
    BY <1>1, <2>1, Zenon DEF ExpectAuthOk
<1>3. ini'.at = "failed" \/ (ini'.at = "pipe" /\ res.at = "pipe")
  <2>1. Head(<<[type |-> 6]>>) = [type |-> 6] /\ [type |-> 6].type # 5
    OBVIOUS
  <2>2. Head(toIni).type = 5 => res.at = "pipe"
    BY <1>1, <2>1
  <2>3. DOMAIN ini = EndFields
    BY DEF SessionInv, IniInv
  <2> QED
    BY <2>2, <2>3 DEF ExpectAuthOk, EndFields
<1>4. /\ DOMAIN ini' = EndFields /\ ini'.eph = ini.eph /\ ini'.peerEph = ini.peerEph
      /\ ini'.msgs = ini.msgs /\ ini'.secret = ini.secret
  BY DEF ExpectAuthOk, SessionInv, IniInv, EndFields
<1>5. IniInv' /\ ResInv'
  <2>1. ini.at = "auth"
    BY DEF ExpectAuthOk
  <2> QED
    BY <1>2, <1>3, <1>4, <2>1 DEF SessionInv, IniInv, ResInv
<1>6. LinkInv'
  BY <1>2, <1>3, <1>4 DEF ExpectAuthOk, SessionInv, LinkInv
<1>7. ToResInv' /\ ToIniInv'
  BY <1>1, <1>2, <1>3, <1>4 DEF ExpectAuthOk, SessionInv, ToResInv, ToIniInv
<1>8. DialInv'
  BY <1>2 DEF ExpectAuthOk, SessionInv, DialInv, LinkInv
<1> QED
  BY <1>5, <1>6, <1>7, <1>8 DEF SessionInv

\* A break loses frames and deadlines end reads; an end that fails keeps what it has.
LEMMA BreaksKeep ==
    ASSUME SessionInv, Sever \/ IniReadFails \/ ResReadFails
    PROVE  SessionInv'
<1>1. CASE Sever
  <2>1. IniInv' /\ ResInv' /\ LinkInv'
    BY <1>1 DEF Sever, SessionInv, IniInv, ResInv, LinkInv
  <2>2. ToResInv' /\ ToIniInv'
    BY <1>1 DEF Sever, SessionInv, ToResInv, ToIniInv
  <2>3. DialInv'
    BY <1>1 DEF Sever, SessionInv, DialInv
  <2> QED
    BY <2>1, <2>2, <2>3 DEF SessionInv
<1>2. CASE IniReadFails
  <2>1. /\ DOMAIN ini' = EndFields /\ ini'.at = "failed" /\ ini'.eph = ini.eph
        /\ ini'.msgs = ini.msgs /\ UNCHANGED <<setup, res, toRes, toIni>>
        /\ toIni = <<>> /\ ini.at \in {"msg2", "auth"}
    BY <1>2 DEF IniReadFails, Expecting, SessionInv, IniInv, EndFields
  <2>2. IniInv' /\ ResInv' /\ LinkInv'
    BY <2>1 DEF SessionInv, IniInv, ResInv, LinkInv
  <2>3. ToResInv' /\ ToIniInv'
    BY <2>1 DEF SessionInv, ToResInv, ToIniInv
  <2>4. DialInv'
    BY <1>2, <2>1 DEF IniReadFails, SessionInv, DialInv
  <2> QED
    BY <2>2, <2>3, <2>4 DEF SessionInv
<1>3. CASE ResReadFails
  <2>1. /\ DOMAIN res' = EndFields /\ res'.at = "failed" /\ res'.eph = res.eph
        /\ UNCHANGED <<setup, dial, ini, toRes, toIni>>
        /\ toRes = <<>> /\ res.at \in {"msg1", "msg3", "claim"}
    BY <1>3 DEF ResReadFails, Expecting, SessionInv, ResInv, EndFields
  <2>2. IniInv' /\ ResInv' /\ LinkInv'
    BY <2>1 DEF SessionInv, IniInv, ResInv, LinkInv
  <2>3. ToResInv' /\ ToIniInv'
    BY <2>1 DEF SessionInv, ToResInv, ToIniInv
  <2>4. DialInv'
    BY <2>1 DEF SessionInv, DialInv
  <2> QED
    BY <2>2, <2>3, <2>4 DEF SessionInv
<1> QED
  BY <1>1, <1>2, <1>3

\* Four Diffie-Hellman results and the transcript: what the two ends derive differs
\* exactly when the initiator took another device's key for the responder's.
LEMMA SecretsAgree ==
    ASSUME NEW e, NEW f, NEW view \in {<<"R", 0>>, <<"R", 1>>}
    PROVE  Secret("ini", e, f, view) = Secret("res", f, e, <<"I", 0>>) <=> view = <<"R", 0>>
<1>1. Secret("ini", e, f, view) = <<{e, f}, {e, view}, {<<"I", 0>>, f}, {<<"I", 0>>, view}, {e, f}>>
  BY DEF Secret, StaticOf
<1>2. Secret("res", f, e, <<"I", 0>>)
        = <<{f, e}, {<<"R", 0>>, e}, {f, <<"I", 0>>}, {<<"R", 0>>, <<"I", 0>>}, {f, e}>>
  BY DEF Secret, StaticOf
<1>3. CASE view = <<"R", 0>>
  <2>1. /\ {e, f} = {f, e} /\ {e, view} = {<<"R", 0>>, e}
        /\ {<<"I", 0>>, f} = {f, <<"I", 0>>} /\ {<<"I", 0>>, view} = {<<"R", 0>>, <<"I", 0>>}
    BY <1>3
  <2> QED
    BY <1>1, <1>2, <1>3, <2>1, Zenon
<1>4. CASE view = <<"R", 1>>
  <2>1. view # <<"R", 0>> /\ view # <<"I", 0>>
    BY <1>4
  <2>2. view \in {<<"I", 0>>, view} /\ view \notin {<<"R", 0>>, <<"I", 0>>}
    BY <2>1
  <2>3. {<<"I", 0>>, view} # {<<"R", 0>>, <<"I", 0>>}
    BY <2>2
  <2> QED
    BY <1>1, <1>2, <2>1, <2>3
<1> QED
  BY <1>3, <1>4

\* Through lost frames, broken connections, deadlines at either end and repeated calls to
\* connect: an initiator has its pipe only with a responder that accepted it in the same
\* handshake, and their secrets agree exactly when the initiator dialed the right device.
THEOREM PipesAgreeAlways == SessionSpec => []PipesAgree
<1>1. SessionInit => SessionInv
  BY DEF SessionInit, SessionInv, IniInv, ResInv, LinkInv, ToResInv, ToIniInv, DialInv, NoEnd,
         EndFields
<1>2. SessionInv /\ [SessionNext]_sessionVars => SessionInv'
  <2>1. CASE UNCHANGED sessionVars
    BY <2>1 DEF sessionVars, SessionInv, IniInv, ResInv, LinkInv, ToResInv, ToIniInv, DialInv
  <2> QED
    BY <2>1, DialKeeps, SendMsg1Keeps, AnswerMsg1Keeps, AnswerMsg2Keeps, TakeMsg3Keeps,
       CheckClaimKeeps, ExpectAuthOkKeeps, BreaksKeep DEF SessionNext
<1>3. SessionInv => PipesAgree
  <2> SUFFICES ASSUME SessionInv, ini.at = "pipe"
               PROVE  /\ res.at = "pipe" /\ ini.msgs = res.msgs
                      /\ ini.secret = res.secret <=> setup.view = <<"R", 0>>
    BY DEF PipesAgree
  <2>1. res.at = "pipe" /\ res.peerEph = ini.eph /\ ini.peerEph = res.eph
    BY DEF SessionInv, LinkInv
  <2>2. ini.msgs = res.msgs
    BY <2>1 DEF SessionInv, IniInv, ResInv
  <2>3. /\ ini.secret = Secret("ini", ini.eph, ini.peerEph, setup.view)
        /\ res.secret = Secret("res", ini.peerEph, ini.eph, <<"I", 0>>)
    BY <2>1 DEF SessionInv, IniInv, ResInv
  <2>4. setup.view \in {<<"R", 0>>, <<"R", 1>>}
    BY DEF SessionInv, DialInv
  <2> QED
    BY <2>1, <2>2, <2>3, <2>4, SecretsAgree
<1> QED
  BY <1>1, <1>2, <1>3, PTL DEF SessionSpec

-----------------------------------------------------------------------------
(* The channel. *)

\* Each end's two chains belong to its current root and run on opposite lanes.
KeyShape ==
  \A p \in Peers :
    /\ sendChain[p].epoch = root[p] /\ sendChain[p].lane = SendLane(p)
    /\ recvChain[p].epoch = root[p] /\ recvChain[p].lane = SendLane(Other(p))

\* What an end sealed lies behind its send chain, in the order it was sealed.
SealedBehind ==
  \A p \in Peers :
    /\ \A i \in DOMAIN sealed[p] :
         /\ sealed[p][i].key.lane = SendLane(p)
         /\ Before(sealed[p][i].key, sendChain[p])
    /\ \A i, j \in DOMAIN sealed[p] : i < j => Before(sealed[p][i].key, sealed[p][j].key)

\* The carrier invents nothing.
WireSealed ==
  \A p \in Peers : \A i \in DOMAIN wire[p] :
    \E j \in DOMAIN sealed[Other(p)] : wire[p][i] = sealed[Other(p)][j]

\* What an end opened lies behind its receive chain.
OpenedBehind ==
  \A p \in Peers : \A i \in DOMAIN opened[p] : Before(opened[p][i].key, recvChain[p])

ChannelInv == TypeOK /\ KeyShape /\ SealedBehind /\ WireSealed /\ OpenedBehind /\ OpenedInOrderOnce

-----------------------------------------------------------------------------

\* The two ends are each other's other end.
LEMMA OtherPeer ==
  ASSUME NEW p \in Peers
  PROVE  Other(p) \in Peers /\ Other(p) # p /\ Other(Other(p)) = p
  BY ChannelAssumption DEF Peers, Other

\* Taking a frame off the carrier keeps the others.
LEMMA WithoutKeeps ==
  ASSUME NEW S, NEW s \in Seq(S), NEW i \in DOMAIN s
  PROVE  /\ Without(s, i) \in Seq(S)
         /\ \A k \in DOMAIN Without(s, i) : \E j \in DOMAIN s : Without(s, i)[k] = s[j]
<1>1. /\ Len(s) \in Nat /\ DOMAIN s = 1..Len(s) /\ i \in 1..Len(s)
      /\ \A k \in 1..Len(s) : s[k] \in S
  OBVIOUS
<1>2. \A k \in 1..Len(s) - 1 : k \in 1..Len(s) /\ k + 1 \in 1..Len(s)
  BY <1>1
<1>3. Without(s, i) \in [1..Len(s) - 1 -> S]
  BY <1>1, <1>2, Zenon DEF Without
<1>4. Len(s) - 1 \in Nat
  BY <1>1
<1>5. Without(s, i) \in Seq(S)
  BY <1>3, <1>4
<1>6. DOMAIN Without(s, i) = 1..Len(s) - 1
  BY Zenon DEF Without
<1>7. \A k \in 1..Len(s) - 1 : Without(s, i)[k] = IF k < i THEN s[k] ELSE s[k + 1]
  BY Zenon DEF Without
<1> QED
  BY <1>1, <1>2, <1>5, <1>6, <1>7, Zenon

\* Every recorded message has the type of a message, and its key the type of a chain.
LEMMA SealedTyped ==
  ASSUME TypeOK, NEW p \in Peers
  PROVE  /\ \A i \in DOMAIN sealed[p] : sealed[p][i] \in Messages /\ sealed[p][i].key \in Chains
         /\ \A i \in DOMAIN wire[p] : wire[p][i] \in Messages /\ wire[p][i].key \in Chains
         /\ \A i \in DOMAIN opened[p] : opened[p][i] \in Messages /\ opened[p][i].key \in Chains
<1>1. sealed[p] \in Seq(Messages) /\ wire[p] \in Seq(Messages) /\ opened[p] \in Seq(Messages)
  BY Zenon DEF TypeOK
<1>2. \A m \in Messages : m.key \in Chains
  BY Zenon DEF Messages
<1> QED BY <1>1, <1>2

\* Any frame the carrier drops, delivers or repeats was sealed by the other end.
LEMMA CarrierKeeps ==
  ASSUME TypeOK, WireSealed, NEW p \in Peers, NEW i \in DOMAIN wire[p],
         wire' = [wire EXCEPT ![p] = Without(@, i)], sealed' = sealed
  PROVE  wire' \in [Peers -> Seq(Messages)] /\ WireSealed'
<1>1. wire[p] \in Seq(Messages)
  BY Zenon DEF TypeOK
<1>2. /\ Without(wire[p], i) \in Seq(Messages)
      /\ \A k \in DOMAIN Without(wire[p], i) :
           \E j \in DOMAIN wire[p] : Without(wire[p], i)[k] = wire[p][j]
  BY <1>1, WithoutKeeps, Zenon
<1>3. wire' \in [Peers -> Seq(Messages)]
  BY <1>2, Zenon DEF TypeOK
<1>4. ASSUME NEW q \in Peers, NEW k \in DOMAIN wire'[q]
      PROVE  \E j \in DOMAIN sealed'[Other(q)] : wire'[q][k] = sealed'[Other(q)][j]
  <2>1. CASE q = p
    <3>1. wire'[q] = Without(wire[p], i)
      BY <2>1, Zenon DEF TypeOK
    <3>2. PICK j \in DOMAIN wire[p] : wire'[q][k] = wire[p][j]
      BY <1>2, <3>1, Zenon
    <3> QED
      BY <2>1, <3>2 DEF WireSealed
  <2>2. CASE q # p
    <3>1. wire'[q] = wire[q]
      BY <2>2, Zenon DEF TypeOK
    <3> QED
      BY <3>1 DEF WireSealed
  <2> QED
    BY <2>1, <2>2, Zenon
<1> QED
  BY <1>3, <1>4, Zenon DEF WireSealed

\* accept leaves a window a window.
LEMMA WindowType ==
  ASSUME NEW w \in [highest : Nat, recent : SUBSET Nat, initialized : BOOLEAN], NEW s \in Nat
  PROVE  Marked(w, s) \in [highest : Nat, recent : SUBSET Nat, initialized : BOOLEAN]
  BY Zenon DEF Marked, Floor

\* What check_and_record admits stays within the budget.
LEMMA ChargedInBudget ==
  ASSUME NEW u \in Usage, NEW len \in Nat, WithinBudget(u, len)
  PROVE  Charged(u, len) \in Usage
<1>1. u.messages \in Nat /\ u.bytes \in Nat
  BY ChannelAssumption DEF Usage
<1> QED BY <1>1, ChannelAssumption DEF Usage, WithinBudget, Charged

\* A fresh session pair satisfies the invariant.
LEMMA InitInv == Init => ChannelInv
<1> SUFFICES ASSUME Init PROVE ChannelInv
  OBVIOUS
<1>1. TypeOK
  BY ChannelAssumption DEF Init, TypeOK, SendLane, Chain, EmptyWindow, Unused, Chains, Messages, Usage
<1>2. KeyShape
  BY OtherPeer, Zenon DEF Init, KeyShape, Chain
<1>3. SealedBehind /\ WireSealed /\ OpenedBehind /\ OpenedInOrderOnce
  BY OtherPeer DEF Init, SealedBehind, WireSealed, OpenedBehind, OpenedInOrderOnce
<1> QED
  BY <1>1, <1>2, <1>3, Zenon DEF ChannelInv

\* An end's chain after one more message is ahead of everything behind it.
LEMMA ChainAdvances ==
  ASSUME NEW c \in Chains
  PROVE  /\ NextChain(c) \in Chains /\ NextChain(c).epoch = c.epoch /\ NextChain(c).lane = c.lane
         /\ Before(c, NextChain(c))
         /\ \A d \in Chains : Before(d, c) => Before(d, NextChain(c))
  BY ChannelAssumption DEF Chains, NextChain, Before

\* Sealing a message (Session::encrypt) keeps the invariant.
LEMMA EncryptInv ==
  ASSUME ChannelInv, NEW p \in Peers, NEW len \in Lengths, Encrypt(p, len)
  PROVE  ChannelInv'
<1> DEFINE msg == [key |-> sendChain[p], nonce |-> nonce[p], seq |-> sendSeq[p], len |-> len]
<1>0. TypeOK /\ KeyShape /\ SealedBehind /\ WireSealed /\ OpenedBehind /\ OpenedInOrderOnce
  BY Zenon DEF ChannelInv
<1>1. Other(p) \in Peers /\ Other(p) # p /\ Other(Other(p)) = p
  BY OtherPeer, Zenon
<1>2. msg \in Messages /\ msg.key = sendChain[p] /\ sendChain[p] \in Chains
  BY <1>0, Zenon DEF TypeOK, Messages
<1>3. /\ wire' = [wire EXCEPT ![Other(p)] = Append(@, msg)]
      /\ sealed' = [sealed EXCEPT ![p] = Append(@, msg)]
      /\ sendChain' = [sendChain EXCEPT ![p] = NextChain(@)]
      /\ sendUse' = [sendUse EXCEPT ![p] = Charged(@, len)]
      /\ UNCHANGED <<root, recvChain, recvUse, replay, dups, opened>>
  BY Zenon DEF Encrypt
<1>4. wire' \in [Peers -> Seq(Messages)] /\ sealed' \in [Peers -> Seq(Messages)]
  <2> HIDE DEF msg
  <2>1. wire[Other(p)] \in Seq(Messages) /\ sealed[p] \in Seq(Messages)
    BY <1>0, <1>1, Zenon DEF TypeOK
  <2>2. Append(wire[Other(p)], msg) \in Seq(Messages) /\ Append(sealed[p], msg) \in Seq(Messages)
    BY <2>1, <1>2
  <2>3. wire \in [Peers -> Seq(Messages)] /\ sealed \in [Peers -> Seq(Messages)]
    BY <1>0, Zenon DEF TypeOK
  <2> QED BY <1>1, <1>3, <2>2, <2>3, Zenon
<1>5. /\ NextChain(sendChain[p]) \in Chains /\ NextChain(sendChain[p]).epoch = sendChain[p].epoch
      /\ NextChain(sendChain[p]).lane = sendChain[p].lane
      /\ Before(sendChain[p], NextChain(sendChain[p]))
      /\ \A d \in Chains : Before(d, sendChain[p]) => Before(d, NextChain(sendChain[p]))
  BY <1>2, ChainAdvances, Zenon
<1>6. sendChain' \in [Peers -> Chains]
  BY <1>0, <1>3, <1>5, Zenon DEF TypeOK
<1>7. sendUse' \in [Peers -> Usage]
  <2>0. sendUse[p] \in Usage /\ WithinBudget(sendUse[p], len) /\ len \in Nat
    BY <1>0, ChannelAssumption, Zenon DEF TypeOK, Encrypt
  <2>1. Charged(sendUse[p], len) \in Usage
    BY <2>0, ChargedInBudget, Zenon
  <2> QED BY <1>0, <1>3, <2>1, Zenon DEF TypeOK
<1>8. TypeOK'
  <2>1. nonce' \in [Peers -> Nat] /\ sendSeq' \in [Peers -> Nat]
    <3>1. nonce' = [nonce EXCEPT ![p] = @ + 1] /\ sendSeq' = [sendSeq EXCEPT ![p] = @ + 1]
      BY Zenon DEF Encrypt
    <3>2. nonce \in [Peers -> Nat] /\ sendSeq \in [Peers -> Nat]
      BY <1>0, Zenon DEF TypeOK
    <3> QED BY <3>1, <3>2
  <2> QED BY <1>0, <1>3, <1>4, <1>6, <1>7, <2>1, Zenon DEF TypeOK
<1>9. /\ \A q \in Peers : q # p => sendChain'[q] = sendChain[q]
      /\ sendChain'[p] = NextChain(sendChain[p])
  BY <1>0, <1>3, Zenon DEF TypeOK
<1>11. KeyShape'
  BY <1>0, <1>3, <1>5, <1>9 DEF KeyShape
<1>12. sealed'[p] = Append(sealed[p], msg) /\ \A q \in Peers : q # p => sealed'[q] = sealed[q]
  BY <1>0, <1>3, Zenon DEF TypeOK
<1>13. /\ DOMAIN sealed'[p] = 1..Len(sealed[p]) + 1
       /\ DOMAIN sealed[p] = 1..Len(sealed[p]) /\ Len(sealed[p]) \in Nat
       /\ \A i \in DOMAIN sealed[p] : sealed'[p][i] = sealed[p][i]
       /\ sealed'[p][Len(sealed[p]) + 1] = msg
  <2>1. sealed[p] \in Seq(Messages)
    BY <1>0, Zenon DEF TypeOK
  <2> HIDE DEF msg
  <2> QED BY <1>12, <1>2, <2>1
<1>14. SealedBehind'
  <2>1. ASSUME NEW i \in DOMAIN sealed'[p]
        PROVE  sealed'[p][i].key.lane = SendLane(p) /\ Before(sealed'[p][i].key, sendChain'[p])
    <3>1. CASE i \in DOMAIN sealed[p]
      <4>1. sealed[p][i].key.lane = SendLane(p) /\ Before(sealed[p][i].key, sendChain[p])
        BY <1>0, <3>1, Zenon DEF SealedBehind
      <4>2. sealed[p][i].key \in Chains
        BY SealedTyped, <1>0, <3>1, Zenon
      <4> QED BY <4>1, <4>2, <3>1, <1>13, <1>9, <1>5, Zenon
    <3>2. CASE i = Len(sealed[p]) + 1
      BY <3>2, <1>13, <1>2, <1>0, <1>9, <1>5, ZenonT(40) DEF KeyShape
    <3> QED BY <3>1, <3>2, <1>13
  <2>2. ASSUME NEW i \in DOMAIN sealed'[p], NEW j \in DOMAIN sealed'[p], i < j
        PROVE  Before(sealed'[p][i].key, sealed'[p][j].key)
    <3>1. i \in DOMAIN sealed[p]
      BY <2>2, <1>13
    <3>2. CASE j \in DOMAIN sealed[p]
      BY <3>1, <3>2, <2>2, <1>0, <1>13, Zenon DEF SealedBehind
    <3>3. CASE j = Len(sealed[p]) + 1
      BY <3>1, <3>3, <1>0, <1>2, <1>13, Zenon DEF SealedBehind
    <3> QED BY <3>2, <3>3, <1>13, SMTT(40)
  <2>3. ASSUME NEW q \in Peers, q # p
        PROVE  /\ \A i \in DOMAIN sealed'[q] :
                    sealed'[q][i].key.lane = SendLane(q) /\ Before(sealed'[q][i].key, sendChain'[q])
               /\ \A i, j \in DOMAIN sealed'[q] : i < j => Before(sealed'[q][i].key, sealed'[q][j].key)
    BY <2>3, <1>0, <1>9, <1>12, Zenon DEF SealedBehind
  <2> QED BY <2>1, <2>2, <2>3, Zenon DEF SealedBehind
<1>15. WireSealed'
  <2>1. ASSUME NEW i \in DOMAIN wire'[Other(p)]
        PROVE  \E j \in DOMAIN sealed'[p] : wire'[Other(p)][i] = sealed'[p][j]
    <3>1. wire'[Other(p)] = Append(wire[Other(p)], msg) /\ wire[Other(p)] \in Seq(Messages)
      BY <1>0, <1>1, <1>3, Zenon DEF TypeOK
    <3>2. \/ i \in DOMAIN wire[Other(p)] /\ wire'[Other(p)][i] = wire[Other(p)][i]
          \/ wire'[Other(p)][i] = msg
      <4> HIDE DEF msg
      <4> QED BY <3>1, <1>2, SMTT(40)
    <3>3. CASE i \in DOMAIN wire[Other(p)] /\ wire'[Other(p)][i] = wire[Other(p)][i]
      <4>1. PICK j \in DOMAIN sealed[p] : wire[Other(p)][i] = sealed[p][j]
        BY <3>3, <1>0, <1>1, SMTT(40) DEF WireSealed
      <4> QED BY <4>1, <3>3, <1>13, SMTT(40)
    <3>4. CASE wire'[Other(p)][i] = msg
      BY <3>4, <1>13
    <3> QED BY <3>2, <3>3, <3>4, Zenon
  <2>2. \A q \in Peers : q = p \/ q = Other(p)
    BY <1>1 DEF Peers, Other
  <2>3. wire'[p] = wire[p] /\ sealed'[Other(p)] = sealed[Other(p)]
    BY <1>0, <1>1, <1>3, Zenon DEF TypeOK
  <2> QED BY <2>1, <2>2, <2>3, <1>0, <1>1 DEF WireSealed
<1>16. OpenedBehind' /\ OpenedInOrderOnce'
  <2>1. opened' = opened
    BY Zenon DEF Encrypt
  <2>2. OpenedBehind'
    BY <2>1, <1>0, <1>3, Zenon DEF OpenedBehind
  <2>3. ASSUME NEW q \in Peers, NEW j \in DOMAIN sealed[Other(q)]
        PROVE  j \in DOMAIN sealed'[Other(q)] /\ sealed'[Other(q)][j] = sealed[Other(q)][j]
    <3>1. Other(q) \in Peers
      BY OtherPeer, Zenon
    <3> QED BY <3>1, <1>12, <1>13, SMTT(40)
  <2>4. OpenedInOrderOnce'
    BY <2>1, <2>3, <1>0 DEF OpenedInOrderOnce
  <2> QED BY <2>2, <2>4, Zenon
<1> QED
  BY <1>8, <1>11, <1>14, <1>15, <1>16, Zenon DEF ChannelInv

\* Decrypting an admitted frame (Session::decrypt) keeps the invariant, whether or not it opens.
LEMMA DecryptInv ==
  ASSUME ChannelInv, NEW p \in Peers, NEW i \in DOMAIN wire[p], Decrypt(p, i)
  PROVE  ChannelInv'
<1> DEFINE msg == wire[p][i]
<1>0. TypeOK /\ KeyShape /\ SealedBehind /\ WireSealed /\ OpenedBehind /\ OpenedInOrderOnce
  BY Zenon DEF ChannelInv
<1>1. /\ wire' = [wire EXCEPT ![p] = Without(@, i)]
      /\ replay' = [replay EXCEPT ![p] = Marked(@, msg.seq)]
      /\ recvUse' = [recvUse EXCEPT ![p] = Charged(@, msg.len)]
      /\ recvChain' = [recvChain EXCEPT ![p] = NextChain(@)]
      /\ opened' = IF Opens(p, msg) THEN [opened EXCEPT ![p] = Append(@, msg)] ELSE opened
      /\ WithinBudget(recvUse[p], msg.len)
      /\ UNCHANGED <<root, sendChain, sendUse, nonce, sendSeq, dups, sealed>>
  BY Zenon DEF Decrypt
<1>2. wire' \in [Peers -> Seq(Messages)] /\ WireSealed'
  BY <1>0, <1>1, CarrierKeeps, Zenon
<1>3. /\ msg \in Messages /\ msg.key \in Chains /\ msg.seq \in Nat /\ msg.len \in Nat
      /\ recvChain[p] \in Chains
  <2>1. msg \in Messages /\ msg.key \in Chains
    BY <1>0, SealedTyped, Zenon
  <2> HIDE DEF msg
  <2> QED BY <2>1, <1>0, ChannelAssumption, Zenon DEF TypeOK, Messages
<1> HIDE DEF msg
<1>4. /\ NextChain(recvChain[p]) \in Chains /\ NextChain(recvChain[p]).epoch = recvChain[p].epoch
      /\ NextChain(recvChain[p]).lane = recvChain[p].lane
      /\ Before(recvChain[p], NextChain(recvChain[p]))
      /\ \A d \in Chains : Before(d, recvChain[p]) => Before(d, NextChain(recvChain[p]))
  BY <1>3, ChainAdvances, Zenon
<1>5. recvChain' \in [Peers -> Chains]
  BY <1>0, <1>1, <1>4, Zenon DEF TypeOK
<1>6. recvUse' \in [Peers -> Usage]
  <2>0. recvUse[p] \in Usage
    BY <1>0, Zenon DEF TypeOK
  <2>1. Charged(recvUse[p], msg.len) \in Usage
    BY <2>0, <1>1, <1>3, ChargedInBudget, Zenon
  <2> QED BY <1>0, <1>1, <2>1, Zenon DEF TypeOK
<1>7. replay' \in [Peers -> [highest : Nat, recent : SUBSET Nat, initialized : BOOLEAN]]
  <2>1. replay \in [Peers -> [highest : Nat, recent : SUBSET Nat, initialized : BOOLEAN]]
    BY <1>0, Zenon DEF TypeOK
  <2>2. Marked(replay[p], msg.seq) \in [highest : Nat, recent : SUBSET Nat, initialized : BOOLEAN]
    BY <2>1, <1>3, WindowType, Zenon
  <2> QED BY <1>1, <2>1, <2>2, Zenon
<1>8. opened \in [Peers -> Seq(Messages)] /\ opened[p] \in Seq(Messages)
  BY <1>0, Zenon DEF TypeOK
<1>9. opened' \in [Peers -> Seq(Messages)]
  <2>1. Append(opened[p], msg) \in Seq(Messages)
    BY <1>8, <1>3
  <2> QED BY <1>1, <1>8, <2>1, Zenon
<1>10. TypeOK'
  BY <1>0, <1>1, <1>2, <1>5, <1>6, <1>7, <1>9, Zenon DEF TypeOK
<1>11. /\ \A q \in Peers : q # p => recvChain'[q] = recvChain[q]
       /\ recvChain'[p] = NextChain(recvChain[p])
  BY <1>0, <1>1, Zenon DEF TypeOK
<1>12. KeyShape'
  BY <1>0, <1>1, <1>4, <1>11, Zenon DEF KeyShape
<1>13. SealedBehind'
  BY <1>0, <1>1, Zenon DEF SealedBehind
<1>14. \A k \in DOMAIN opened[p] : opened[p][k].key \in Chains
  BY <1>0, SealedTyped, Zenon
<1>15. CASE ~Opens(p, msg)
  <2>1. opened' = opened
    BY <1>1, <1>15, Zenon
  <2>2. OpenedBehind'
    BY <2>1, <1>0, <1>4, <1>11, <1>14, ZenonT(40) DEF OpenedBehind
  <2>3. OpenedInOrderOnce'
    <3>1. sealed' = sealed
      BY <1>1, Zenon
    <3>2. OpenedInOrderOnce
      BY <1>0, Zenon
    <3> QED BY <3>1, <3>2, <2>1, ZenonT(40) DEF OpenedInOrderOnce
  <2> QED BY <1>2, <1>10, <1>12, <1>13, <2>2, <2>3, Zenon DEF ChannelInv
<1>16. CASE Opens(p, msg)
  <2>1. msg.key = recvChain[p]
    BY <1>16, Zenon DEF Opens
  <2>2. opened'[p] = Append(opened[p], msg) /\ \A q \in Peers : q # p => opened'[q] = opened[q]
    BY <1>1, <1>8, <1>16, Zenon
  <2>3. /\ DOMAIN opened'[p] = 1..Len(opened[p]) + 1
        /\ DOMAIN opened[p] = 1..Len(opened[p]) /\ Len(opened[p]) \in Nat
        /\ \A k \in DOMAIN opened[p] : opened'[p][k] = opened[p][k]
        /\ opened'[p][Len(opened[p]) + 1] = msg
    BY <2>2, <1>3, <1>8
  <2>4. ASSUME NEW k \in DOMAIN opened'[p]
        PROVE  Before(opened'[p][k].key, recvChain'[p])
    <3>1. CASE k \in DOMAIN opened[p]
      BY <3>1, <2>3, <1>0, <1>4, <1>11, <1>14, Zenon DEF OpenedBehind
    <3>2. CASE k = Len(opened[p]) + 1
      BY <3>2, <2>1, <2>3, <1>4, <1>11, Zenon
    <3> QED BY <3>1, <3>2, <2>3
  <2>5. OpenedBehind'
    BY <2>4, <2>2, <1>0, <1>11, Zenon DEF OpenedBehind
  <2>6. ASSUME NEW k \in DOMAIN opened'[p], NEW m \in DOMAIN opened'[p], k < m
        PROVE  Before(opened'[p][k].key, opened'[p][m].key)
    <3>1. k \in DOMAIN opened[p]
      BY <2>6, <2>3
    <3>2. CASE m \in DOMAIN opened[p]
      BY <3>1, <3>2, <2>6, <2>3, <1>0, Zenon DEF OpenedInOrderOnce
    <3>3. CASE m = Len(opened[p]) + 1
      BY <3>1, <3>3, <2>1, <2>3, <1>0, Zenon DEF OpenedBehind
    <3> QED BY <3>2, <3>3, <2>3
  <2>7. ASSUME NEW k \in DOMAIN opened'[p]
        PROVE  \E j \in DOMAIN sealed[Other(p)] : opened'[p][k] = sealed[Other(p)][j]
    <3>1. CASE k \in DOMAIN opened[p]
      BY <3>1, <2>3, <1>0 DEF OpenedInOrderOnce
    <3>2. CASE k = Len(opened[p]) + 1
      BY <3>2, <2>3, <1>0, ZenonT(40) DEF WireSealed, msg
    <3> QED BY <3>1, <3>2, <2>3, SMTT(40)
  <2>8. OpenedInOrderOnce'
    <3>1. sealed' = sealed
      BY <1>1, Zenon
    <3>2. ASSUME NEW q \in Peers, q # p
          PROVE  /\ \A k \in DOMAIN opened'[q] :
                      \E j \in DOMAIN sealed'[Other(q)] : opened'[q][k] = sealed'[Other(q)][j]
                 /\ \A k, m \in DOMAIN opened'[q] : k < m => Before(opened'[q][k].key, opened'[q][m].key)
      <4>1. opened'[q] = opened[q]
        BY <3>2, <2>2, Zenon
      <4>2. /\ \A k \in DOMAIN opened[q] :
                 \E j \in DOMAIN sealed[Other(q)] : opened[q][k] = sealed[Other(q)][j]
            /\ \A k, m \in DOMAIN opened[q] : k < m => Before(opened[q][k].key, opened[q][m].key)
        BY <1>0, Zenon DEF OpenedInOrderOnce
      <4> QED
        BY <4>1, <4>2, <3>1
    <3>3. /\ \A k \in DOMAIN opened'[p] :
               \E j \in DOMAIN sealed'[Other(p)] : opened'[p][k] = sealed'[Other(p)][j]
          /\ \A k, m \in DOMAIN opened'[p] : k < m => Before(opened'[p][k].key, opened'[p][m].key)
      BY <3>1, <2>6, <2>7, Zenon
    <3> QED
      BY <3>2, <3>3, Zenon DEF OpenedInOrderOnce
  <2> QED BY <1>2, <1>10, <1>12, <1>13, <2>5, <2>8, Zenon DEF ChannelInv
<1> QED
  BY <1>15, <1>16, Zenon

\* A frame that is refused, lost or repeated changes at most the window and the wire.
LEMMA CarrierInv ==
  ASSUME ChannelInv, NEW p \in Peers, NEW i \in DOMAIN wire[p],
         DecryptReplay(p, i) \/ DecryptOverBudget(p, i) \/ Lose(p, i) \/ Duplicate(p, i)
  PROVE  ChannelInv'
<1>0. TypeOK /\ KeyShape /\ SealedBehind /\ WireSealed /\ OpenedBehind /\ OpenedInOrderOnce
  BY Zenon DEF ChannelInv
<1>1. UNCHANGED <<root, sendChain, recvChain, sendUse, recvUse, nonce, sendSeq, sealed, opened>>
  BY Zenon DEF DecryptReplay, DecryptOverBudget, Lose, Duplicate, keys, usage
<1>2. wire[p] \in Seq(Messages) /\ wire[p][i] \in Messages
  BY <1>0, SealedTyped, Zenon DEF TypeOK
<1>3. wire' \in [Peers -> Seq(Messages)] /\ WireSealed'
  <2>1. CASE wire' = [wire EXCEPT ![p] = Without(@, i)]
    BY <2>1, <1>0, <1>1, CarrierKeeps, Zenon
  <2>2. CASE wire' = [wire EXCEPT ![p] = Append(@, @[i])]
    <3>1. wire \in [Peers -> Seq(Messages)]
      BY <1>0, Zenon DEF TypeOK
    <3>2. Append(wire[p], wire[p][i]) \in Seq(Messages)
      BY <1>2
    <3>3. wire' \in [Peers -> Seq(Messages)]
      BY <2>2, <3>1, <3>2, Zenon
    <3>4. wire'[p] = Append(wire[p], wire[p][i]) /\ \A q \in Peers : q # p => wire'[q] = wire[q]
      BY <2>2, <3>1, Zenon
    <3>5. \A k \in DOMAIN wire'[p] : \E m \in DOMAIN wire[p] : wire'[p][k] = wire[p][m]
      BY <3>4, <1>2
    <3>6. WireSealed'
      <4> SUFFICES ASSUME NEW q \in Peers, NEW k \in DOMAIN wire'[q]
                   PROVE  \E j \in DOMAIN sealed[Other(q)] : wire'[q][k] = sealed[Other(q)][j]
        BY <1>1, Zenon DEF WireSealed
      <4>1. CASE q = p
        BY <4>1, <3>5, <1>0 DEF WireSealed
      <4>2. CASE q # p
        BY <4>2, <3>4, <1>0 DEF WireSealed
      <4> QED BY <4>1, <4>2, Zenon
    <3> QED BY <3>3, <3>6, Zenon
  <2> QED BY <2>1, <2>2, Zenon DEF DecryptReplay, DecryptOverBudget, Lose, Duplicate
<1>4. replay' \in [Peers -> [highest : Nat, recent : SUBSET Nat, initialized : BOOLEAN]]
  <2>1. replay \in [Peers -> [highest : Nat, recent : SUBSET Nat, initialized : BOOLEAN]]
    BY <1>0, Zenon DEF TypeOK
  <2>2. wire[p][i].seq \in Nat
    BY <1>2, Zenon DEF Messages
  <2>3. Marked(replay[p], wire[p][i].seq) \in [highest : Nat, recent : SUBSET Nat, initialized : BOOLEAN]
    BY <2>1, <2>2, WindowType, Zenon
  <2> QED BY <2>1, <2>3, Zenon DEF DecryptReplay, DecryptOverBudget, Lose, Duplicate
<1>5. dups' \in 0..MaxDup
  BY <1>0, ChannelAssumption, SMTT(40) DEF TypeOK, DecryptReplay, DecryptOverBudget, Lose, Duplicate
<1>6. TypeOK'
  BY <1>0, <1>1, <1>3, <1>4, <1>5, Zenon DEF TypeOK
<1>7. KeyShape' /\ SealedBehind' /\ OpenedBehind'
  BY <1>0, <1>1, Zenon DEF KeyShape, SealedBehind, OpenedBehind
<1>8. OpenedInOrderOnce'
  BY <1>0, <1>1, ZenonT(40) DEF OpenedInOrderOnce
<1> QED BY <1>3, <1>6, <1>7, <1>8, Zenon DEF ChannelInv

\* The fields of a freshly derived chain.
LEMMA ChainFields ==
  ASSUME NEW c, NEW e, NEW l, c = [epoch |-> e, lane |-> l, step |-> 0]
  PROVE  c.epoch = e /\ c.lane = l
OBVIOUS

\* Rotation moves the chains of the rotating ends to a later epoch.
LEMMA RotateInv ==
  ASSUME ChannelInv, NEW ends \in SUBSET Peers, RotateEnds(ends),
         \A p \in ends : root[p] < MaxEpoch
  PROVE  ChannelInv'
<1>0. TypeOK /\ KeyShape /\ SealedBehind /\ WireSealed /\ OpenedBehind /\ OpenedInOrderOnce
  BY Zenon DEF ChannelInv
<1>1. UNCHANGED <<wire, dups, sealed, opened>>
  BY Zenon DEF RotateEnds
<1>2. ASSUME NEW p \in Peers
      PROVE  /\ root'[p] = IF p \in ends THEN root[p] + 1 ELSE root[p]
             /\ sendChain'[p] = IF p \in ends
                  THEN [epoch |-> root[p] + 1, lane |-> SendLane(p), step |-> 0] ELSE sendChain[p]
             /\ recvChain'[p] = IF p \in ends
                  THEN [epoch |-> root[p] + 1, lane |-> SendLane(Other(p)), step |-> 0] ELSE recvChain[p]
  BY Zenon DEF RotateEnds, NewRoot, Rotated, Chain
<1>2a. ASSUME NEW p \in Peers, p \in ends
       PROVE  /\ root'[p] = root[p] + 1
              /\ sendChain'[p].epoch = root[p] + 1 /\ sendChain'[p].lane = SendLane(p)
              /\ recvChain'[p].epoch = root[p] + 1 /\ recvChain'[p].lane = SendLane(Other(p))
  <2>1. /\ root'[p] = root[p] + 1
        /\ sendChain'[p] = [epoch |-> root[p] + 1, lane |-> SendLane(p), step |-> 0]
        /\ recvChain'[p] = [epoch |-> root[p] + 1, lane |-> SendLane(Other(p)), step |-> 0]
    BY <1>2, <1>2a, Zenon
  <2>2. sendChain'[p].epoch = root[p] + 1 /\ sendChain'[p].lane = SendLane(p)
    BY <2>1, ChainFields, ZenonT(40)
  <2>3. recvChain'[p].epoch = root[p] + 1 /\ recvChain'[p].lane = SendLane(Other(p))
    BY <2>1, ChainFields, ZenonT(40)
  <2> QED BY <2>1, <2>2, <2>3, Zenon
<1>3. \A p \in Peers : root[p] \in 0..MaxEpoch /\ sendChain[p] \in Chains /\ recvChain[p] \in Chains
  BY <1>0, Zenon DEF TypeOK
<1>4. ASSUME NEW p \in Peers
      PROVE  root'[p] \in 0..MaxEpoch /\ sendChain'[p] \in Chains /\ recvChain'[p] \in Chains
  <2>1. CASE p \notin ends
    BY <2>1, <1>2, <1>3, Zenon
  <2>2. CASE p \in ends
    <3>1. root[p] + 1 \in 0..MaxEpoch
      BY <2>2, <1>3, ChannelAssumption
    <3>2. SendLane(p) \in {1, 2} /\ SendLane(Other(p)) \in {1, 2}
      BY Zenon DEF SendLane
    <3>3. \A lane \in {1, 2} : [epoch |-> root[p] + 1, lane |-> lane, step |-> 0] \in Chains
      BY <3>1, Zenon DEF Chains
    <3> QED BY <2>2, <1>2, <3>1, <3>2, <3>3, Zenon
  <2> QED BY <2>1, <2>2, Zenon
<1>5. TypeOK'
  <2>1. root' \in [Peers -> 0..MaxEpoch] /\ sendChain' \in [Peers -> Chains] /\ recvChain' \in [Peers -> Chains]
    BY <1>4, Zenon DEF RotateEnds
  <2>2. nonce' \in [Peers -> Nat] /\ sendSeq' \in [Peers -> Nat]
    BY <1>0, Zenon DEF RotateEnds, TypeOK
  <2>3. /\ sendUse' \in [Peers -> Usage]
        /\ recvUse' \in [Peers -> Usage]
    BY <1>0, ChannelAssumption DEF RotateEnds, TypeOK, Unused, Usage
  <2>4. replay' \in [Peers -> [highest : Nat, recent : SUBSET Nat, initialized : BOOLEAN]]
    BY <1>0, Zenon DEF RotateEnds, TypeOK, EmptyWindow
  <2> QED BY <1>0, <1>1, <2>1, <2>2, <2>3, <2>4, Zenon DEF TypeOK
<1>6. KeyShape'
  <2> SUFFICES ASSUME NEW p \in Peers
               PROVE  /\ sendChain'[p].epoch = root'[p] /\ sendChain'[p].lane = SendLane(p)
                      /\ recvChain'[p].epoch = root'[p] /\ recvChain'[p].lane = SendLane(Other(p))
    BY Zenon DEF KeyShape
  <2>1. CASE p \in ends
    BY <2>1, <1>2a, Zenon
  <2>2. CASE p \notin ends
    BY <2>2, <1>2, <1>0, Zenon DEF KeyShape
  <2> QED BY <2>1, <2>2, Zenon
<1>7. ASSUME NEW p \in Peers, NEW c \in Chains
      PROVE  /\ Before(c, sendChain[p]) => Before(c, sendChain'[p])
             /\ Before(c, recvChain[p]) => Before(c, recvChain'[p])
  <2>1. CASE p \notin ends
    BY <2>1, <1>2, ZenonT(40)
  <2>2. CASE p \in ends
    <3>1. sendChain[p].epoch = root[p] /\ recvChain[p].epoch = root[p] /\ root[p] \in Nat
      BY <1>0, <1>3, ChannelAssumption DEF KeyShape
    <3>2. sendChain'[p].epoch = root[p] + 1 /\ recvChain'[p].epoch = root[p] + 1
      BY <2>2, <1>2a, Zenon
    <3>3. c.epoch \in Nat
      BY ChannelAssumption DEF Chains
    <3> QED BY <3>1, <3>2, <3>3, SMTT(40) DEF Before
  <2> QED BY <2>1, <2>2, Zenon
<1>8. SealedBehind'
  BY <1>0, <1>1, <1>7, SealedTyped, Zenon DEF SealedBehind
<1>9. OpenedBehind'
  BY <1>0, <1>1, <1>7, SealedTyped, Zenon DEF OpenedBehind
<1>10. WireSealed' /\ OpenedInOrderOnce'
  BY <1>0, <1>1 DEF WireSealed, OpenedInOrderOnce
<1> QED BY <1>5, <1>6, <1>8, <1>9, <1>10, Zenon DEF ChannelInv

\* The invariant is inductive: one case per action.
LEMMA NextInv == ChannelInv /\ [Next]_vars => ChannelInv'
<1> SUFFICES ASSUME ChannelInv, [Next]_vars PROVE ChannelInv'
  OBVIOUS
<1>1. ASSUME NEW p \in Peers, NEW len \in Lengths, Encrypt(p, len) PROVE ChannelInv'
  BY <1>1, EncryptInv, Zenon
<1>2. ASSUME NEW p \in Peers, Receive(p) PROVE ChannelInv'
  BY <1>2, DecryptInv, CarrierInv, Zenon DEF Receive
<1>3. ASSUME NEW p \in Peers, RotateApart(p) PROVE ChannelInv'
  <2>1. RotateEnds({p}) /\ root[p] < MaxEpoch
    BY <1>3, Zenon DEF RotateApart
  <2> QED BY <2>1, RotateInv, Zenon
<1>4. ASSUME RotateTogether PROVE ChannelInv'
  <2>1. RotateEnds(Peers) /\ \A p \in Peers : root[p] < MaxEpoch
    BY <1>4, Zenon DEF RotateTogether
  <2> QED BY <2>1, RotateInv, Zenon
<1>5. ASSUME NEW p \in Peers, NEW i \in DOMAIN wire[p], Lose(p, i) \/ Duplicate(p, i) PROVE ChannelInv'
  BY <1>5, CarrierInv, ZenonT(40)
<1>6. CASE UNCHANGED vars
  BY <1>6, ZenonT(40) DEF ChannelInv, TypeOK, KeyShape, SealedBehind, WireSealed, OpenedBehind,
     OpenedInOrderOnce, vars, keys, usage
<1> QED BY <1>1, <1>2, <1>3, <1>4, <1>5, <1>6, Zenon DEF Next

\* The inductive invariant holds in every reachable state of a session pair.
THEOREM ChannelInvariant == Spec => []ChannelInv
<1>1. Init => ChannelInv
  BY InitInv, Zenon
<1>2. ChannelInv /\ [Next]_vars => ChannelInv'
  BY NextInv, Zenon
<1> QED BY <1>1, <1>2, PTL DEF Spec

\* No message key seals two messages, by either end and across any number of
\* rotations, although rotate restarts the nonces: for every instance.
THEOREM KeysUsedOnce == Spec => []MessageKeysUsedOnce
<1>1. ChannelInv => MessageKeysUsedOnce
  <2> SUFFICES ASSUME ChannelInv, NEW p \in Peers, NEW q \in Peers,
                      NEW i \in DOMAIN sealed[p], NEW j \in DOMAIN sealed[q],
                      sealed[p][i].key = sealed[q][j].key
               PROVE  p = q /\ i = j
    BY Zenon DEF MessageKeysUsedOnce
  <2>1. TypeOK /\ SealedBehind
    BY Zenon DEF ChannelInv
  <2>2. p = q
    <3>1. SendLane(p) = SendLane(q)
      BY <2>1, ZenonT(40) DEF SealedBehind
    <3> QED BY <3>1, ChannelAssumption DEF SendLane, Peers
  <2>3. sealed[p][i].key \in Chains /\ sealed[p][j].key \in Chains
    BY <2>1, <2>2, SealedTyped, Zenon
  <2>4. ~Before(sealed[p][i].key, sealed[p][j].key) /\ ~Before(sealed[p][j].key, sealed[p][i].key)
    BY <2>2, <2>3, SMTT(40) DEF Before, Chains
  <2>5. i \in Nat /\ j \in Nat
    <3>1. sealed[p] \in Seq(Messages)
      BY <2>1, Zenon DEF TypeOK
    <3> QED BY <3>1, <2>2
  <2> QED BY <2>1, <2>2, <2>4, <2>5 DEF SealedBehind
<1> QED BY <1>1, ChannelInvariant, PTL

\* Whatever the carrier loses, repeats or reorders and whenever the ends
\* rotate, an end opens only what the other end sent, in order and once.
THEOREM OrderedDelivery == Spec => []OpenedInOrderOnce
<1>1. ChannelInv => OpenedInOrderOnce
  BY Zenon DEF ChannelInv
<1> QED BY <1>1, ChannelInvariant, PTL

\* Every reachable state of a session pair is well typed.
THEOREM ChannelTypes == Spec => []TypeOK
<1>1. ChannelInv => TypeOK
  BY Zenon DEF ChannelInv
<1> QED BY <1>1, ChannelInvariant, PTL

-----------------------------------------------------------------------------
(* The budget of an epoch *)

\* The send tracker counts the steps of the send chain, so no message is sealed
\* beyond the budget.
BudgetInv ==
  \A p \in Peers :
    /\ sendChain[p].step = sendUse[p].messages
    /\ \A i \in DOMAIN sealed[p] : sealed[p][i].key.step < MaxMessages

\* A step that neither seals nor rotates keeps the budget.
LEMMA BudgetKept ==
  ASSUME BudgetInv, UNCHANGED <<sendChain, sendUse, sealed>>
  PROVE  BudgetInv'
BY Zenon DEF BudgetInv

\* encrypt charges the tracker and advances the chain together.
LEMMA BudgetEncrypt ==
  ASSUME TypeOK, BudgetInv, NEW p \in Peers, NEW len \in Lengths, Encrypt(p, len)
  PROVE  BudgetInv'
<1> DEFINE msg == [key |-> sendChain[p], nonce |-> nonce[p], seq |-> sendSeq[p], len |-> len]
<1>1. /\ sendUse' = [sendUse EXCEPT ![p] = Charged(@, len)] /\ WithinBudget(sendUse[p], len)
      /\ sendChain' = [sendChain EXCEPT ![p] = NextChain(@)]
      /\ sealed' = [sealed EXCEPT ![p] = Append(@, msg)]
  BY Zenon DEF Encrypt
<1>2. /\ sendUse \in [Peers -> Usage] /\ sendChain \in [Peers -> Chains]
      /\ sealed \in [Peers -> Seq(Messages)]
  BY Zenon DEF TypeOK
<1> SUFFICES ASSUME NEW q \in Peers
             PROVE  /\ sendChain'[q].step = sendUse'[q].messages
                    /\ \A i \in DOMAIN sealed'[q] : sealed'[q][i].key.step < MaxMessages
  BY Zenon DEF BudgetInv
<1>3. CASE q # p
  BY <1>1, <1>2, <1>3, Zenon DEF BudgetInv
<1>4. CASE q = p
  <2>1. sendChain'[p].step = sendChain[p].step + 1 /\ sendUse'[p].messages = sendUse[p].messages + 1
    <3>1. sendChain'[p] = NextChain(sendChain[p]) /\ sendUse'[p] = Charged(sendUse[p], len)
      BY <1>1, <1>2, Zenon
    <3> QED
      BY <3>1 DEF NextChain, Charged
  <2>2. msg.key = sendChain[p]
    OBVIOUS
  <2>3. sendChain[p].step < MaxMessages
    <3>1. sendUse[p].messages + 1 <= MaxMessages /\ sendChain[p].step = sendUse[p].messages
      BY <1>1, Zenon DEF WithinBudget, BudgetInv
    <3>2. sendUse[p].messages \in Nat
      BY <1>2, ChannelAssumption DEF Usage
    <3> QED
      BY <3>1, <3>2, ChannelAssumption
  <2>4. sealed'[p] = Append(sealed[p], msg) /\ sealed[p] \in Seq(Messages)
    BY <1>1, <1>2, Zenon
  <2> HIDE DEF msg
  <2>5. ASSUME NEW i \in DOMAIN sealed'[p]
        PROVE  (i \in DOMAIN sealed[p] /\ sealed'[p][i] = sealed[p][i]) \/ sealed'[p][i] = msg
    BY <2>4
  <2>6. \A i \in DOMAIN sealed[p] : sealed[p][i].key.step < MaxMessages
    BY Zenon DEF BudgetInv
  <2>7. \A i \in DOMAIN sealed'[p] : sealed'[p][i].key.step < MaxMessages
    BY <2>2, <2>3, <2>5, <2>6, Zenon
  <2>8. sendChain'[p].step = sendUse'[p].messages
    BY <2>1, Zenon DEF BudgetInv
  <2> QED
    BY <1>4, <2>7, <2>8, Zenon
<1> QED
  BY <1>3, <1>4, Zenon

\* rotate starts the tracker and the chain over together.
LEMMA BudgetRotate ==
  ASSUME BudgetInv, NEW ends \in SUBSET Peers, RotateEnds(ends)
  PROVE  BudgetInv'
<1> SUFFICES ASSUME NEW q \in Peers PROVE sendChain'[q].step = sendUse'[q].messages
  BY Zenon DEF BudgetInv, RotateEnds
<1>1. CASE q \in ends
  <2>1. sendChain'[q] = Rotated(q)[1] /\ sendUse'[q] = Unused
    BY <1>1, Zenon DEF RotateEnds
  <2> QED
    BY <2>1 DEF Rotated, Chain, Unused
<1>2. CASE q \notin ends
  BY <1>2, Zenon DEF RotateEnds, BudgetInv
<1> QED
  BY <1>1, <1>2, Zenon

INSTANCE FiniteSetTheorems

\* No epoch seals more messages than AeadLimits allows, however the ends rotate:
\* the keys of an epoch differ in their step, and the steps stay below the limit.
THEOREM EpochWithinBudget == Spec => []BudgetBoundsEpoch
<1>1. Init => BudgetInv
  <2> SUFFICES ASSUME Init, NEW p \in Peers
               PROVE  sendChain[p].step = sendUse[p].messages /\ sealed[p] = <<>>
    BY DEF BudgetInv
  <2> QED
    BY DEF Init, Chain, Unused
<1>2. ASSUME TypeOK, BudgetInv, [Next]_vars PROVE BudgetInv'
  <2>1. ASSUME NEW p \in Peers, Receive(p) PROVE BudgetInv'
    BY <1>2, <2>1, BudgetKept, Zenon DEF Receive, DecryptReplay, DecryptOverBudget, Decrypt, keys, usage
  <2>2. ASSUME NEW p \in Peers, NEW i \in DOMAIN wire[p], Lose(p, i) \/ Duplicate(p, i) PROVE BudgetInv'
    BY <1>2, <2>2, BudgetKept, Zenon DEF Lose, Duplicate, keys, usage
  <2>3. ASSUME NEW p \in Peers, RotateApart(p) PROVE BudgetInv'
    BY <1>2, <2>3, BudgetRotate, Zenon DEF RotateApart
  <2>4. CASE RotateTogether
    BY <1>2, <2>4, BudgetRotate, Zenon DEF RotateTogether
  <2>5. CASE UNCHANGED vars
    BY <1>2, <2>5, BudgetKept, Zenon DEF vars, keys, usage
  <2> QED
    BY <1>2, <2>1, <2>2, <2>3, <2>4, <2>5, BudgetEncrypt, Zenon DEF Next
<1>3. ChannelInv /\ BudgetInv => BudgetBoundsEpoch
  <2> SUFFICES ASSUME ChannelInv, BudgetInv, NEW p \in Peers, NEW e \in 0..MaxEpoch
               PROVE  Cardinality({i \in DOMAIN sealed[p] : sealed[p][i].key.epoch = e}) <= MaxMessages
    BY Zenon DEF BudgetBoundsEpoch
  <2> DEFINE S == {i \in DOMAIN sealed[p] : sealed[p][i].key.epoch = e}
             f == [i \in S |-> sealed[p][i].key.step]
             T == 0..(MaxMessages - 1)
  <2>1. TypeOK /\ SealedBehind
    BY Zenon DEF ChannelInv
  <2>2. \A i \in S : sealed[p][i].key \in Chains /\ sealed[p][i].key.epoch = e
    BY <2>1, SealedTyped, Zenon
  <2>3. S \subseteq Nat
    <3>1. sealed[p] \in Seq(Messages)
      BY <2>1, ZenonT(40) DEF TypeOK
    <3> QED
      BY <3>1
  <2>4. \A i \in S : f[i] \in T
    <3>1. \A i \in S : sealed[p][i].key.step \in Nat
      BY <2>2 DEF Chains
    <3>2. \A i \in S : sealed[p][i].key.step < MaxMessages
      BY Zenon DEF BudgetInv
    <3> QED
      BY <3>1, <3>2, ChannelAssumption, SMTT(40)
  <2>5. ASSUME NEW i \in S, NEW j \in S, f[i] = f[j] PROVE i = j
    <3>1. sealed[p][i].key.step = sealed[p][j].key.step
      BY <2>5, ZenonT(40)
    <3>2. ~Before(sealed[p][i].key, sealed[p][j].key) /\ ~Before(sealed[p][j].key, sealed[p][i].key)
      BY <2>2, <3>1 DEF Before, Chains
    <3>3. ~(i < j) /\ ~(j < i)
      BY <2>1, <3>2, Zenon DEF SealedBehind
    <3> QED
      BY <2>3, <3>3
  <2>6. f \in Injection(S, T)
    <3>1. f \in [S -> T]
      BY <2>4, Zenon
    <3> HIDE DEF S, T, f
    <3> QED
      BY <2>5, <3>1, Zenon DEF Injection, IsInjective
  <2>7. IsFiniteSet(T) /\ Cardinality(T) = MaxMessages
    BY FS_Interval, ChannelAssumption
  <2> HIDE DEF S, T, f
  <2>8. Cardinality(S) <= MaxMessages
    BY <2>6, <2>7, FS_Injection, Zenon
  <2> QED
    BY <2>8, Zenon DEF S
<1>4. ChannelInv => TypeOK
  BY Zenon DEF ChannelInv
<1> QED
  BY <1>1, <1>2, <1>3, <1>4, ChannelInvariant, PTL DEF Spec
=============================================================================
