-------------------------------- MODULE X402 --------------------------------
(***************************************************************************)
(* The HTTP rails of origin-payments: the x402 handshake, direct or split  *)
(* into a facilitator's verify and settle, the ACH rail that shares the    *)
(* split, and the card rail's authorize, over the crate's own HTTP client. *)
(* A provider charges a payment when it answers success and at no other    *)
(* time; its replies may arrive in parts, stop half-way or never come.     *)
(***************************************************************************)
EXTENDS Naturals, FiniteSets

CONSTANTS HttpRails,      \* of "direct", "split", "ach", "card"
          Amounts_,       \* amounts an order or a requirement may name
          Endpoints,      \* resource URLs
          MaxHttpTries    \* bound: attempts

VARIABLES pay,            \* the order and the attempt under way
          reply,          \* the reply on its way, and how much of it was read
          debits,        \* what the provider charged
          outcome,        \* SettleOutcome of the last attempt
          copy            \* a payload as somebody else received it

httpVars == <<pay, reply, debits, outcome, copy>>

NoReply == [status |-> 0, header |-> "none", amount |-> 0, body |-> "empty", length |-> FALSE,
            retryAfter |-> FALSE, got |-> "nothing", cut |-> FALSE]
Answering(status, header, amount, body, length, retry) ==
    [status |-> status, header |-> header, amount |-> amount, body |-> body, length |-> length,
     retryAfter |-> retry, got |-> "nothing", cut |-> FALSE]
NoCopy == [on |-> FALSE, resource |-> "none", auth |-> [value |-> 0, nonce |-> 0],
           signed |-> [value |-> 0, nonce |-> 0, url |-> "none"], url |-> "none"]

-----------------------------------------------------------------------------
\* HybridSigner::sign: what the signature covers, and the payload it travels in.
AuthorizationCanonical(auth, url) == [value |-> auth.value, nonce |-> auth.nonce, url |-> url]
HybridSign(value, nonce, url) ==
    LET auth == [value |-> value, nonce |-> nonce] IN
    [on |-> TRUE, resource |-> url, auth |-> auth, signed |-> AuthorizationCanonical(auth, url),
     url |-> url]
VerifyPaymentPayload(p, url) ==
    /\ p.resource = url
    /\ p.signed = AuthorizationCanonical(p.auth, url)
VerifySignedPayload(p, url, amount) ==
    VerifyPaymentPayload(p, url) /\ p.auth.value = amount

\* response_complete: the head is there and, when a Content-Length is declared, the
\* whole body.
ResponseComplete(r) == r.got = "all" \/ (r.got = "head" /\ ~r.length)
\* http_core: read until that, the peer closes, or the read times out.
ReadEnded == reply.status # 0 /\ (ResponseComplete(reply) \/ reply.cut)
\* parse_http_response needs the head; a body read in part is not JSON.
HasHead == reply.got \in {"head", "all"}
BodyRead == IF reply.got = "all" THEN reply.body ELSE "garbage"

Reading ==
    /\ reply.status # 0 /\ ~ReadEnded
    /\ \/ \E more \in {"some", "head", "all"} :
            /\ more # reply.got
            /\ reply.got = "head" => more = "all"
            /\ reply' = [reply EXCEPT !.got = more]
       \/ reply' = [reply EXCEPT !.cut = TRUE]
    /\ UNCHANGED <<pay, debits, outcome, copy>>

\* A request: connecting may fail, or the provider takes it and answers.
Sends(at, r) ==
    /\ pay.at = at /\ reply = NoReply
    /\ reply' = r
    /\ UNCHANGED <<pay, outcome, copy>>
Ends(o) ==
    /\ outcome' = o
    /\ pay' = [pay EXCEPT !.at = "over"]
    /\ reply' = NoReply
\* x402_err, and the ach rail's and the card rail's mapping of the same errors.
NotConnected ==
    /\ pay.at \in {"require", "pay", "verify", "settle", "authorize"} /\ reply = NoReply
    /\ Ends("retry")
    /\ UNCHANGED <<debits, copy>>
OnRailUnavailable == "retry"
OnMalformed == IF pay.rail = "ach" /\ pay.at \in {"verify", "settle"} THEN "retry" ELSE "refused"

-----------------------------------------------------------------------------
\* settle_http402, settle_card, settle_ach up to the first request.
StartAttempt(rail) ==
    /\ pay.at \in {"new", "over"}
    /\ pay.at = "over" => outcome = "retry" /\ rail = pay.rail
    /\ pay.try < MaxHttpTries
    /\ pay' = [pay EXCEPT !.at = IF rail = "card" THEN "authorize" ELSE "require",
                          !.rail = rail, !.try = @ + 1, !.value = 0]
    /\ outcome' = "none"
    /\ UNCHANGED <<reply, debits, copy>>

\* The gated resource: 402 and its requirements, or something else.
AskRequirements ==
    /\ \/ \E h \in {"none", "garbage", "no options"} :
            Sends("require", Answering(402, h, 0, "empty", TRUE, FALSE))
       \/ \E a \in Amounts_ : Sends("require", Answering(402, "requirements", a, "empty", TRUE, FALSE))
       \/ Sends("require", Answering(200, "none", 0, "empty", TRUE, FALSE))
    /\ UNCHANGED debits
\* execute, steps 1 to 3, and the split's first half with its local verify.
RequirementsRead ==
    /\ pay.at = "require" /\ ReadEnded
    /\ \/ ~HasHead /\ Ends(OnRailUnavailable) /\ UNCHANGED copy
       \/ HasHead /\ reply.header # "requirements" /\ Ends("refused") /\ UNCHANGED copy
       \/ /\ HasHead /\ reply.header = "requirements"
          /\ copy' = HybridSign(reply.amount, pay.try, pay.url)
          /\ \/ /\ pay.rail = "direct"
                /\ pay' = [pay EXCEPT !.at = "pay", !.value = reply.amount]
                /\ reply' = NoReply /\ UNCHANGED outcome
             \/ /\ pay.rail # "direct"
                /\ ~VerifySignedPayload(HybridSign(reply.amount, pay.try, pay.url), pay.url, pay.amount)
                /\ Ends("refused")
             \/ /\ pay.rail # "direct"
                /\ VerifySignedPayload(HybridSign(reply.amount, pay.try, pay.url), pay.url, pay.amount)
                /\ pay' = [pay EXCEPT !.at = "verify", !.value = reply.amount]
                /\ reply' = NoReply /\ UNCHANGED outcome
    /\ UNCHANGED debits

\* The second request of the direct handshake; the receipt comes in a header.
TakeCharge(yes) == debits' = IF yes THEN debits \union {[try |-> pay.try, value |-> pay.value]} ELSE debits
PayResource ==
    \E h \in {"none", "success", "settlement_pending", "failed"}, length \in BOOLEAN :
        /\ Sends("pay", Answering(IF h = "success" THEN 200 ELSE 402, h, 0, "empty", length, FALSE))
        /\ TakeCharge(h = "success")
X402StatusEager(receipt) ==
    IF receipt \in {"success", "settlement_pending"} THEN "settled" ELSE "refused"
X402Status(receipt) ==
    CASE receipt = "success" -> "settled"
      [] receipt = "settlement_pending" -> "action"
      [] OTHER -> "refused"
PaymentResponseRead ==
    /\ pay.at = "pay" /\ ReadEnded
    /\ Ends(IF HasHead THEN X402Status(reply.header) ELSE OnRailUnavailable)
    /\ UNCHANGED <<debits, copy>>

\* facilitator_verify.
PostVerify ==
    /\ \E b \in {"ok", "no"}, length \in BOOLEAN :
         Sends("verify", Answering(200, "none", 0, b, length, FALSE))
    /\ UNCHANGED debits
VerifyRead ==
    /\ pay.at = "verify" /\ ReadEnded
    /\ \/ ~HasHead /\ Ends(OnRailUnavailable)
       \/ HasHead /\ BodyRead = "garbage" /\ Ends(OnMalformed)
       \/ HasHead /\ BodyRead = "no" /\ Ends("refused")
       \/ /\ HasHead /\ BodyRead = "ok"
          /\ pay' = [pay EXCEPT !.at = "settle"] /\ reply' = NoReply /\ UNCHANGED outcome
    /\ UNCHANGED <<debits, copy>>

\* facilitator_settle: the receipt is the PAYMENT-RESPONSE header or the body.
PostSettle ==
    \E s \in {"success", "settlement_pending", "failed"}, inHeader, length, retry \in BOOLEAN :
        /\ Sends("settle", Answering(200, IF inHeader THEN s ELSE "none", 0,
                                     IF inHeader THEN "empty" ELSE s, length, retry))
        /\ TakeCharge(s = "success")
SettleOutcome(receipt) ==
    IF receipt = "failed" /\ reply.retryAfter THEN "retry" ELSE X402Status(receipt)
SettleRead ==
    /\ pay.at = "settle" /\ ReadEnded
    /\ LET receipt == IF reply.header # "none" THEN reply.header ELSE BodyRead IN
       \/ ~HasHead /\ Ends(OnRailUnavailable)
       \/ HasHead /\ receipt = "garbage" /\ Ends(OnMalformed)
       \/ HasHead /\ receipt # "garbage" /\ Ends(SettleOutcome(receipt))
    /\ UNCHANGED <<debits, copy>>

\* card::authorize; the provider knows the order's id and charges it once.
PostAuthorize ==
    \/ \E s \in {"success", "settlement_pending", "failed"}, length \in BOOLEAN :
         /\ Sends("authorize", Answering(200, "none", 0, s, length, FALSE))
         /\ debits' = IF s = "success" THEN {[try |-> 1, value |-> pay.amount]} ELSE debits
    \/ Sends("authorize", Answering(500, "none", 0, "empty", TRUE, FALSE)) /\ UNCHANGED debits
AuthorizeRead ==
    /\ pay.at = "authorize" /\ ReadEnded
    /\ \/ (~HasHead \/ reply.status = 500) /\ Ends(OnRailUnavailable)
       \/ HasHead /\ reply.status # 500 /\ BodyRead = "garbage" /\ Ends(OnMalformed)
       \/ HasHead /\ reply.status # 500 /\ BodyRead # "garbage" /\ Ends(X402Status(BodyRead))
    /\ UNCHANGED <<debits, copy>>

\* A payload presented at another endpoint, its resource field rewritten or not.
CopyMoves ==
    /\ copy.on
    /\ \E url \in Endpoints : copy' = [copy EXCEPT !.resource = url]
    /\ UNCHANGED <<pay, reply, debits, outcome>>

HttpInit ==
    /\ \E a \in Amounts_, url \in Endpoints :
         pay = [at |-> "new", rail |-> "none", amount |-> a, url |-> url, try |-> 0, value |-> 0]
    /\ reply = NoReply
    /\ debits = {}
    /\ outcome = "none"
    /\ copy = NoCopy
HttpNext ==
    \/ \E rail \in HttpRails : StartAttempt(rail)
    \/ AskRequirements \/ RequirementsRead \/ PayResource \/ PaymentResponseRead
    \/ PostVerify \/ VerifyRead \/ PostSettle \/ SettleRead \/ PostAuthorize \/ AuthorizeRead
    \/ Reading \/ NotConnected \/ CopyMoves

HttpSpec == HttpInit /\ [][HttpNext]_httpVars

-----------------------------------------------------------------------------
Charged == \E c \in debits : c.try = pay.try
\* An attempt is reported settled only when the provider charged that very attempt
\* (the card's provider, that very order), however the reply was cut into reads.
SettledMeansCharged ==
    outcome = "settled" => debits # {} /\ (pay.rail # "card" => Charged)

\* Whatever amount the resource asked for, the split and the ach rail let the provider
\* charge the order's own amount or nothing (verify_signed_payload's expected_amount).
ChargesAreTheOrders ==
    pay.rail \in {"split", "ach", "card"} => \A c \in debits : c.value = pay.amount

\* A signed payment verifies only at the endpoint it was signed for, even when its
\* resource field was rewritten on the way (authorization_canonical covers the URL).
PaymentsStayAtTheirEndpoint ==
    copy.on => \A url \in Endpoints : VerifyPaymentPayload(copy, url) => url = copy.url

\* What is charged is what was asked for and reported: settled means charged, for
\* the order's amount, at the endpoint the payment was signed for.
ChargesAreGenuine == SettledMeansCharged /\ ChargesAreTheOrders /\ PaymentsStayAtTheirEndpoint
=============================================================================
