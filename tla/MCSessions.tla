------------------------------ MODULE MCSessions ------------------------------
(***************************************************************************)
(* Small instances of what decides who may talk to whom, and whether what  *)
(* is heard is new: the ratcheted channel over datagrams and its replay    *)
(* window, the demultiplexer, the relay daemon's bans and buckets,         *)
(* cookies, delegations, endorsements and the registry that holds them.    *)
(* One of the parts runs in each behaviour, chosen at the start; the       *)
(* variables of the others stay as their Init has them.                    *)
(***************************************************************************)
EXTENDS Channel, ReplayWindow, Demux, RelayDaemon, Attestation

CONSTANT Parts

VARIABLE part

\* ReplayWindow: numbers past two windows.
MCSeqs == 0..11

\* Delegation: grants along the chain r, a, b and back, full and narrower, short and
\* long, for one verifier or resource, and signed under another key than the parent's.
Requested(key, parent, child, caps, ttl, audience, scope) ==
    [key |-> key, parent |-> parent, child |-> child, caps |-> caps, ttl |-> ttl,
     audience |-> audience, scope |-> scope]
MCRequests == {
    Requested("r", "r", "a", {1, 2}, 2, Unscoped, Unscoped), Requested("r", "r", "a", {1}, 1, Unscoped, Unscoped),
    Requested("r", "r", "b", {1, 2}, 2, "r", Unscoped), Requested("a", "r", "b", {1, 2}, 2, Unscoped, Unscoped),
    Requested("a", "a", "b", {1, 2}, 2, Unscoped, "x"), Requested("a", "a", "b", {2}, 1, Unscoped, Unscoped),
    Requested("b", "a", "b", {1, 2}, 2, Unscoped, Unscoped), Requested("b", "b", "a", {1, 2}, 2, "r", "x"),
    Requested("b", "b", "r", {1, 2}, 2, Unscoped, Unscoped), Requested("a", "a", "a", {1, 2}, 0, Unscoped, Unscoped)}

\* TrustGraph: endorsements that last, expire, revoke, are for another field or weak.
Offered(field, tier, until, revocation) ==
    [field |-> field, tier |-> tier, until |-> until, revocation |-> revocation]
MCOffers == {Offered(1, 2, 0, FALSE), Offered(1, 2, 1, FALSE), Offered(1, 2, 0, TRUE),
             Offered(2, 2, 0, FALSE), Offered(2, 1, 0, FALSE)}

-----------------------------------------------------------------------------
sessionVars == <<part, vars, windowVars, muxVars, daemonVars, cookieVars, delegVars,
    trustVars, agentVars>>

SessionsInit ==
    /\ part \in Parts
    /\ Init /\ WindowInit /\ MuxInit /\ DaemonInit
    /\ CookiesInit /\ DelegationInit /\ TrustInit /\ AgentInit

SessionsNext ==
    \/ /\ part = "channel" /\ Next
       /\ UNCHANGED <<part, windowVars, muxVars, daemonVars, cookieVars, delegVars, trustVars,
                      agentVars>>
    \/ /\ part = "window" /\ WindowNext
       /\ UNCHANGED <<part, vars, muxVars, daemonVars, cookieVars, delegVars, trustVars,
                      agentVars>>
    \/ /\ part = "demux" /\ MuxNext
       /\ UNCHANGED <<part, vars, windowVars, daemonVars, cookieVars, delegVars, trustVars,
                      agentVars>>
    \/ /\ part = "relayd" /\ DaemonNext
       /\ UNCHANGED <<part, vars, windowVars, muxVars, cookieVars, delegVars, trustVars,
                      agentVars>>
    \/ /\ part = "cookies" /\ CookiesNext
       /\ UNCHANGED <<part, vars, windowVars, muxVars, daemonVars, delegVars, trustVars,
                      agentVars>>
    \/ /\ part = "delegation" /\ DelegationNext
       /\ UNCHANGED <<part, vars, windowVars, muxVars, daemonVars, cookieVars, trustVars,
                      agentVars>>
    \/ /\ part = "trust" /\ TrustNext
       /\ UNCHANGED <<part, vars, windowVars, muxVars, daemonVars, cookieVars, delegVars,
                      agentVars>>
    \/ /\ part = "agents" /\ AgentNext
       /\ UNCHANGED <<part, vars, windowVars, muxVars, daemonVars, cookieVars, delegVars,
                      trustVars>>

SessionsSpec == SessionsInit /\ [][SessionsNext]_sessionVars
=============================================================================
