------------------------------ MODULE Attestation ------------------------------
(***************************************************************************)
(* Who vouches for whom: the delegations of an identity (origin-identity), *)
(* the endorsement graph, the registry that holds endorsements, and the    *)
(* cookies an unknown initiator must return (origin-attest).               *)
(***************************************************************************)
EXTENDS Naturals, FiniteSets, Sequences, Bags, SequencesExt

-----------------------------------------------------------------------------
(***************************************************************************)
(* Delegation chains of origin-identity (delegation.rs, capabilities.rs).  *)
(* A parent signs a bounded grant to a child; a verifier accepts a chain   *)
(* of grants that starts at a root it trusts and computes what the last    *)
(* child may do.  A link names its parent's fingerprint and carries the    *)
(* key it was signed with; only the root link's key is compared with the   *)
(* one the verifier holds.  Chains are put together by the caller: here    *)
(* every sequence of issued links is presented to every verifier.          *)
(***************************************************************************)
CONSTANTS Idents,           \* fingerprints, each with its own key bundle
          TrustedRoots,     \* the roots whose key the verifier holds
          Capabilities,     \* the bits of a CapabilitySet
          MaxDepth,         \* MAX_DELEGATION_DEPTH
          Requests,         \* bound: the arguments issue_scoped is called with
          LastSecond,       \* bound: the clock stops here
          MaxIssued         \* bound: grants issued

VARIABLES issued,           \* the signed delegations in existence
          second            \* now_secs

delegVars == <<issued, second>>

\* audience and resource_scope of a link, and of a verification: None is Unscoped.
Unscoped == "any"
Verifiers == {Unscoped} \union TrustedRoots
Resources == {Unscoped} \union {r.scope : r \in Requests}

\* SignedDelegation::issue_scoped: a zero ttl is refused; issued_at + ttl is
\* checked.  The key bundle and the fingerprint of the parent are two arguments,
\* and the nonce is drawn afresh.
IssueScoped(r) ==
    /\ Cardinality(issued) < MaxIssued
    /\ r.ttl > 0
    /\ issued' = issued \union
          {[key |-> r.key, parent |-> r.parent, child |-> r.child, caps |-> r.caps,
            audience |-> r.audience, scope |-> r.scope, expires |-> second + r.ttl,
            nonce |-> Cardinality(issued) + 1]}

\* is_expired.
IsExpired(link, now) == link.expires <= now

\* is_scoped_to: a link with an audience is only for that verifier, one with a
\* resource only for a verification that names that resource.
IsScopedTo(link, verifier, resource) ==
    /\ link.audience # Unscoped => verifier = link.audience
    /\ link.scope # Unscoped => resource = link.scope

\* CapabilitySet::intersect folded over the links, starting from all().
Effective(chain) == FoldLeft(LAMBDA caps, link : caps \intersect link.caps, Capabilities, chain)

\* DelegationChain::verify accepts: depth, the root's fingerprint and key,
\* connectivity by fingerprint, expiry.  A link's signature verifies under the key
\* it carries itself, so beyond the root it says nothing about the parent's key.
Verifies(chain, now) ==
    /\ Len(chain) \in 1..MaxDepth
    /\ chain[1].parent \in TrustedRoots
    /\ chain[1].key = chain[1].parent
    /\ \A i \in 1..(Len(chain) - 1) : chain[i + 1].parent = chain[i].child
    /\ \A i \in 1..Len(chain) : ~IsExpired(chain[i], now)

\* verify_scoped: every link's scope and then every link's nonce against those
\* the caller has seen, then the chain.
VerifyScoped(chain, now, verifier, resource, seen) ==
    /\ \A i \in 1..Len(chain) : IsScopedTo(chain[i], verifier, resource)
    /\ \A i \in 1..Len(chain) : chain[i].nonce \notin seen
    /\ Verifies(chain, now)

\* Chains a caller can assemble, one link longer than any accepted one.
ChainsOf(links) == UNION {[1..n -> links] : n \in 0..(MaxDepth + 1)}

\* The grants a verifier accepts, chain by chain: who holds what.
Accepted(now, verifier, resource, seen) ==
    UNION {{c[Len(c)].child} \X Effective(c) :
              c \in {d \in ChainsOf(issued) : VerifyScoped(d, now, verifier, resource, seen)}}

DelegationInit == issued = {} /\ second = 0

SecondPasses == second < LastSecond /\ second' = second + 1 /\ UNCHANGED issued

Issues == (\E r \in Requests : IssueScoped(r)) /\ UNCHANGED second

DelegationNext == SecondPasses \/ Issues
DelegationSpec == DelegationInit /\ [][DelegationNext]_delegVars

-----------------------------------------------------------------------------
\* The links that hand a capability on to a verifier that is asked about a resource
\* now and has seen these nonces.
HandsOn(cap, now, verifier, resource, seen) ==
    {l \in issued : /\ cap \in l.caps /\ now < l.expires /\ l.nonce \notin seen
                    /\ l.audience \in {Unscoped, verifier} /\ l.scope \in {Unscoped, resource}}

\* Whom a capability reaches in at most n hand-overs, the first of them made by a
\* trusted root under its own key.
Reaches(n, links) ==
    LET first == {l.child : l \in {k \in links : k.parent \in TrustedRoots /\ k.key = k.parent}}
        reach[k \in 1..n] ==
            IF k = 1 THEN first
            ELSE first \union {l.child : l \in {m \in links : m.parent \in reach[k - 1]}}
    IN reach[n]

\* Chain verification is exact: a verifier accepts an identity for a capability
\* just when that capability reached it in at most MAX_DELEGATION_DEPTH hand-overs
\* that are unexpired, grant it, are meant for this verifier and resource and were
\* not seen before, of which a trusted root signed the first (delegation.rs verify,
\* verify_scoped).  The later ones are connected by fingerprint only: which key
\* signed them decides nothing, as the module's head says (delegation.rs:12-20).
AuthorityIsDelegated ==
    \A v \in Verifiers, r \in Resources, seen \in SUBSET {l.nonce : l \in issued} :
        Accepted(second, v, r, seen) =
            UNION {Reaches(MaxDepth, HandsOn(c, second, v, r, seen)) \X {c} : c \in Capabilities}

-----------------------------------------------------------------------------
(***************************************************************************)
(* origin-attest: the endorsement graph and the trust it gives (trust.rs,  *)
(* types.rs).  Scores are abstracted to whether they are positive: every   *)
(* endorsement has a positive confidence, the damping factor and the       *)
(* balancing factors are positive, so a score is positive just when some   *)
(* propagation step reached the agent.                                     *)
(***************************************************************************)
CONSTANTS Fps,               \* agent fingerprints
          SeedFps,           \* the agents trusted directly
          Fields,            \* capability domains
          MaxHops,           \* max_hops of the configuration
          Threshold,         \* Tier-2 endorsements needed to issue Tier-2 ones
          Offers,            \* bound: what endorsements say, apart from the two agents
          LastDay,           \* bound: the clock stops here
          MaxEndorsements    \* bound: endorsements added

VARIABLES given,             \* the nodes' endorsements_given, one bag
          day                \* now_secs

trustVars == <<given, day>>

\* Endorsement::is_valid: not a revocation, and not past valid_until (0: never).
IsValid(e, now) == ~e.revocation /\ ~(e.until # 0 /\ now > e.until)

\* The edges that carry trust in a domain.
IsVouch(e, field, now) == e.tier = 2 /\ e.field = field /\ IsValid(e, now)

Neighbours(fp, field, now) ==
    {e.to : e \in {g \in BagToSet(given) : g.from = fp /\ IsVouch(g, field, now)}}

\* One round of trust_score's queue: every entry <<agent, depth, visited>> that is
\* not too deep scores its neighbours, and queues those it has not visited.
Deep(entry) == entry.depth >= MaxHops

Score(entries, field, now) ==
    UNION {Neighbours(q.fp, field, now) : q \in {r \in entries : ~Deep(r)}}
Requeued(entries, field, now) ==
    UNION {{[fp |-> n, depth |-> q.depth + 1, visited |-> q.visited \union {n}] :
               n \in Neighbours(q.fp, field, now) \ q.visited} :
               q \in {r \in entries : ~Deep(r)}}

\* trust_score(fp, field) > 0 for these agents; a seed scores 1 at once.
Scored(field, now) ==
    LET queue[k \in 0..Cardinality(Fps)] ==
            IF k = 0 THEN {[fp |-> s, depth |-> 0, visited |-> {s}] : s \in SeedFps}
            ELSE Requeued(queue[k - 1], field, now)
    IN SeedFps \union UNION {Score(queue[k], field, now) : k \in 0..Cardinality(Fps)}

\* shortest_trust_path: breadth first with one visited set; the length of the
\* path found, or Far when there is none.
Far == Cardinality(Fps) + 1
PathLength(from, to, field, now) ==
    LET layer[k \in 0..Cardinality(Fps)] ==
            IF k = 0 THEN [seen |-> {from}, front |-> {from}]
            ELSE LET last == layer[k - 1]
                     front == UNION {Neighbours(f, field, now) : f \in last.front} \ last.seen
                 IN [seen |-> last.seen \union front, front |-> front]
        hits == {k \in 0..Cardinality(Fps) : to \in layer[k].front}
    IN IF hits = {} THEN Far ELSE CHOOSE k \in hits : \A j \in hits : k <= j

\* can_issue_tier2 and can_issue_tier2_in_domain count valid Tier-2 endorsements
\* received, in any domain or in one; an endorsement added twice counts twice.
Received(fp, fields, now) ==
    BagCardinality([e \in {g \in BagToSet(given) :
                            g.to = fp /\ \E f \in fields : IsVouch(g, f, now)} |-> given[e]])
CanIssueTier2(fp, now) == Received(fp, Fields, now) >= Threshold
CanIssueTier2InDomain(fp, field, now) == Received(fp, {field}, now) >= Threshold

-----------------------------------------------------------------------------
TrustInit == given = EmptyBag /\ day = 1

\* add_endorsement: both nodes are made when missing and get the endorsement, which
\* is pushed whether or not they hold it already.
AddEndorsement ==
    /\ BagCardinality(given) < MaxEndorsements
    /\ \E from, to \in Fps, offer \in Offers :
          given' = given (+) SetToBag(
              {[from |-> from, to |-> to, field |-> offer.field, tier |-> offer.tier,
                until |-> offer.until, revocation |-> offer.revocation]})
    /\ UNCHANGED day

DayPasses == day < LastDay /\ day' = day + 1 /\ UNCHANGED given

TrustNext == AddEndorsement \/ DayPasses
TrustSpec == TrustInit /\ [][TrustNext]_trustVars

-----------------------------------------------------------------------------
\* The two searches of trust.rs agree: trust_score is positive for an agent just
\* when shortest_trust_path finds a path of at most max_hops endorsements to it
\* from a seed, whatever cycles and expired edges the graph holds.
TrustFollowsPaths ==
    \A f \in Fields :
        Scored(f, day) = {a \in Fps : \E s \in SeedFps : PathLength(s, a, f, day) <= MaxHops}

\* Trust is per domain (trust.rs:3-5 "Trust propagates only through Tier-2
\* endorsements"): whoever is trusted in a domain beyond the seeds has received
\* a valid Tier-2 endorsement in that very domain.  Nobody may issue Tier-2 in a
\* domain for endorsements that have all expired or were revocations, however
\* often they were added.
TrustStaysInItsDomain ==
    LET Vouched(a, f) == \E e \in BagToSet(given) :
            /\ e.to = a /\ e.field = f /\ e.tier = 2 /\ ~e.revocation
            /\ (e.until = 0 \/ day <= e.until)
    IN \A f \in Fields :
          /\ \A a \in Scored(f, day) \ SeedFps : Vouched(a, f)
          /\ \A a \in Fps : CanIssueTier2InDomain(a, f, day) => Vouched(a, f) /\ CanIssueTier2(a, day)

-----------------------------------------------------------------------------
(***************************************************************************)
(* origin-attest: the agent registry with its hash-chained endorsement     *)
(* logs (registry.rs, types.rs).                                           *)
(***************************************************************************)
CONSTANTS Registrants,      \* agent fingerprints
          MaxNonce,         \* bound: endorsements of one agent for another that differ
          MaxCalls          \* bound: registry calls

VARIABLES records,          \* AgentRegistry.agents; Unknown for an absent one
          calls,
          half,             \* history: adds that returned an error after the first write
          forgotten         \* history: agents whose record was replaced or removed

agentVars == <<records, calls, half, forgotten>>

Unknown == [known |-> FALSE, given |-> <<>>, received |-> <<>>, chain |-> <<>>]

\* EndorsementChain: the hash of an entry stands for the log up to it, and the first
\* entry follows the zero hash.
TipHash(chain) == IF chain = <<>> THEN <<>> ELSE Last(chain).hash
ChainAppend(chain, e) ==
    Append(chain, [prev |-> TipHash(chain), hash |-> Append(TipHash(chain), e)])
VerifyIntegrity(chain) ==
    \A i \in 1..Len(chain) : chain[i].prev = IF i = 1 THEN <<>> ELSE chain[i - 1].hash

Call == calls < MaxCalls /\ calls' = calls + 1

\* register: a fresh record replaces whatever was known of the agent.
RegisterAgent(fp) ==
    /\ Call
    /\ records' = [records EXCEPT ![fp] = [Unknown EXCEPT !.known = TRUE]]
    /\ forgotten' = IF records[fp].known THEN forgotten \union {fp} ELSE forgotten
    /\ UNCHANGED half

RemoveAgent(fp) ==
    /\ Call
    /\ records[fp].known
    /\ records' = [records EXCEPT ![fp] = Unknown]
    /\ forgotten' = forgotten \union {fp}
    /\ UNCHANGED half

\* add_endorsement: the endorser's side first; a missing endorsee is an error
\* that leaves the endorser's side written.
GiveSide(recs, e) ==
    [recs EXCEPT ![e.from].given = Append(@, e), ![e.from].chain = ChainAppend(@, e)]
ReceiveSide(recs, e) == [recs EXCEPT ![e.to].received = Append(@, e)]

AddToBothEndorseeFirst(e) ==
    /\ Call
    /\ records[e.to].known
    /\ records' = IF records[e.from].known THEN ReceiveSide(GiveSide(records, e), e)
                  ELSE ReceiveSide(records, e)
    /\ half' = IF records[e.from].known THEN half ELSE half (+) SetToBag({e})
    /\ UNCHANGED forgotten
AddToBoth(e) ==
    /\ Call
    /\ records[e.from].known
    /\ records' = IF records[e.to].known THEN ReceiveSide(GiveSide(records, e), e)
                  ELSE GiveSide(records, e)
    /\ half' = IF records[e.to].known THEN half ELSE half (+) SetToBag({e})
    /\ UNCHANGED forgotten

-----------------------------------------------------------------------------
AgentInit ==
    /\ records = [fp \in Registrants |-> Unknown]
    /\ calls = 0
    /\ half = EmptyBag
    /\ forgotten = {}

AgentNext ==
    \/ \E fp \in Registrants : RegisterAgent(fp) \/ RemoveAgent(fp)
    \/ \E f, t \in Registrants, n \in 1..MaxNonce : AddToBoth([from |-> f, to |-> t, nonce |-> n])
AgentSpec == AgentInit /\ [][AgentNext]_agentVars

-----------------------------------------------------------------------------
\* The two sides of the registry differ by the adds that failed half-way and by
\* nothing else: an endorsement stands with its endorser once for every add that
\* found the endorsee and once more for every one that did not, so that a retry
\* after such an error leaves it with the endorser twice; as long as neither record
\* was replaced or removed since.  The endorser's log holds what its list holds and
\* verifies (registry.rs:114-131).
SidesDifferByFailures ==
    /\ \A fp \in Registrants :
          /\ VerifyIntegrity(records[fp].chain)
          /\ TipHash(records[fp].chain) = records[fp].given
    /\ \A f, t \in Registrants \ forgotten, n \in 1..MaxNonce :
          LET e == [from |-> f, to |-> t, nonce |-> n]
              Times(list) == Cardinality({i \in 1..Len(list) : list[i] = e})
          IN Times(records[f].given) = Times(records[t].received) + CopiesIn(e, half)

-----------------------------------------------------------------------------
(***************************************************************************)
(* origin-attest cookie.rs: the cookies by which a responder makes an      *)
(* unknown initiator prove its address, under a secret that rotates, and   *)
(* the gate of origin-network around them (gate.rs).                       *)
(***************************************************************************)
CONSTANTS Sources,          \* source addresses of initiators
          MaxRotations,     \* bound: rotations
          LastInstant       \* bound: the responder's clock, in seconds

VARIABLES cookies,          \* CookieSecret: current, previous (0: None), rotations, failed
          instant,          \* the responder's clock
          challenges        \* cookies handed out

cookieVars == <<cookies, instant, challenges>>

\* generate_at: the cookie binds the secret, the address and the second.
Generate(secret, source, at) == [secret |-> secret, source |-> source, at |-> at]

\* verify_at: under the current secret, then under the previous one.
VerifyCookie(source, cookie, at) ==
    \/ cookie = Generate(cookies.current, source, at)
    \/ cookies.previous # 0 /\ cookie = Generate(cookies.previous, source, at)

\* An initiator is challenged.
Challenge ==
    /\ \E s \in Sources : challenges' = challenges \union {Generate(cookies.current, s, instant)}
    /\ UNCHANGED <<cookies, instant>>

\* force_rotate: previous becomes current before the new secret is drawn, so a
\* failing CSPRNG leaves both equal (and last_rotation as it was).
DrawAndKeep(kept) ==
    /\ cookies.rotations < MaxRotations
    /\ \E failed \in BOOLEAN :
          cookies' = [previous |-> kept, failed |-> failed, rotations |-> cookies.rotations + 1,
                      current |-> cookies.current + IF failed THEN 0 ELSE 1]
    /\ UNCHANGED <<instant, challenges>>
ForceRotate == DrawAndKeep(cookies.current)

InstantPasses == instant < LastInstant /\ instant' = instant + 1 /\ UNCHANGED <<cookies, challenges>>

CookiesInit == /\ cookies = [current |-> 1, previous |-> 0, rotations |-> 0, failed |-> FALSE]
               /\ instant = 0
               /\ challenges = {}
CookiesNext == Challenge \/ ForceRotate \/ InstantPasses
CookiesSpec == CookiesInit /\ [][CookiesNext]_cookieVars

-----------------------------------------------------------------------------
\* A cookie is accepted for its own address and second only.  It survives one
\* rotation of the secret within that second, unless a draw of a new secret has
\* failed since, and never two (cookie.rs verify_at, force_rotate).
CookiesSurviveOneRotation ==
    \A c \in challenges, s \in Sources :
        /\ VerifyCookie(s, c, instant) =>
              s = c.source /\ c.at = instant /\ c.secret >= cookies.current - 1
        /\ (/\ s = c.source /\ c.at = instant
            /\ c.secret = cookies.current \/ (c.secret = cookies.current - 1 /\ ~cookies.failed))
           => VerifyCookie(s, c, instant)

\* Nobody is believed without a voucher, and every voucher counts for just what it
\* says: delegations, endorsements in the graph and in the registry, cookies.
VouchersCount ==
    /\ AuthorityIsDelegated
    /\ TrustFollowsPaths /\ TrustStaysInItsDomain /\ SidesDifferByFailures
    /\ CookiesSurviveOneRotation
=============================================================================
