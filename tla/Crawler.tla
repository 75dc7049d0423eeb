------------------------------ MODULE Crawler ------------------------------
(***************************************************************************)
(* origin-crawler: workers over one shared frontier (crawler.rs,           *)
(* frontier.rs), the corpus of bodies and sidecars they fill (sidecar.rs), *)
(* later runs with --resume, and `corpus --prune` (corpus.rs).  A URL has  *)
(* a host, links and, per day, a body; a body stands for its BLAKE3 hash.  *)
(***************************************************************************)
EXTENDS Naturals, FiniteSets, Sequences, SequencesExt

CONSTANTS Workers,
          Urls,
          SeedUrls,           \* the seeds, and what the sitemaps add to them
          HostOf,             \* url -> host
          LinksOf,            \* url -> urls its page links to
          BodyOn,             \* day -> url -> body served
          Disallowed,         \* urls robots.txt rules out
          Configs,            \* [max_pages, max_pages_per_host] a run may be given
          MaxDepth_,
          Delay,              \* delay_ms, in ticks
          StaleDays,
          LastDay_,           \* bound: days
          MaxRuns,            \* bound: crawls and prunes
          MaxCrawls,          \* bound: crawls among them
          MaxFaults_          \* bound: failed requests and writes, crashes, slow moments

VARIABLES frontier,           \* the heap: [depth, foreign, seq, url]
          crawl,              \* SharedState of the running crawl
          task,               \* the workers
          sidecarLock,
          ticks,              \* the clock politeness slots are measured on
          bodies, partial,    \* body files, and those not written to the end
          sidecars, torn,     \* body -> sources listed; sidecars a write left unreadable
          pruner,             \* corpus --prune: stage and plan
          today,
          left,               \* runs, crawls and faults left
          asked,              \* history: host -> its first slot, and the requests made of it
          noted,              \* history: sources recorded, with the day last seen
          cuts                \* history: sidecar writes that failed, and kills

crawlerVars == <<frontier, crawl, task, sidecarLock, ticks, bodies, partial, sidecars, torn,
                 pruner, today, left, asked, noted, cuts>>
diskVars == <<bodies, partial, sidecars, torn, noted, cuts>>

Hosts == {HostOf[u] : u \in Urls}
AllBodies == UNION {{BodyOn[d][u] : u \in Urls} : d \in DOMAIN BodyOn}
Free == "free"
Resting(pc) == [pc |-> pc, url |-> CHOOSE u \in Urls : TRUE, depth |-> 0, until |-> 0, doc |-> {}]
NoPlan == [stage |-> "idle", bodies |-> {}, sidecars |-> {}, rewrites |-> {}]
NotAsked == [first |-> <<>>, pages |-> 0, robots |-> 0]
Later(a, b) == IF a >= b THEN a ELSE b

\* Frontier::push: seen URLs are dropped; seed hosts come first at equal depth.
Foreign(u) == IF HostOf[u] \in {HostOf[s] : s \in Range(SeedUrls)} THEN 0 ELSE 1
PushAll(heap, seen, urls, depth) ==
    LET new == SelectSeq(urls, LAMBDA u : u \notin seen)
        once == SelectSeq([i \in 1..Len(new) |-> IF \E j \in 1..(i-1) : new[j] = new[i]
                                                 THEN <<>> ELSE <<new[i]>>], LAMBDA e : e # <<>>) IN
    heap \union {[depth |-> depth, foreign |-> Foreign(once[i][1]),
                  seq |-> Cardinality(seen) + i, url |-> once[i][1]] : i \in 1..Len(once)}

\* Entry's order: depth, then host class, then arrival.
Before(a, b) ==
    \/ a.depth < b.depth
    \/ a.depth = b.depth /\ a.foreign < b.foreign
    \/ a.depth = b.depth /\ a.foreign = b.foreign /\ a.seq <= b.seq
PopFirst(heap) == CHOOSE e \in heap : \A o \in heap : Before(e, o)

\* load_url_validators: one stored body per URL whose source carries validators;
\* which one is up to the order the directory is read in.
Validators == {v \in [Urls -> {<<>>} \union {<<b>> : b \in AllBodies}] :
                 \A u \in Urls :
                     LET tagged == {b \in AllBodies \ torn :
                                      \E s \in sidecars[b] : s.url = u /\ s.tagged} IN
                     IF tagged = {} THEN v[u] = <<>> ELSE \E b \in tagged : v[u] = <<b>>}

\* load_saved_hashes: the body files' names, whatever is in the files.
LoadSavedHashes == bodies

Spend_(kind) == left[kind] > 0 /\ left' = [left EXCEPT ![kind] = @ - 1]
NoCrawl == [seen |-> {}, contentSeen |-> {}, validators |-> [u \in Urls |-> <<>>],
            budget |-> 0, perHost |-> 0, inflight |-> 0, hostPages |-> [h \in Hosts |-> 0],
            nextOk |-> [h \in Hosts |-> <<>>], robots |-> {}, open |-> {}, pages |-> <<>>,
            failed |-> 0, duplicates |-> 0, blocked |-> 0, quota |-> 0,
            revalidated |-> 0, unbudgeted |-> 0]
Running == \E w \in Workers : task[w].pc \notin {"off", "done"}

\* The crawl's process is gone, and its memory with it.
Gone ==
    /\ task' = [w \in Workers |-> Resting("off")]
    /\ crawl' = NoCrawl
    /\ ticks' = 0
    /\ asked' = [h \in Hosts |-> NotAsked]

-----------------------------------------------------------------------------
\* run: with or without --resume; seeds and sitemap entries enter at depth 0.
StartCrawl(resume, config) ==
    /\ left.runs > 0 /\ left.crawls > 0
    /\ left' = [left EXCEPT !.runs = @ - 1, !.crawls = @ - 1]
    /\ ~Running /\ pruner.stage \in {"idle", "done"}
    /\ pruner' = NoPlan
    /\ \E v \in IF resume THEN Validators ELSE {[u \in Urls |-> <<>>]} :
         crawl' = [NoCrawl EXCEPT !.seen = Range(SeedUrls), !.validators = v,
                                  !.contentSeen = IF resume THEN LoadSavedHashes ELSE {},
                                  !.budget = config.pages, !.perHost = config.perHost]
    /\ frontier' = PushAll({}, {}, SeedUrls, 0)
    /\ task' = [w \in Workers |-> Resting("ready")]
    /\ asked' = [h \in Hosts |-> NotAsked]
    /\ ticks' = 0
    /\ UNCHANGED <<sidecarLock, today, diskVars>>

\* worker: pop, and leave only when nothing is queued and nobody is at work.
PopItem(w) ==
    /\ task[w].pc = "ready"
    /\ frontier # {}
    /\ LET e == PopFirst(frontier) IN
         /\ frontier' = frontier \ {e}
         /\ task' = [task EXCEPT ![w] = [Resting("popped") EXCEPT !.url = e.url, !.depth = e.depth]]
    /\ UNCHANGED <<crawl, sidecarLock, ticks, pruner, today, left, asked, diskVars>>

WorkerReturns(w) ==
    /\ task[w].pc = "ready"
    /\ frontier = {}
    /\ crawl.inflight = 0
    /\ task' = [task EXCEPT ![w] = Resting("done")]
    /\ UNCHANGED <<frontier, crawl, sidecarLock, ticks, pruner, today, left, asked, diskVars>>

\* inflight.fetch_add, and reserve_slot: the next slot is a delay after this one.
ReserveSlot(start) == Later(start, ticks) + Delay
TakeItem(w) ==
    /\ task[w].pc = "popped"
    /\ LET h == HostOf[task[w].url]
           start == IF crawl.nextOk[h] = <<>> THEN ticks ELSE crawl.nextOk[h][1] IN
         /\ crawl' = [crawl EXCEPT !.inflight = @ + 1, !.nextOk[h] = <<ReserveSlot(start)>>]
         /\ asked' = [asked EXCEPT ![h].first = IF @ = <<>> THEN <<ticks>> ELSE @]
         /\ task' = [task EXCEPT ![w].pc = "wait", ![w].until = start]
    /\ UNCHANGED <<frontier, sidecarLock, ticks, pruner, today, left, diskVars>>

\* process_item returns, having bumped one counter of the report.
Settled(c, counter) == [c EXCEPT ![counter] = @ + 1, !.inflight = @ - 1]
Settle(w, counter) ==
    /\ task' = [task EXCEPT ![w] = Resting("ready")]
    /\ crawl' = Settled(crawl, counter)

\* robots_for: the cache is read, or robots.txt fetched and cached; a failed fetch
\* is cached as "no rules", and whoever fetched goes by what it got.
RobotsRule(w, c, open) ==
    IF task[w].url \in Disallowed /\ ~open
    THEN task' = [task EXCEPT ![w] = Resting("ready")] /\ crawl' = Settled(c, "blocked")
    ELSE task' = [task EXCEPT ![w].pc = "fetch"] /\ crawl' = c
RobotsGate(w, c) ==
    LET h == HostOf[task[w].url] IN
    \/ /\ h \in c.robots
       /\ RobotsRule(w, c, h \in c.open)
       /\ UNCHANGED asked
    \/ /\ h \notin c.robots
       /\ task' = [task EXCEPT ![w].pc = "robots"]
       /\ crawl' = c
       /\ asked' = [asked EXCEPT ![h].robots = @ + 1]
RobotsFetched(w) ==
    /\ task[w].pc = "robots"
    /\ LET h == HostOf[task[w].url] IN
         \/ /\ UNCHANGED left
            /\ RobotsRule(w, [crawl EXCEPT !.robots = @ \union {h}, !.open = @ \ {h}], FALSE)
         \/ /\ Spend_("faults")
            /\ RobotsRule(w, [crawl EXCEPT !.robots = @ \union {h}, !.open = @ \union {h}], TRUE)
    /\ UNCHANGED <<frontier, sidecarLock, ticks, pruner, today, asked, diskVars>>

\* The slot comes; the host's quota is spent before robots.txt is looked at.
TakeQuota(w) ==
    /\ task[w].pc = "wait"
    /\ ticks' = Later(ticks, task[w].until)
    /\ LET h == HostOf[task[w].url] IN
         \/ /\ crawl.hostPages[h] >= crawl.perHost
            /\ Settle(w, "quota")
            /\ UNCHANGED asked
         \/ /\ crawl.hostPages[h] < crawl.perHost
            /\ RobotsGate(w, [crawl EXCEPT !.hostPages[h] = @ + 1])
    /\ UNCHANGED <<frontier, sidecarLock, pruner, today, left, diskVars>>

\* fetch: conditional when validators are known; then the content is deduplicated.
Body(w) == BodyOn[today][task[w].url]
SeenBefore(w) ==
    IF Body(w) \in crawl.contentSeen
    THEN task' = [task EXCEPT ![w].pc = "dup"] /\ UNCHANGED crawl
    ELSE /\ task' = [task EXCEPT ![w].pc = "budget"]
         /\ crawl' = [crawl EXCEPT !.contentSeen = @ \union {Body(w)}]
Fetch(w) ==
    /\ task[w].pc = "fetch"
    /\ \/ /\ crawl.validators[task[w].url] = <<Body(w)>>
          /\ Settle(w, "revalidated")
          /\ UNCHANGED left
       \/ /\ crawl.validators[task[w].url] # <<Body(w)>>
          /\ SeenBefore(w)
          /\ UNCHANGED left
       \/ /\ Spend_("faults")
          /\ Settle(w, "failed")
    /\ asked' = [asked EXCEPT ![HostOf[task[w].url]].pages = @ + 1]
    /\ UNCHANGED <<frontier, sidecarLock, ticks, pruner, today, diskVars>>

\* A duplicate is noted in the stored body's sidecar, if the body is on disk yet.
Duplicate(w) ==
    /\ task[w].pc = "dup"
    /\ \/ /\ Body(w) \notin bodies
          /\ Settle(w, "duplicates")
       \/ /\ Body(w) \in bodies
          /\ task' = [task EXCEPT ![w].pc = "dup-lock"]
          /\ UNCHANGED crawl
    /\ UNCHANGED <<frontier, sidecarLock, ticks, pruner, today, left, asked, diskVars>>

\* The budget is taken and the body's file created, then filled: another worker sees
\* it in between, and a write that fails leaves what it wrote.
TakeBudget(w) ==
    /\ task[w].pc = "budget"
    /\ \/ /\ crawl.budget = 0
          /\ Settle(w, "unbudgeted")
          /\ UNCHANGED <<bodies, partial, left>>
       \/ /\ crawl.budget > 0
          /\ crawl' = [crawl EXCEPT !.budget = @ - 1]
          /\ task' = [task EXCEPT ![w].pc = "fill"]
          /\ bodies' = bodies \union {Body(w)}
          /\ partial' = partial \union {Body(w)}
          /\ UNCHANGED left
       \/ /\ crawl.budget > 0
          /\ Spend_("faults")
          /\ task' = [task EXCEPT ![w] = Resting("ready")]
          /\ crawl' = Settled([crawl EXCEPT !.budget = @ - 1], "failed")
          /\ UNCHANGED <<bodies, partial>>
    /\ UNCHANGED <<frontier, sidecarLock, ticks, pruner, today, asked, sidecars, torn, noted, cuts>>
StoreBody(w) ==
    /\ task[w].pc = "fill"
    /\ \/ /\ partial' = partial \ {Body(w)}
          /\ task' = [task EXCEPT ![w].pc = "lock"]
          /\ UNCHANGED <<crawl, left>>
       \/ /\ Spend_("faults")
          /\ Settle(w, "failed")
          /\ UNCHANGED partial
    /\ UNCHANGED <<frontier, sidecarLock, ticks, pruner, today, asked, bodies, sidecars, torn, noted,
                   cuts>>

\* record_source, under sidecar_lock: read; an unreadable sidecar is left alone.
LockIgnored(w) == sidecarLock' = sidecarLock
LockSidecars(w) == sidecarLock = Free /\ sidecarLock' = w
ReadSidecar(w) ==
    /\ task[w].pc \in {"lock", "dup-lock"}
    /\ LockSidecars(w)
    /\ task' = [task EXCEPT ![w].doc = sidecars[Body(w)],
                            ![w].pc = IF @ = "lock" THEN "write" ELSE "dup-write"]
    /\ UNCHANGED <<frontier, crawl, ticks, pruner, today, left, asked, diskVars>>

\* ... write back with the source added or its last_seen refreshed; the storer
\* then records its page and queues the links one level down.
Recorded(doc, u, tagged) ==
    IF \E s \in doc : s.url = u
    THEN {IF s.url = u THEN [s EXCEPT !.last = today] ELSE s : s \in doc}
    ELSE doc \union {[url |-> u, last |-> today, tagged |-> tagged]}
Lost(b) == [sidecars EXCEPT ![b] = {}]
WriteSidecar(w) ==
    /\ task[w].pc \in {"write", "dup-write"}
    /\ sidecarLock' = Free
    /\ \/ /\ Body(w) \in torn
          /\ UNCHANGED <<sidecars, torn, noted, cuts, left>>
       \/ /\ Body(w) \notin torn
          /\ sidecars' = [sidecars EXCEPT ![Body(w)] =
                             Recorded(task[w].doc, task[w].url, task[w].pc = "write")]
          /\ noted' = {n \in noted : ~(n.url = task[w].url /\ n.body = Body(w))}
                         \union {[url |-> task[w].url, body |-> Body(w), last |-> today]}
          /\ UNCHANGED <<torn, cuts, left>>
       \/ /\ Body(w) \notin torn
          /\ Spend_("faults")
          /\ torn' = torn \union {Body(w)} /\ sidecars' = Lost(Body(w))
          /\ cuts' = cuts + 1
          /\ UNCHANGED noted
    /\ IF task[w].pc = "dup-write" THEN Settle(w, "duplicates") /\ UNCHANGED frontier
       ELSE LET links == IF task[w].depth >= MaxDepth_ THEN <<>> ELSE LinksOf[task[w].url] IN
            /\ frontier' = PushAll(frontier, crawl.seen, links, task[w].depth + 1)
            /\ crawl' = [crawl EXCEPT !.pages = Append(@, [url |-> task[w].url, body |-> Body(w)]),
                                      !.seen = @ \union Range(links), !.inflight = @ - 1]
            /\ task' = [task EXCEPT ![w] = Resting("ready")]
    /\ UNCHANGED <<ticks, pruner, today, asked, bodies, partial>>

-----------------------------------------------------------------------------
\* The crawl is killed: bodies being filled stay as they are, and a sidecar being
\* written over is lost, for the write truncates the file it replaces.
CrawlDies ==
    /\ Running
    /\ Spend_("faults")
    /\ Gone
    /\ sidecarLock' = Free
    /\ frontier' = {}
    /\ cuts' = cuts + 1
    /\ \E cut \in SUBSET {w \in Workers : task[w].pc \in {"write", "dup-write"}} :
         /\ torn' = torn \union {Body(w) : w \in cut}
         /\ sidecars' = [b \in AllBodies |-> IF b \in torn' THEN {} ELSE sidecars[b]]
    /\ UNCHANGED <<pruner, today, bodies, partial, noted>>

SlowMoment ==
    /\ Running
    /\ Spend_("faults")
    /\ ticks' = ticks + 2 * Delay
    /\ UNCHANGED <<frontier, crawl, task, sidecarLock, pruner, today, asked, diskVars>>

DayPasses ==
    /\ ~Running /\ pruner.stage \in {"idle", "done"}
    /\ today < LastDay_
    /\ today' = today + 1
    /\ pruner' = NoPlan
    /\ Gone
    /\ UNCHANGED <<frontier, sidecarLock, left, diskVars>>

\* prune, phase 1: everything is planned from one look at the directory.
HasSidecar(b) == sidecars[b] # {} \/ b \in torn
FreshSources(doc) == {s \in doc : s.last + StaleDays >= today}
PlanPrune ==
    /\ Spend_("runs")
    /\ ~Running /\ pruner.stage \in {"idle", "done"}
    /\ LET orphans == {b \in bodies : ~HasSidecar(b)}
           readable == {b \in bodies : HasSidecar(b) /\ b \notin torn}
           emptied == {b \in readable : FreshSources(sidecars[b]) = {}} IN
         pruner' = [stage |-> "bodies", bodies |-> orphans \union emptied,
                    sidecars |-> {b \in AllBodies \ bodies : HasSidecar(b)} \union emptied,
                    rewrites |-> {b \in readable \ emptied :
                                    FreshSources(sidecars[b]) # sidecars[b]}]
    /\ Gone
    /\ UNCHANGED <<frontier, sidecarLock, today, diskVars>>

\* Phase 2: bodies, then sidecars, then rewrites.  A prune that is killed or cannot
\* write leaves some of a phase undone, and loses the sidecar it was rewriting.
PruneBodies(done) ==
    /\ pruner.stage = "bodies"
    /\ bodies' = bodies \ done
    /\ partial' = partial \ done
    /\ UNCHANGED <<sidecars, torn>>
PruneSidecars(done) ==
    /\ pruner.stage = "sidecars"
    /\ sidecars' = [b \in AllBodies |-> IF b \in done THEN {} ELSE sidecars[b]]
    /\ torn' = torn \ done
    /\ UNCHANGED <<bodies, partial>>
Rewritten(done) ==
    [b \in AllBodies |-> IF b \in done THEN FreshSources(sidecars[b]) ELSE sidecars[b]]
PruneRewrites(done) ==
    /\ pruner.stage = "rewrites"
    /\ \/ /\ sidecars' = Rewritten(done)
          /\ UNCHANGED torn
       \/ \E b \in pruner.rewrites \ done :
              /\ sidecars' = [Rewritten(done) EXCEPT ![b] = {}]
              /\ torn' = torn \union {b}
    /\ UNCHANGED <<bodies, partial>>
PruneStep ==
    /\ pruner.stage \in {"bodies", "sidecars", "rewrites"}
    /\ LET todo == pruner[pruner.stage]
           after == [bodies |-> "sidecars", sidecars |-> "rewrites", rewrites |-> "done"] IN
         \E done \in SUBSET todo :
             /\ PruneBodies(done) \/ PruneSidecars(done) \/ PruneRewrites(done)
             /\ \/ /\ done = todo
                   /\ pruner' = [pruner EXCEPT !.stage = after[@]]
                   /\ UNCHANGED <<left, cuts>>
                \/ /\ done # todo
                   /\ Spend_("faults")
                   /\ pruner' = NoPlan
                   /\ cuts' = cuts + 1
    /\ UNCHANGED <<frontier, crawl, task, sidecarLock, ticks, today, asked, noted>>

-----------------------------------------------------------------------------
CrawlerInit ==
    /\ frontier = {}
    /\ crawl = NoCrawl
    /\ task = [w \in Workers |-> Resting("off")]
    /\ sidecarLock = Free
    /\ ticks = 0
    /\ bodies = {} /\ partial = {} /\ torn = {} /\ noted = {}
    /\ sidecars = [b \in AllBodies |-> {}]
    /\ pruner = NoPlan
    /\ today = 0
    /\ left = [runs |-> MaxRuns, crawls |-> MaxCrawls, faults |-> MaxFaults_]
    /\ asked = [h \in Hosts |-> NotAsked]
    /\ cuts = 0

WorkerStep(w) ==
    \/ PopItem(w) \/ WorkerReturns(w) \/ TakeItem(w) \/ TakeQuota(w)
    \/ RobotsFetched(w) \/ Fetch(w) \/ Duplicate(w)
    \/ TakeBudget(w) \/ StoreBody(w) \/ ReadSidecar(w) \/ WriteSidecar(w)
CrawlerNext ==
    \/ \E resume \in BOOLEAN, config \in Configs : StartCrawl(resume, config)
    \/ \E w \in Workers : WorkerStep(w)
    \/ CrawlDies \/ SlowMoment \/ DayPasses \/ PlanPrune \/ PruneStep

\* Tokio keeps polling every worker.
CrawlerFairness == \A w \in Workers : WF_crawlerVars(WorkerStep(w))
CrawlerSpec == CrawlerInit /\ [][CrawlerNext]_crawlerVars /\ CrawlerFairness

-----------------------------------------------------------------------------
\* corpus analyze: bodies and sidecars without their other half, stale sources.
OrphanBodies == {b \in bodies : ~HasSidecar(b)}
OrphanSidecars == {b \in AllBodies \ bodies : sidecars[b] # {}}
StaleSources == {b \in AllBodies : FreshSources(sidecars[b]) # sidecars[b]}

\* The report accounts for every URL discovered: when the workers have returned,
\* each was stored, failed, a duplicate, blocked, over quota, revalidated or over
\* the page budget, and none is left queued, though workers come and go while
\* others still find links (worker, process_item).
ReportAddsUp ==
    (\A w \in Workers : task[w].pc = "done") =>
        /\ frontier = {}
        /\ Cardinality(crawl.seen) = Len(crawl.pages) + crawl.failed + crawl.duplicates
              + crawl.blocked + crawl.quota + crawl.revalidated + crawl.unbudgeted

\* "Each unique body is written exactly once": no two pages of a report have the
\* same content, and each of them is on disk to the last byte, however the workers'
\* fetches overlap and whatever half-written bodies earlier runs left (content_seen).
BodiesStoredOnce ==
    /\ \A i, j \in 1..Len(crawl.pages) : crawl.pages[i].body = crawl.pages[j].body => i = j
    /\ Running => \A i \in 1..Len(crawl.pages) : crawl.pages[i].body \in bodies \ partial

\* What a host is spared, whichever workers ask and however late they wake: its n-th
\* page is asked for no earlier than n - 1 delays after its first slot, and its
\* robots.txt by no worker twice (reserve_slot, robots_for).  It is not "at most one
\* request every `delay`" (frontier.rs): robots.txt has no slot of its own, and a
\* worker that wakes late asks on the heels of the next.
HostsAreSpared ==
    \A h \in Hosts :
        /\ asked[h].pages > 0 => ticks >= asked[h].first[1] + (asked[h].pages - 1) * Delay
        /\ asked[h].robots <= Cardinality(Workers)

\* A source once recorded is still listed, and its body still there, while it is
\* fresh: no overlapping update, resumed run or prune loses it (sidecar_lock,
\* record_source, prune).  A kill or a failed write in the middle of rewriting a
\* sidecar does lose the sources in it, for the file is truncated first: it loses
\* one sidecar, never two, and never the body.
FreshSourcesKept ==
    /\ \A n \in noted : n.last + StaleDays >= today =>
           /\ n.body \in bodies
           /\ n.body \in torn \/ \E s \in sidecars[n.body] : s.url = n.url /\ s.last = n.last
    /\ Cardinality(torn) <= cuts

\* After a prune the corpus has no orphans and no stale sources but what it cannot
\* parse, whatever crashes cut earlier crawls and prunes short (prune, analyze).
PruneCleans ==
    pruner.stage = "done" => OrphanBodies = {} /\ OrphanSidecars = {} /\ StaleSources = {}

\* The corpus and the report are right, however workers overlap and crash: every
\* URL is accounted for, bodies are stored once, fresh sources are kept but for the
\* one sidecar a cut write loses, hosts are asked no more often on the whole than the
\* delay allows, and a prune leaves nothing stale.
CorpusIsRight ==
    ReportAddsUp /\ BodiesStoredOnce /\ HostsAreSpared /\ FreshSourcesKept /\ PruneCleans

\* A crawl comes to an end: every worker returns, or the process dies.
CrawlEnds == \A w \in Workers : []<>(task[w].pc \in {"done", "off"})
=============================================================================
