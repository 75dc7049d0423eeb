------------------------------ MODULE Remotes ------------------------------
(* Remotes of origin-vcs: copies of one repository that push to and fetch    *)
(* from a directory, or from a store served over a connection. A commit      *)
(* stands for itself, its tree and its blobs. The connection is a stream     *)
(* (TCP, QUIC, a relay pair, or a session), which may break, or a punched UDP *)
(* socket, which may lose a datagram. `sync` and `serve` are long-lived and  *)
(* keep the branch tips they read when they started.                         *)
EXTENDS Naturals, Sequences, SequencesExt, FiniteSets

CONSTANTS
  Copies,      \* the stores that push and fetch
  Syncers,     \* those that also run `remote sync`
  Served,      \* the store behind `remote serve`
  Graph,       \* parents of every commit, a sequence of sequences
  Names,       \* branch names, numbers
  Large,       \* commits whose object takes two datagrams
  Oversized,   \* sets of commits whose object may take two frames
  Targets,     \* where the remote lives: "dir", "stream", "session", "udp"
  MaxDials,    \* bound on the connections made
  MaxPushes,   \* bound on the pushes to a directory
  MaxFaults    \* bound on broken connections, lost datagrams and kills

Ids == DOMAIN Graph
Junk == Len(Graph) + 1      \* bytes that are no envelope
Stores == Copies \cup {Served}
NoTips == [b \in Names |-> 0]
Cloned == [b \in Names |-> IF b = 1 THEN 1 ELSE 0]   \* after `clone`
\* a branch made before the clone is on every copy too
ClonedAll == [b \in Names |-> 1]
NoManifest == [there |-> FALSE, tips |-> NoTips, ids |-> <<>>, force |-> FALSE]
NoPush == [at |-> "idle", offer |-> NoManifest, crossed |-> FALSE]
Pushers == Copies \X {"push", "sync"}
Quiet == [who |-> Served, open |-> FALSE, up |-> <<>>, down |-> <<>>,
          sbuf |-> <<>>, cbuf |-> <<>>, sman |-> NoManifest, cman |-> NoManifest,
          scount |-> 0, ccount |-> 0, depth |-> 0,
          server |-> "request", client |-> "idle"]

VARIABLES
  target,      \* the remote's kind, fixed
  huge,        \* the commits with an object above one frame, fixed
  stored,      \* stored[s][c]: the object filed under c (0: none)
  tips,        \* refs/heads
  known,       \* the tips `sync` or `serve` has in memory
  tracks,      \* refs/remotes
  cutoff,      \* SHALLOW exists
  mirror,      \* the directory: its objects and its manifest
  pushing,     \* the pushes to the directory under way; crossed: its manifest
               \* was replaced since they were checked against it
  published,   \* published-manifest.json of the served store
  link,        \* the connection and the two ends' places in the exchange
  serving,     \* the serve process runs
  syncing,     \* the half of a sync tick that comes next
  fetched,     \* the manifest of the last fetch that returned Ok, and whose
  dials,       \* connections, or pushes to a directory, so far
  remoteFaults \* of MaxFaults, those already met

copies == <<stored, tips, known, tracks, cutoff>>
fixed == <<target, huge>>
remoteVars == <<fixed, copies, mirror, pushing, published, link, serving,
                syncing, fetched, dials, remoteFaults>>

RemotesInit ==
  /\ target \in Targets
  /\ huge \in Oversized
  /\ stored = [s \in Stores |-> [c \in Ids |-> IF c = 1 THEN 1 ELSE 0]]
  /\ \E first \in {Cloned, ClonedAll} : tips = [s \in Stores |-> first]
  /\ known = tips
  /\ tracks = [s \in Stores |-> NoTips]
  /\ cutoff = [s \in Stores |-> FALSE]
  /\ mirror \in {[objects |-> {}, manifest |-> NoManifest],
                 [objects |-> {1}, manifest |-> [there |-> TRUE, tips |-> Cloned, ids |-> <<1>>,
                                                 force |-> FALSE]]}
  /\ pushing = [w \in Pushers |-> NoPush]
  /\ published = NoManifest
  /\ link = Quiet
  /\ serving = TRUE
  /\ syncing = [s \in Copies |-> "pull"]
  /\ fetched = [who |-> Served, man |-> NoManifest]
  /\ dials = 0
  /\ remoteFaults \in 0..MaxFaults

----------------------------------------------------------------------------
(* Walks over a store.                                                       *)

Parents(c) == Range(Graph[c])

\* the commits a walk from `from` visits in store s, missing ones included;
\* a missing object has no parents to follow
Visited(s, from) ==
  LET seen[n \in Nat] ==
        IF n = 0 THEN from \ {0}
        ELSE seen[n - 1] \cup UNION {Parents(stored[s][c]) :
               c \in {x \in seen[n - 1] : stored[s][x] \in Ids}}
  IN  seen[Len(Graph)]

\* depth_reachable: `depth` generations from each tip
Within(s, from, depth) ==
  LET near[d \in Nat] ==
        IF d = 1 THEN from \ {0}
        ELSE near[d - 1] \cup
             UNION {Parents(c) : c \in {x \in near[d - 1] : stored[s][x] = x}}
  IN  near[depth]

\* is_ancestor: first parents only; FALSE, or an error, at a missing commit,
\* and no answer on a loop of misfiled objects
Descends(objects, old, new) ==
  LET up[n \in Nat] ==
        LET c == IF n = 0 THEN new ELSE up[n - 1]
        IN  IF n = 0 \/ c = old THEN c
            ELSE IF c \in Ids /\ objects[c] \in Ids /\ Graph[objects[c]] # <<>>
            THEN Head(Graph[objects[c]]) ELSE Junk
  IN  up[Len(Graph)] = old

Tips(f) == {f[b] : b \in Names}
Sorted(set) == SetToSortSeq(set, <)

\* what a push offers: the tips in memory and every object the walk visits
Offer(s, f, force) ==
  [there |-> TRUE, tips |-> f, ids |-> Sorted(Visited(s, Tips(f))),
   force |-> force]

\* the first place in ids whose envelope s does not have
Upto(s, ids) ==
  LET gaps == {i \in DOMAIN ids : stored[s][ids[i]] = 0}
  IN  IF gaps = {} THEN Len(ids) ELSE (CHOOSE i \in gaps : \A j \in gaps : i <= j) - 1

\* put_envelope_bytes: an envelope that is there is never replaced
File(s, c, body) ==
  stored' = [stored EXCEPT ![s][c] = IF @ = 0 THEN body ELSE @]

----------------------------------------------------------------------------
(* Local work, by a command of its own: `commit`, or `merge` of the tracking *)
(* branch. A long-lived process keeps its older view of the tips. A commit   *)
(* made during an exchange commutes with it, which reads the tips when it    *)
(* starts, so commits are made between exchanges. Commands lock their store, *)
(* `sync` and `serve` do not.                                                *)

Unlocked(s) == link = Quiet /\ pushing[<<s, "push">>] = NoPush

LocalCommit(s, b, c) ==
  /\ Unlocked(s)
  /\ stored[s][c] = 0
  /\ \/ Graph[c] = <<>> /\ tips[s][b] = 0
     \/ /\ Graph[c] # <<>> /\ Head(Graph[c]) = tips[s][b]
        /\ \A p \in Parents(c) \ {tips[s][b]} : p = tracks[s][b]
  /\ stored' = [stored EXCEPT ![s][c] = c]
  /\ tips' = [tips EXCEPT ![s][b] = c]
  /\ UNCHANGED <<fixed, dials, serving, known, tracks, cutoff, mirror, pushing, published,
                 link, syncing, fetched, remoteFaults>>

\* `sync` starts and loads the refs
StartDaemon(s) ==
  /\ target = "dir" /\ known[s] # tips[s] /\ syncing[s] = "pull"
  /\ known' = [known EXCEPT ![s] = tips[s]]
  /\ UNCHANGED <<fixed, dials, serving, stored, tips, tracks, cutoff, mirror, pushing, published,
                 link, syncing, fetched, remoteFaults>>

----------------------------------------------------------------------------
(* A directory target.                                                       *)

\* Mutant: a branch the remote has moved is not compared.
MayPushAnything(s, f, force) == TRUE

\* check_dir_push_ff
MayPush(s, f, force) ==
  LET there == mirror.manifest.tips
  IN  \/ force
      \/ \A b \in Names :
           \/ f[b] = 0 \/ there[b] \in {0, f[b]}
           \/ stored[s][there[b]] # 0 /\ Descends(stored[s], there[b], f[b])

\* push to a directory, in three steps, with nothing locked: the tips are checked
\* against the manifest, the objects are copied, the manifest is replaced
CheckPush(w, f, force) ==
  /\ pushing[w] = NoPush /\ dials < MaxPushes
  /\ IF MayPush(w[1], f, force)
     THEN /\ pushing' = [pushing EXCEPT ![w].at = "copying", ![w].offer = Offer(w[1], f, force)]
          /\ dials' = dials + 1
     ELSE UNCHANGED <<pushing, dials>>

\* Mutant: the manifest is replaced before the objects are copied.
CopyObjectsManifestFirst(w, last) ==
  LET ids == pushing[w].offer.ids
      n == IF last < Upto(w[1], ids) THEN last ELSE Upto(w[1], ids)
  IN  /\ pushing[w].at = "copying"
      /\ last < Len(ids) => remoteFaults < MaxFaults
      /\ remoteFaults' = remoteFaults + IF last < Len(ids) THEN 1 ELSE 0
      /\ mirror' = [objects |-> mirror.objects \cup {ids[i] : i \in 1..n},
                    manifest |-> pushing[w].offer]
      /\ pushing' = [pushing EXCEPT ![w] = IF n = Len(ids) THEN [@ EXCEPT !.at = "writing"] ELSE NoPush]
      /\ UNCHANGED <<fixed, dials, serving, copies, published, link, syncing, fetched>>

\* `last` is the last object copied before the process is killed or meets an
\* object it does not have
CopyObjects(w, last) ==
  LET ids == pushing[w].offer.ids
      n == IF last < Upto(w[1], ids) THEN last ELSE Upto(w[1], ids)
  IN  /\ pushing[w].at = "copying"
      /\ last < Len(ids) => remoteFaults < MaxFaults
      /\ remoteFaults' = remoteFaults + IF last < Len(ids) THEN 1 ELSE 0
      /\ mirror' = [mirror EXCEPT !.objects = @ \cup {ids[i] : i \in 1..n}]
      /\ pushing' = [pushing EXCEPT ![w] = IF n = Len(ids) THEN [@ EXCEPT !.at = "writing"] ELSE NoPush]
      /\ UNCHANGED <<fixed, dials, serving, copies, published, link, syncing, fetched>>

WriteMirror(w) ==
  /\ pushing[w].at = "writing"
  /\ mirror' = [mirror EXCEPT !.manifest = pushing[w].offer]
  /\ pushing' = [v \in Pushers |-> IF v = w \/ pushing[v] = NoPush THEN NoPush
                                   ELSE [pushing[v] EXCEPT !.crossed = TRUE]]
  /\ UNCHANGED <<fixed, dials, serving, copies, published, link, syncing, fetched, remoteFaults>>

\* fetch: every listed object, then the tracking refs
FetchDir(s) ==
  /\ mirror.manifest.ids # <<>>
  /\ Range(mirror.manifest.ids) \subseteq mirror.objects
  /\ stored' = [stored EXCEPT ![s] =
       [c \in Ids |-> IF @[c] = 0 /\ c \in Range(mirror.manifest.ids)
                      THEN c ELSE @[c]]]
  /\ tracks' = [tracks EXCEPT ![s] =
       [b \in Names |-> IF mirror.manifest.tips[b] # 0
                        THEN mirror.manifest.tips[b] ELSE @[b]]]
  /\ fetched' = [who |-> s, man |-> mirror.manifest]

\* pull's second half: the branch moves to the fetched tip, or is created
Attach(s, b, there) ==
  LET here == tips[s][b]
      go == there # 0 /\ (here = 0 \/ here = there \/ Descends(stored'[s], here, there))
  IN  /\ tips' = IF go THEN [tips EXCEPT ![s][b] = there] ELSE tips
      /\ known' = IF go THEN [known EXCEPT ![s][b] = there] ELSE known

Push(s, force) ==
  /\ target = "dir"
  /\ CheckPush(<<s, "push">>, tips[s], force)
  /\ UNCHANGED <<fixed, serving, copies, mirror, published, link, syncing, fetched,
                 remoteFaults>>

Pull(s, b) ==
  /\ target = "dir" /\ Unlocked(s)
  /\ FetchDir(s) /\ Attach(s, b, tracks'[s][b])
  /\ UNCHANGED <<fixed, dials, serving, cutoff, mirror, pushing, published, link, syncing,
                 remoteFaults>>

Prune(s) ==
  /\ target = "dir" /\ mirror.manifest.there /\ Unlocked(s)
  /\ tracks' = [tracks EXCEPT ![s] =
       [b \in Names |-> IF @[b] = mirror.manifest.tips[b] THEN @[b] ELSE 0]]
  /\ UNCHANGED <<fixed, dials, serving, stored, tips, known, cutoff, mirror, pushing, published,
                 link, syncing, fetched, remoteFaults>>

\* one tick of `remote sync`, a pull and then a push, in a process that holds
\* no lock: a failing half is logged and skipped
SyncPull(s, b) ==
  /\ target = "dir" /\ syncing[s] = "pull" /\ pushing[<<s, "sync">>] = NoPush
  /\ syncing' = [syncing EXCEPT ![s] = "push"]
  /\ IF mirror.manifest.ids # <<>>
     THEN FetchDir(s) /\ Attach(s, b, tracks'[s][b])
     ELSE UNCHANGED <<stored, tracks, fetched, tips, known>>
  /\ UNCHANGED <<fixed, dials, serving, cutoff, mirror, pushing, published, link, remoteFaults>>

SyncPush(s) ==
  /\ target = "dir" /\ syncing[s] = "push"
  /\ syncing' = [syncing EXCEPT ![s] = "pull"]
  /\ CheckPush(<<s, "sync">>, known[s], FALSE)
  /\ UNCHANGED <<fixed, serving, copies, mirror, published, link, fetched, remoteFaults>>

----------------------------------------------------------------------------
(* The pack protocol. A message is sent as pieces, each saying whether more  *)
(* of the message follows; objects carry no id and are named by their place  *)
(* in the manifest.                                                          *)

Blank == [t |-> "done", more |-> 0, depth |-> 0, man |-> NoManifest,
          part |-> <<0, 0, 0>>]
Piece(t) == <<[Blank EXCEPT !.t = t]>>
ManifestPiece(man) == <<[Blank EXCEPT !.t = "manifest", !.man = man]>>

\* send_msg splits an object above one frame and marks no part as followed by
\* another; the UDP connection splits a frame into datagrams and marks all but
\* the last
ObjectPieces(c) ==
  LET part(k, n, m) == [Blank EXCEPT !.t = "object", !.more = m, !.part = <<c, k, n>>]
  IN  CASE c \in huge -> <<part(1, 2, 0), part(2, 2, 0)>>
        [] c \in Large \ huge /\ target = "udp" -> <<part(1, 2, 1), part(2, 2, 0)>>
        [] OTHER -> <<part(1, 1, 0)>>

Pack(man, n) ==
  ManifestPiece(man) \o
  FlattenSeq([i \in 1..n |-> ObjectPieces(man.ids[i])])

\* recv_msg, and UdpReasm::process: a piece of another type drops the rest
Joined(buf, piece) ==
  IF buf # <<>> /\ buf[1].t # piece.t THEN <<piece>> ELSE Append(buf, piece)

\* the object a message carries: its parts must be those of one object
Carried(msg) ==
  LET c == msg[1].part[1]
      n == msg[1].part[3]
  IN  IF Len(msg) = n /\ \A k \in 1..n : msg[k].part = <<c, k, n>> THEN c ELSE Junk

\* a session is a stream whose ends have proved who they are
Streamed == target \in {"stream", "session"}

\* a connection, and the messages the client sends before it reads
Dial(s, cmd, depth, messages, whole) ==
  /\ target # "dir" /\ serving /\ link = Quiet /\ dials < MaxDials
  /\ dials' = dials + 1
  /\ link' = [Quiet EXCEPT !.who = s, !.depth = depth, !.client = cmd,
                           !.open = whole, !.up = messages]
  /\ UNCHANGED <<fixed, copies, mirror, pushing, published, serving, syncing, fetched,
                 remoteFaults>>

\* the pack ends early, and with it the command, at an object that is missing
DialPush(s, force) ==
  LET offer == Offer(s, tips[s], force)
      n == Upto(s, offer.ids)
      whole == n = Len(offer.ids)
  IN  Dial(s, "push", 0, Piece("push") \o Pack(offer, n) \o
                         IF whole THEN Piece("done") ELSE <<>>, whole)

DialFetch(s, depth) ==
  Dial(s, "fetch", depth, <<[Blank EXCEPT !.t = "fetch", !.depth = depth]>>, TRUE)

DialLs(s) == Dial(s, "ls", 0, Piece("ls"), TRUE)

\* published_manifest, else the store's own refs; a truncated fetch always
\* gets the store's own refs
ToServe(depth) ==
  IF depth > 0
  THEN [there |-> TRUE, tips |-> known[Served], force |-> FALSE,
        ids |-> Sorted(Within(Served, Tips(known[Served]), depth))]
  ELSE IF published.there THEN published
  ELSE Offer(Served, known[Served], FALSE)

----------------------------------------------------------------------------
(* The served store, message by message.                                     *)

served == <<fixed, dials, tracks, cutoff, mirror, pushing, syncing, fetched, remoteFaults>>

\* the message the server has once it reads the next piece
Inbound == Joined(link.sbuf, Head(link.up))
Whole(t) == link.up # <<>> /\ Head(link.up).more = 0 /\ Inbound[1].t = t
\* an exchange that ends in Err ends the serve loop: `remote serve` returns;
\* only serve_session logs the error and accepts the next session
Survives == target = "session"
Ends(ok) == serving' = (serving /\ (ok \/ Survives))
Read == [link EXCEPT !.up = Tail(@), !.sbuf = <<>>]

ServePiece ==
  /\ link.up # <<>> /\ Head(link.up).more = 1
  /\ link' = [link EXCEPT !.up = Tail(@), !.sbuf = Inbound]
  /\ UNCHANGED <<served, serving, stored, tips, known, published>>

\* serve_fetch: manifest, objects, DONE; it stops at an object it cannot read
ServeFetch ==
  LET man == ToServe(Inbound[1].depth)
      n == Upto(Served, man.ids)
  IN  /\ link.server = "request" /\ Whole("fetch")
      /\ Ends(n = Len(man.ids))
      /\ link' = [Read EXCEPT !.server = "over", !.open = @ /\ n = Len(man.ids),
                    !.down = Pack(man, n) \o
                             IF n < Len(man.ids) THEN <<>> ELSE Piece("done")]
      /\ UNCHANGED <<served, stored, tips, known, published>>

ServeLs ==
  LET own == [Offer(Served, known[Served], FALSE) EXCEPT !.ids = <<>>]
  IN  /\ link.server = "request" /\ Whole("ls")
      /\ link' = [Read EXCEPT !.server = "over",
                    !.down = ManifestPiece(IF published.there THEN published ELSE own)
                             \o Piece("done")]
      /\ UNCHANGED <<served, serving, stored, tips, known, published>>

ServePush ==
  /\ \/ /\ link.server = "request" /\ Whole("push")
        /\ link' = [Read EXCEPT !.server = "manifest"]
     \/ /\ link.server = "manifest" /\ Whole("manifest")
        /\ link' = [Read EXCEPT !.server = "objects", !.sman = Inbound[1].man]
  /\ UNCHANGED <<served, serving, stored, tips, known, published>>

ServeObject ==
  /\ link.server = "objects" /\ Whole("object")
  /\ link.scount < Len(link.sman.ids)
  /\ File(Served, link.sman.ids[link.scount + 1], Carried(Inbound))
  /\ link' = [Read EXCEPT !.scount = @ + 1]
  /\ UNCHANGED <<served, serving, tips, known, published>>

\* the branches whose pushed tip serve_push refuses
Refused(man) ==
  {b \in Names :
     /\ man.tips[b] # 0
     /\ \/ stored[Served][man.tips[b]] \notin Ids
        \/ /\ tips[Served][b] \notin {0, man.tips[b]} /\ ~ man.force
           /\ ~ Descends(stored[Served], tips[Served][b], man.tips[b])}

\* Mutant: a push that is not a fast-forward gets no answer.
AnswerOnlySuccess(bad, readable) == IF bad = {} THEN Piece("done") ELSE <<>>

\* a tip that cannot be read ends the exchange without a message
Verdict(bad, readable) ==
  IF bad = {} THEN Piece("done") ELSE IF readable THEN Piece("error") ELSE <<>>

\* serve_push after DONE: branch by branch in name order, up to the first it
\* refuses; the published manifest only changes when it refuses none
Adopt ==
  LET man == link.sman
      bad == Refused(man)
      adopted == {b \in Names : man.tips[b] # 0 /\ \A r \in bad : b < r}
      moved(f) == [b \in Names |-> IF b \in adopted THEN man.tips[b] ELSE f[b]]
      readable == \A b \in bad : stored[Served][man.tips[b]] \notin Ids =>
                    \E r \in bad : r < b
  IN  /\ link.server = "objects" /\ Whole("done")
      /\ tips' = [tips EXCEPT ![Served] = moved(@)]
      /\ known' = [known EXCEPT ![Served] = moved(@)]
      /\ published' = IF bad = {} THEN man ELSE published
      /\ link' = [Read EXCEPT !.server = "over", !.open = @ /\ readable,
                              !.down = @ \o Verdict(bad, readable)]
      /\ Ends(readable)
      /\ UNCHANGED <<served, stored>>

\* any other message ends the exchange
ServeRefuses ==
  /\ link.up # <<>> /\ Head(link.up).more = 0
  /\ ~ \/ link.server = "request" /\ Inbound[1].t \in {"fetch", "ls", "push"}
       \/ link.server = "manifest" /\ Inbound[1].t = "manifest"
       \/ /\ link.server = "objects" /\ Inbound[1].t \in {"object", "done"}
          /\ Inbound[1].t = "object" => link.scount < Len(link.sman.ids)
  /\ link' = [Read EXCEPT !.server = "over", !.open = FALSE,
                !.down = IF link.server \in {"over", "objects"} THEN @
                         ELSE @ \o Piece("error")]
  /\ Ends(FALSE)
  /\ UNCHANGED <<served, stored, tips, known, published>>

\* the operator starts `remote serve` again: it reads the refs
Restart ==
  /\ link = Quiet /\ ~ serving
  /\ serving' = TRUE
  /\ known' = [known EXCEPT ![Served] = tips[Served]]
  /\ UNCHANGED <<served, stored, tips, published, link>>

ServerStep == \/ ServePiece \/ ServeFetch \/ ServeLs \/ ServePush
              \/ ServeObject \/ Adopt \/ ServeRefuses

----------------------------------------------------------------------------
(* The client's end.                                                         *)

client == <<fixed, dials, serving, tips, known, mirror, pushing, published, syncing, remoteFaults>>

Outbound == Joined(link.cbuf, Head(link.down))
Got(t) == link.down # <<>> /\ Head(link.down).more = 0 /\ Outbound[1].t = t
Took == [link EXCEPT !.down = Tail(@), !.cbuf = <<>>]

ClientPiece ==
  /\ link.down # <<>> /\ Head(link.down).more = 1
  /\ link' = [link EXCEPT !.down = Tail(@), !.cbuf = Outbound]
  /\ UNCHANGED <<client, stored, tracks, cutoff, fetched>>

FetchManifest ==
  /\ link.client \in {"fetch", "ls"} /\ Got("manifest") /\ ~ link.cman.there
  /\ link' = [Took EXCEPT !.cman = Outbound[1].man]
  /\ UNCHANGED <<client, stored, tracks, cutoff, fetched>>

FetchObject ==
  /\ link.client = "fetch" /\ link.cman.there /\ Got("object")
  /\ link.ccount < Len(link.cman.ids)
  /\ File(link.who, link.cman.ids[link.ccount + 1], Carried(Outbound))
  /\ link' = [Took EXCEPT !.ccount = @ + 1]
  /\ UNCHANGED <<client, tracks, cutoff, fetched>>

\* fetch_exchange after DONE
FetchDone ==
  LET s == link.who  man == link.cman IN
  /\ link.client = "fetch" /\ man.there /\ Got("done")
  /\ link.ccount = Len(man.ids)
  /\ cutoff' = [cutoff EXCEPT ![s] = @ \/ link.depth > 0]
  /\ tracks' = [tracks EXCEPT ![s] =
       [b \in Names |-> IF man.tips[b] # 0 THEN man.tips[b] ELSE @[b]]]
  /\ fetched' = [who |-> s, man |-> man]
  /\ link' = Quiet
  /\ UNCHANGED <<client, stored>>

\* prune over `ls`
LsDone ==
  LET s == link.who  man == link.cman IN
  /\ link.client = "ls" /\ man.there /\ Got("done")
  /\ tracks' = [tracks EXCEPT ![s] =
       [b \in Names |-> IF @[b] = man.tips[b] THEN @[b] ELSE 0]]
  /\ link' = Quiet
  /\ UNCHANGED <<client, stored, cutoff, fetched>>

\* push_exchange's reply, and every way the other commands fail
ClientEnds ==
  /\ link.down # <<>> /\ Head(link.down).more = 0
  /\ \/ link.client = "push"
     \/ Outbound[1].t \notin {"manifest", "object", "done"}
     \/ Got("manifest") /\ link.cman.there
     \/ Got("object") /\ (~ link.cman.there \/ link.client = "ls"
                          \/ link.ccount = Len(link.cman.ids))
     \/ Got("done") /\ (~ link.cman.there \/
          (link.client = "fetch" /\ link.ccount # Len(link.cman.ids)))
  /\ link' = Quiet
  /\ UNCHANGED <<client, stored, tracks, cutoff, fetched>>

ClientStep == \/ ClientPiece \/ FetchManifest \/ FetchObject \/ FetchDone
              \/ LsDone \/ ClientEnds

\* clone, and pull over a connection: after the fetch the branch is attached
\* to the tracking ref
PullFetched(s, b) ==
  /\ target # "dir" /\ link = Quiet /\ fetched.who = s
  /\ tracks[s][b] \notin {0, tips[s][b]}
  /\ UNCHANGED stored /\ Attach(s, b, tracks[s][b])
  /\ tips' # tips
  /\ UNCHANGED <<fixed, dials, serving, tracks, cutoff, mirror, pushing, published, link,
                 syncing, fetched, remoteFaults>>

----------------------------------------------------------------------------
(* Faults.                                                                   *)

\* a stream breaks: what is in flight arrives up to some piece
Break(i, j) ==
  /\ Streamed /\ link.open /\ remoteFaults < MaxFaults
  /\ link' = [link EXCEPT !.open = FALSE, !.up = SubSeq(@, 1, i),
                          !.down = SubSeq(@, 1, j)]
  /\ remoteFaults' = remoteFaults + 1
  /\ UNCHANGED <<fixed, dials, serving, copies, mirror, pushing, published, syncing, fetched>>

\* a datagram is lost: the sockets have no retransmission
Lose(i, j) ==
  /\ target = "udp" /\ remoteFaults < MaxFaults
  /\ \/ i \in DOMAIN link.up /\ j = 0 /\ link' = [link EXCEPT !.up = RemoveAt(@, i)]
     \/ j \in DOMAIN link.down /\ i = 0 /\ link' = [link EXCEPT !.down = RemoveAt(@, j)]
  /\ remoteFaults' = remoteFaults + 1
  /\ UNCHANGED <<fixed, dials, serving, copies, mirror, pushing, published, syncing, fetched>>

\* nothing is in flight: an end that reads a closed stream gives up, and the
\* operator interrupts one that waits on a datagram
HangUp ==
  /\ link # Quiet /\ link.up = <<>> /\ link.down = <<>>
  /\ target = "udp" \/ ~ link.open
  /\ link' = Quiet
  /\ Ends(link.server = "over")
  /\ UNCHANGED <<fixed, dials, copies, mirror, pushing, published, syncing, fetched,
                 remoteFaults>>

----------------------------------------------------------------------------
RemotesNext ==
  \/ \E s \in Copies, b \in Names, c \in Ids : LocalCommit(s, b, c)
  \/ \E s \in Syncers : StartDaemon(s) \/ SyncPush(s)
  \/ \E s \in Syncers, b \in Names : SyncPull(s, b)
  \/ \E s \in Copies, force \in BOOLEAN : Push(s, force)
  \/ \E w \in Pushers, last \in 0..Len(Graph) : CopyObjects(w, last)
  \/ \E w \in Pushers : WriteMirror(w)
  \/ \E s \in Copies : Prune(s)
  \/ \E s \in Copies, b \in Names : Pull(s, b) \/ PullFetched(s, b)
  \/ \E s \in Copies, force \in BOOLEAN : DialPush(s, force)
  \/ \E s \in Copies, depth \in 0..2 : DialFetch(s, depth)
  \/ \E s \in Copies : DialLs(s)
  \/ ServerStep \/ ClientStep
  \/ \E i \in 0..Len(link.up), j \in 0..Len(link.down) : Break(i, j) \/ Lose(i, j)
  \/ HangUp \/ Restart

RemotesFairness == WF_remoteVars(ServerStep) /\ WF_remoteVars(ClientStep)
                   /\ WF_remoteVars(HangUp)

RemotesSpec == RemotesInit /\ [][RemotesNext]_remoteVars /\ RemotesFairness

----------------------------------------------------------------------------
\* a commit and everything before it
History(c) ==
  LET past[x \in Ids] == {x} \cup UNION {past[p] : p \in Parents(x)} IN past[c]

\* nothing that was sent is missing without notice, or comes in more messages
\* than there are objects
Reliable == huge = {} /\ (target # "udp" \/ remoteFaults = 0)

\* A fetch that returned Ok has stored, under each id of the manifest it read,
\* the object of that id: a broken stream, a refused object or a server that
\* stops early never ends in Ok (fetch_exchange counts what it received and
\* names objects by their place). A lost datagram is excepted, the objects after
\* it are filed one place early, and so is an object above one frame, whose parts
\* are taken for two objects: that exchange never ends in Ok, but what it filed
\* under the wrong ids stays.
FetchedMeansStored ==
  /\ Reliable => \A c \in Range(fetched.man.ids) : stored[fetched.who][c] = c
  /\ Streamed => huge \cap (Range(fetched.man.ids) \cup Range(published.ids)) = {}

\* Whatever is killed or breaks off, the branches and tracking refs of a store
\* without a shallow boundary, and the tips of a directory's manifest, never
\* name history that is not there: objects are written before what names them
\* (push, fetch, serve_push).
RefsAreWhole ==
  Reliable =>
    /\ \A s \in Stores : ~ cutoff[s] =>
         \A t \in (Tips(tips[s]) \cup Tips(tracks[s])) \ {0} :
           \A c \in History(t) : stored[s][c] = c
    /\ \A t \in Tips(mirror.manifest.tips) \ {0} : History(t) \subseteq mirror.objects

\* A push that serve_push refuses half-way has moved the branches before the one it
\* refused and not the published manifest: what the store publishes may be behind
\* its branches for that, and is never ahead of them.
PublishedIsBehind ==
  Reliable => \A b \in Names :
    published.tips[b] # 0 => published.tips[b] \in History(tips[Served][b])

\* What a store refers to it holds: after a fetch, a push or a serve, whatever
\* was killed, refused or broke off.
StoresAreWhole == FetchedMeansStored /\ RefsAreWhole /\ PublishedIsBehind

Advances(old, new) == \A b \in Names : old[b] # 0 /\ new[b] # 0 => old[b] \in History(new[b])

\* a push whose check was overtaken by another's manifest replaces it
Overtakes == \E w \in Pushers : pushing[w].crossed /\ pushing'[w] = NoPush

\* Without --force no command of any process takes a branch, local, served or
\* in a directory's manifest, off the history it had (check_dir_push_ff,
\* serve_push, attach_branch): work that is published stays reachable. The one
\* exception is two pushes to a directory that overlap, since nothing locks it
\* between the check and the new manifest.
NothingIsClobbered ==
  [][Reliable =>
      /\ \A s \in Stores : Advances(tips[s], tips'[s]) \/ link.sman.force
      /\ Advances(mirror.manifest.tips, mirror'.manifest.tips)
         \/ mirror'.manifest.force \/ Overtakes]_remoteVars

\* On a stream every exchange comes to an end at both sides, whether it is
\* served, refused or cut off: neither end is left waiting for a message the
\* other will not send.
ExchangesEnd == []<>(~Streamed \/ link = Quiet)

=============================================================================
