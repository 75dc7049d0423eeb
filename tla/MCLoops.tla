------------------------------ MODULE MCLoops ------------------------------
(***************************************************************************)
(* Small instances of the repository's dealings with what is outside it,   *)
(* and of the loops that have to end: exchanges with a remote, `bisect     *)
(* run` and its script, revision names and rebase plans, merged texts, the *)
(* working tree and its objects, the crawler and its sites, the webhook    *)
(* receiver and its callers.  One of them runs in each behaviour, chosen   *)
(* at the start, and the variables of the others stay as their Init has    *)
(* them.                                                                   *)
(***************************************************************************)
EXTENDS Remotes, Revisions, TextMerge, WorkTree, Crawler, Receiver

CONSTANT Parts

VARIABLE part

\* Bisect: a history without merges.
Line == <<<<>>, <<1>>, <<2>>, <<3>>, <<4>>>>
LineIds == <<3, 5, 1, 4, 2>>

\* Remotes: two commits on one parent.
Fork == << <<>>, <<1>>, <<1>> >>
MCOversized == {{}, {2}}

\* Crawler: one host, a page that links twice to a disallowed one, and a body
\* that changes and is found under two addresses.
MCHost == [u \in 1..3 |-> "home"]
MCLinks == [u \in 1..3 |-> IF u = 1 THEN <<3, 3>> ELSE <<1>>]
MCBody == [d \in 0..1 |-> [u \in 1..3 |-> IF u = 1 /\ d = 0 THEN "a" ELSE "b"]]
MCConfigs == {[pages |-> 2, perHost |-> 2]}
MCSeeds == <<1, 2>>

\* Revisions: ids of three bytes, and branches whose names read like an abbreviation.
MCIds == {<<0, 0, 0, 0, 0, 0>>, <<0, 0, 0, 0, 0, 1>>, <<0, 0, 0, 1, 0, 0>>, <<1, 0, 0, 0, 0, 0>>}
MCRefNames == {<<9>>, <<0, 0>>, <<0, 0, 0>>}
MCHeadText == <<8>>
MCSubjects == {[prefix |-> "", text |-> "a"], [prefix |-> "fixup! ", text |-> "a"]}

\* TextMerge: sides that change lines of the base in place.
MCBases == {<<1, 2, 3>>, <<1, 2, 1>>}
MCSides == [b \in MCBases |-> {s \in [1..3 -> {1, 2, 3, 8, 9}] : \A i \in 1..3 : s[i] \in {b[i], 8, 9}}]

\* WorkTree: paths, ignore files and the orders a directory is listed in.
Pattern(segs, neg, anch, dir) == [segs |-> segs, negate |-> neg, anchored |-> anch, dirOnly |-> dir]
MCPaths == {<<"a">>, <<"d", "a">>, <<"d", "e", "a">>, <<"e", "a">>, <<".h">>}
MCRules == {<<Pattern(<<{"a"}>>, FALSE, FALSE, FALSE)>>,
            <<Pattern(<<{"e"}>>, FALSE, FALSE, TRUE)>>,
            <<Pattern(<<{"a"}>>, TRUE, TRUE, FALSE)>>,
            <<Pattern(<<Stars, {"e"}, {"a"}>>, FALSE, TRUE, FALSE),
              Pattern(<<{"a", "e"}>>, TRUE, FALSE, FALSE)>>}
MCOrders == {<<".h", "a", "d", "e">>, <<"e", "d", "a", ".h">>}

\* Blobs: files of one and of two chunks.
MCTexts == {<<1>>, <<1, 2>>, <<2, 1>>}

-----------------------------------------------------------------------------
loopVars == <<part, remoteVars, bisectVars, revVars, textVars, treeVars,
              blobVars, crawlerVars, recvVars>>

Init ==
    /\ part \in Parts
    /\ RemotesInit /\ BisectInit /\ RevInit /\ TextInit /\ TreeInit /\ BlobsInit
    /\ CrawlerInit /\ RecvInit
    /\ part = "remotes" \/ target = "dir"
    /\ huge # {} \/ tips[Served][2] # 0 => target = "stream"
    /\ huge = {} \/ tips[Served][2] = 0
    /\ remoteFaults = IF tips[Served][2] # 0 THEN MaxFaults ELSE 0
    /\ mirror.objects = {} \/ (part = "remotes" /\ target = "dir")
    /\ part = "bisect" \/ culprit = 2
    /\ part = "blobs" \/ (file = <<1>> /\ \A r \in Repos : repos[r].mode = "identity")
    /\ part = "receiver" \/ secret

Next ==
    \/ part = "remotes" /\ RemotesNext
       /\ UNCHANGED <<part, bisectVars, revVars, textVars, treeVars, blobVars, crawlerVars, recvVars>>
    \/ part = "bisect" /\ BisectNext_
       /\ UNCHANGED <<part, remoteVars, revVars, textVars, treeVars, blobVars, crawlerVars, recvVars>>
    \/ part = "revisions" /\ RevNext
       /\ UNCHANGED <<part, remoteVars, bisectVars, textVars, treeVars, blobVars, crawlerVars, recvVars>>
    \/ part = "textmerge" /\ TextNext
       /\ UNCHANGED <<part, remoteVars, bisectVars, revVars, treeVars, blobVars, crawlerVars, recvVars>>
    \/ part = "worktree" /\ TreeNext
       /\ UNCHANGED <<part, remoteVars, bisectVars, revVars, textVars, blobVars, crawlerVars, recvVars>>
    \/ part = "blobs" /\ BlobsNext
       /\ UNCHANGED <<part, remoteVars, bisectVars, revVars, textVars, treeVars, crawlerVars, recvVars>>
    \/ part = "crawler" /\ CrawlerNext
       /\ UNCHANGED <<part, remoteVars, bisectVars, revVars, textVars, treeVars, blobVars, recvVars>>
    \/ part = "receiver" /\ RecvNext
       /\ UNCHANGED <<part, remoteVars, bisectVars, revVars, textVars, treeVars, blobVars, crawlerVars>>

\* What keeps running: both ends of an exchange and the carrier that closes it, the
\* script loop, the crawler's workers and the receiver's accept loop.  The steps of a
\* part that does not run are never taken.
Fairness ==
    /\ WF_remoteVars(part = "remotes" /\ ServerStep)
    /\ WF_remoteVars(part = "remotes" /\ ClientStep)
    /\ WF_remoteVars(part = "remotes" /\ HangUp)
    /\ WF_bisectVars(part = "bisect" /\ BisectRun)
    /\ \A w \in Workers : WF_crawlerVars(part = "crawler" /\ WorkerStep(w))
    /\ WF_recvVars(part = "receiver" /\ Serve_)

Spec == Init /\ [][Next]_loopVars /\ Fairness

-----------------------------------------------------------------------------
\* Every loop comes to an end: an exchange with a remote, `bisect run`, a crawl, and
\* a connection to the webhook receiver.
LoopsEnd == ExchangesEnd /\ BisectRunEnds /\ CrawlEnds /\ ConnectionsEnd
=============================================================================
