------------------------------ MODULE Repository ------------------------------
(***************************************************************************)
(* The repository of origin-vcs: trees and their merge, and the commands   *)
(* over branches, log, index and working tree.                             *)
(***************************************************************************)
EXTENDS Naturals, Sequences, SequencesExt, FiniteSets

-----------------------------------------------------------------------------
(* Trees, the commit graph and the file-level three-way merge of origin-vcs. *)
(* A blob is its content (objects are content-addressed), a tree maps every  *)
(* path to a blob or to Absent, and a commit's id is its number in the       *)
(* sequence of all commits ever written; id 0 stands for "no commit".        *)
CONSTANTS
  Paths,      \* paths of the working tree
  Contents,   \* file contents a user can write
  Marked,     \* a file carrying conflict markers, written by the textual merge
  Absent      \* the path is not in the tree

Blobs == Contents \cup {Marked}
Trees == [Paths -> Blobs \cup {Absent}]
EmptyTree == [p \in Paths |-> Absent]
BlobsOf(t) == {t[p] : p \in Paths} \ {Absent}

----------------------------------------------------------------------------
(* The commit graph. g is the sequence of commits, have the set of commits   *)
(* whose object is in the store; a walk stops at an object that is missing.  *)

FirstParent(g, c) == IF g[c].parents = <<>> THEN 0 ELSE Head(g[c].parents)

TreeOf(g, c) == IF c = 0 THEN EmptyTree ELSE g[c].tree

\* walk_reachable, restricted to commits
Reachable(g, have, tips) ==
  LET from[c \in 0..Len(g)] ==
        IF c \in have
        THEN {c} \cup UNION {from[p] : p \in Range(g[c].parents)}
        ELSE {}
  IN  UNION {from[c] : c \in tips}

\* merge_base's `ancestors` fails when a commit is missing
Whole(g, have, tips) ==
  \A c \in Reachable(g, 1..Len(g), tips) : c \in have

\* the first-parent chain of c, newest first
Chain(g, c) ==
  LET chain[x \in 0..Len(g)] ==
        IF x = 0 THEN <<>> ELSE <<x>> \o chain[FirstParent(g, x)]
  IN  chain[c]

\* is_ancestor follows first parents only
IsAncestor(g, a, c) == a \in Range(Chain(g, c))

\* the newest commit of b's first-parent chain that is an ancestor of a; the
\* root of b when there is none
MergeBase(g, a, b) ==
  LET chain  == Chain(g, b)
      common == {i \in DOMAIN chain :
                   chain[i] \in Reachable(g, 1..Len(g), {a})}
  IN  IF common = {} THEN Last(chain)
      ELSE chain[CHOOSE i \in common : \A j \in common : i <= j]

\* the commits of c's first-parent chain above base, oldest first
Since(g, base, c) ==
  Reverse(SelectSeq(Chain(g, c), LAMBDA x : ~ IsAncestor(g, x, base)))

----------------------------------------------------------------------------
(* three_way, path by path.                                                  *)

\* Option::or
Or(x, y) == IF x = Absent THEN y ELSE x

\* the chosen entry, and whether both sides changed the path differently
CombineEntry(b, o, t) ==
  IF b # Absent /\ t = b THEN [entry |-> Or(o, b), clash |-> FALSE]
  ELSE IF b # Absent /\ o = b THEN [entry |-> Or(t, b), clash |-> FALSE]
  ELSE [entry |-> Or(o, t),
        clash |-> o # t /\ (b # Absent \/ Absent \notin {o, t})]

\* three_way_textual: two present versions that clash are merged line by line;
\* `resolved` is what the line merge produced, Marked when it left markers
CombineTextually(b, o, t, resolved) ==
  LET c == CombineEntry(b, o, t)
  IN  IF c.clash /\ Absent \notin {o, t}
      THEN [entry |-> resolved, clash |-> resolved = Marked]
      ELSE c

\* `how` is the content the textual strategy produced, or "union"
CombineTrees(base, ours, theirs, how) ==
  LET each == [p \in Paths |->
        IF how = "union" THEN CombineEntry(base[p], ours[p], theirs[p])
        ELSE CombineTextually(base[p], ours[p], theirs[p], how)]
  IN  [tree      |-> [p \in Paths |-> each[p].entry],
       conflicts |-> {p \in Paths : each[p].clash}]

-----------------------------------------------------------------------------
(* The local repository of origin-vcs: the object store, refs, index,        *)
(* working tree, stash, commit log and the MMR over it, and the commands     *)
(* that change them. Every command holds the store lock from open to drop,   *)
(* so commands do not interleave; commit and merge may be killed between two *)
(* of their file writes, which are atomic one by one. Paths are numbers: the *)
(* order of a tree's entries.                                                *)
CONSTANTS
  Branches,     \* branch names
  Main,         \* the branch `init` puts HEAD on
  Menus,        \* what a user does, one per behaviour: the commands they draw
                \* on, and the bounds on their edits and on commits written
  MaxStash      \* bound on the stash stack

VARIABLES
  menu,         \* the commands and bounds of this behaviour
  edits,        \* number of edits so far
  commits,      \* every commit ever written: [tree, parents]
  have, blobs,  \* commit and blob objects present in the store
  heads, HEAD,  \* refs/heads (0: no such ref) and the branch HEAD names
  tag,          \* refs/tags: the commit the one tag points at (0: none)
  tracking,     \* refs/remotes: tip of the one tracking ref (0: none)
  index, disk,  \* the staged tree and the working tree
  sparse,       \* SPARSE: paths checked out ({}: all)
  mmr, log,     \* leaves of mmr.json, ids of commit-log.json
  stash,        \* stash.json, newest first
  merging,      \* MERGE_STATE
  rebasing,     \* REBASE_STATE
  torn,         \* a command was killed between mmr.json and commit-log.json
  straygc,      \* gc ran while index, tracking ref or a state file named an
                \* object that no branch, tag or stash reaches
  moved         \* the branch moved, or HEAD did, since MERGE_STATE was written

vars == <<menu, edits, commits, have, blobs, heads, HEAD, tag, tracking, index, disk,
          sparse, mmr, log, stash, merging, rebasing, torn, straygc, moved>>
objects == <<commits, have, blobs>>
refs == <<heads, HEAD, tag, tracking>>
trees == <<index, disk, sparse>>
ledger == <<mmr, log, torn>>
states == <<stash, merging, rebasing>>
ghosts == <<straygc, moved>>

NoMerge == [branch |-> Main, head |-> 0, other |-> 0]
NoRebase == [branch |-> Main, orig |-> 0, cur |-> 0, rest |-> <<>>]
Actions == {"pick", "squash", "drop", "edit"}

Can(command) == command \in menu.can
tip == heads[HEAD]
Refs == {heads[b] : b \in Branches} \ {0}
Room(n) == Len(commits) + n <= menu.commits /\ Len(mmr) + n <= menu.commits

\* The state after cmd_init.
Init ==
  /\ menu \in Menus /\ edits = 0
  /\ commits = <<>> /\ have = {} /\ blobs = {}
  /\ heads = [b \in Branches |-> 0] /\ HEAD = Main /\ tag = 0 /\ tracking = 0
  /\ index = EmptyTree /\ disk = EmptyTree /\ sparse = {}
  /\ mmr = <<>> /\ log = <<>> /\ stash = <<>>
  /\ merging = NoMerge /\ rebasing = NoRebase
  /\ torn = FALSE /\ straygc = FALSE /\ moved = FALSE

----------------------------------------------------------------------------
(* Store operations shared by the commands.                                  *)

\* A kill after the first `cut` writes leaves the later ones undone.
All == 9
Cuts == IF Can("kill") THEN {0, 1, 2, All} ELSE {All}
Write(n, cut, new, old) == IF cut >= n THEN new ELSE old

\* write_tree and write_commit: the new commit gets the next id
NewCommit(t, parents) ==
  /\ commits' = Append(commits, [tree |-> t, parents |-> parents])
  /\ have' = have \cup {Len(commits) + 1}
NewId == Len(commits) + 1

\* Mutant: the log is written before the MMR.
LandLogFirst(b, c, cut) ==
  /\ heads' = Write(1, cut, [heads EXCEPT ![b] = c], heads)
  /\ mmr' = Write(3, cut, Append(mmr, c), mmr)
  /\ log' = Write(2, cut, Append(log, c), log)
  /\ torn' = (torn \/ cut = 2)

\* write_ref, save_mmr, commit-log.json: in that order
Land(b, c, cut) ==
  /\ heads' = Write(1, cut, [heads EXCEPT ![b] = c], heads)
  /\ mmr' = Write(2, cut, Append(mmr, c), mmr)
  /\ log' = Write(3, cut, Append(log, c), log)
  /\ torn' = (torn \/ cut = 2)

MoveRef(b, c) ==
  /\ heads' = [heads EXCEPT ![b] = c]
  /\ UNCHANGED ledger

InScope(p, scope) == scope = {} \/ p \in scope

\* the entries ensure_tree_on_disk cannot write because their blob is gone
Unreadable(t, scope) ==
  {p \in Paths : InScope(p, scope) /\ t[p] \notin blobs' \cup {Absent}}

\* ensure_tree_on_disk: files that are not in the tree go first, then the
\* entries are written in order up to the first that cannot be read; outside
\* the sparse set nothing is touched
OnDisk(t, scope) ==
  [p \in Paths |->
     IF /\ InScope(p, scope)
        /\ t[p] = Absent \/ \A q \in Unreadable(t, scope) : p < q
     THEN t[p] ELSE disk[p]]

\* save_index and ensure_tree_on_disk
CheckOut(t) ==
  /\ index' = t
  /\ disk' = OnDisk(t, sparse)
  /\ UNCHANGED sparse

\* what a command does after ensure_tree_on_disk is skipped when that fails
Then(t, new, old) == IF Unreadable(t, sparse) = {} THEN new ELSE old

Readable(c) == c \in have /\ (FirstParent(commits, c) = 0
                              \/ FirstParent(commits, c) \in have)

\* the objects gc keeps: reachable from branches, tags and stashes
KeptCommits == Reachable(commits, have, Refs \cup {tag} \cup Range(stash))
KeptBlobs == UNION {BlobsOf(commits[c].tree) : c \in KeptCommits}

----------------------------------------------------------------------------
(* Working tree and index.                                                   *)

Edit(p, v) ==
  /\ Can("edit") /\ disk[p] # v /\ edits < menu.edits
  /\ edits' = edits + 1
  /\ disk' = [disk EXCEPT ![p] = v]
  /\ UNCHANGED <<menu, objects, refs, index, sparse, ledger, states, ghosts>>

\* cmd_add of files or of a directory; a path that is not a file is an error
Add(ps) ==
  /\ Can("add") /\ ps # {} /\ \A p \in ps : disk[p] # Absent
  /\ blobs' = blobs \cup {disk[p] : p \in ps}
  /\ index' = [p \in Paths |-> IF p \in ps THEN disk[p] ELSE index[p]]
  /\ UNCHANGED <<menu, edits, commits, have, refs, disk, sparse, ledger, states, ghosts>>

\* cmd_rm: the file stays on disk
Rm(p) ==
  /\ Can("rm") /\ index[p] # Absent
  /\ index' = [index EXCEPT ![p] = Absent]
  /\ UNCHANGED <<menu, edits, objects, refs, disk, sparse, ledger, states, ghosts>>

\* Mutant: completing a merge forgets the branch's own side.
CommitOtherSideOnly(amend, cut) ==
  /\ Can("commit") /\ Room(1)
  /\ index # EmptyTree \/ merging # NoMerge
  /\ amend => Can("amend") /\ merging = NoMerge /\ tip \in have
  /\ NewCommit(index,
       IF amend THEN commits[tip].parents
       ELSE IF merging # NoMerge THEN <<merging.other>>
       ELSE IF tip # 0 THEN <<tip>> ELSE <<>>)
  /\ Land(HEAD, NewId, cut)
  /\ merging' = Write(4, cut, NoMerge, merging)
  /\ moved' = (merging' # NoMerge)
  /\ UNCHANGED <<menu, edits, blobs, HEAD, tag, tracking, trees, stash,
                 rebasing, straygc>>

\* cmd_commit: MERGE_STATE, when there is one, supplies the parents
Commit(amend, cut) ==
  /\ Can("commit") /\ Room(1)
  /\ index # EmptyTree \/ merging # NoMerge
  /\ amend => Can("amend") /\ merging = NoMerge /\ tip \in have
  /\ NewCommit(index,
       IF amend THEN commits[tip].parents
       ELSE IF merging # NoMerge THEN <<merging.head, merging.other>>
       ELSE IF tip # 0 THEN <<tip>> ELSE <<>>)
  /\ Land(HEAD, NewId, cut)
  /\ merging' = Write(4, cut, NoMerge, merging)
  /\ moved' = (merging' # NoMerge)
  /\ UNCHANGED <<menu, edits, blobs, HEAD, tag, tracking, trees, stash, rebasing,
                 straygc>>

----------------------------------------------------------------------------
(* Branches, tags, checkout, reset.                                          *)

\* cmd_branch <name>
CreateBranch(b, from) ==
  /\ Can("branch") /\ heads[b] = 0
  /\ from \in have /\ (from = tip \/ Can("detach"))
  /\ MoveRef(b, from)
  /\ UNCHANGED <<menu, edits, objects, HEAD, tag, tracking, trees, states, ghosts>>

\* cmd_branch --delete: no check that the branch is merged or checked out
DeleteBranch(b) ==
  /\ Can("delete") /\ heads[b] # 0
  /\ MoveRef(b, 0)
  /\ moved' = (moved \/ (merging # NoMerge /\ b = HEAD))
  /\ UNCHANGED <<menu, edits, objects, HEAD, tag, tracking, trees, states, straygc>>

\* cmd_branch --move: HEAD follows, MERGE_STATE and REBASE_STATE do not
MoveBranch(old, new) ==
  /\ Can("move") /\ heads[old] # 0 /\ heads[new] = 0
  /\ heads' = [heads EXCEPT ![new] = heads[old], ![old] = 0]
  /\ HEAD' = IF HEAD = old THEN new ELSE HEAD
  /\ moved' = (moved \/ merging # NoMerge)
  /\ UNCHANGED <<menu, edits, objects, tag, tracking, trees, ledger, states, straygc>>

\* cmd_tag: create at HEAD, or --delete
Tag ==
  /\ Can("tag")
  /\ \/ tag = 0 /\ tip # 0 /\ tag' = tip
     \/ tag # 0 /\ tag' = 0
  /\ UNCHANGED <<menu, edits, objects, heads, HEAD, tracking, trees, ledger, states,
                 ghosts>>

\* cmd_checkout: the sparse set is written first; a state file of a merge or
\* a rebase stays; a target that is not a branch leaves HEAD alone
Checkout(b, c, scope) ==
  /\ Can("checkout")
  /\ heads[b] = c \/ (Can("detach") /\ b = HEAD)
  /\ scope = {} \/ Can("sparse")
  /\ UNCHANGED <<menu, edits, objects, heads, tag, tracking, ledger, states, straygc>>
  /\ sparse' = scope
  /\ IF c \in have
     THEN /\ HEAD' = b
          /\ index' = commits[c].tree
          /\ disk' = OnDisk(commits[c].tree, scope)
          /\ moved' = (moved \/ (merging # NoMerge /\ b # HEAD))
     ELSE UNCHANGED <<HEAD, index, disk, moved>>

\* cmd_reset [--mode hard]
Reset(c, hard) ==
  /\ Can("reset") /\ c \in have
  /\ UNCHANGED <<menu, edits, objects, HEAD, tag, tracking, states, straygc>>
  /\ MoveRef(HEAD, c)
  /\ IF hard THEN CheckOut(commits[c].tree) ELSE UNCHANGED trees
  /\ moved' = (moved \/ (merging # NoMerge /\ c # tip))

----------------------------------------------------------------------------
(* Merge.                                                                    *)

\* The strategies: "union", or the content the line merge of the textual
\* strategy writes for the files that clash in this command. The line merge
\* reads the blobs it merges, which are there unless gc took them.
Hows == {"union"} \cup IF Can("textual") /\ ~ straygc THEN Blobs ELSE {}
Written(how) == Blobs \cap {how}

\* cmd_merge: nothing to do, fast-forward, conflicts left to the user, or a
\* merge commit
Merge(other, how, cut) ==
  LET base   == MergeBase(commits, tip, other)
      merged == CombineTrees(commits[base].tree, commits[tip].tree,
                             commits[other].tree, how)
  IN  /\ Can("merge") /\ other # 0 /\ tip # 0
      /\ Whole(commits, have, {tip, other})
      /\ base # other
      /\ IF base = tip
         THEN /\ UNCHANGED <<objects, merging>>
              /\ MoveRef(HEAD, other)
              /\ CheckOut(commits[other].tree)
              /\ moved' = (moved \/ merging # NoMerge)
         ELSE /\ blobs' = blobs \cup Written(how)
              /\ IF merged.conflicts # {}
                 THEN /\ merging' = [branch |-> HEAD, head |-> tip,
                                     other |-> other]
                      /\ moved' = FALSE
                      /\ CheckOut(merged.tree)
                      /\ UNCHANGED <<commits, have, heads, ledger>>
                 ELSE /\ Room(1)
                      /\ NewCommit(merged.tree, <<tip, other>>)
                      /\ Land(HEAD, NewId, cut)
                      /\ moved' = (moved \/ merging # NoMerge)
                      /\ IF cut = All THEN CheckOut(merged.tree)
                         ELSE UNCHANGED trees
                      /\ UNCHANGED merging
      /\ UNCHANGED <<menu, edits, HEAD, tag, tracking, stash, rebasing, straygc>>

\* abort_merge
MergeAbort ==
  /\ Can("merge") /\ merging # NoMerge /\ merging.head \in have
  /\ UNCHANGED <<menu, edits, objects, HEAD, tag, tracking, stash, rebasing, straygc>>
  /\ MoveRef(merging.branch, merging.head)
  /\ CheckOut(commits[merging.head].tree)
  /\ merging' = Then(index', NoMerge, merging)
  /\ moved' = (merging' # NoMerge)

----------------------------------------------------------------------------
(* Stash.                                                                    *)

\* cmd_stash push: the snapshot is a commit on no branch and in no log
StashPush ==
  /\ Can("stash") /\ Room(1) /\ Len(stash) < MaxStash
  /\ tip \in have \cup {0} /\ disk # TreeOf(commits, tip)
  /\ blobs' = blobs \cup BlobsOf(disk)
  /\ NewCommit(disk, IF tip = 0 THEN <<>> ELSE <<tip>>)
  /\ stash' = <<NewId>> \o stash
  /\ IF tip # 0 THEN CheckOut(commits[tip].tree)
     ELSE index' = EmptyTree /\ UNCHANGED <<disk, sparse>>
  /\ UNCHANGED <<menu, edits, refs, ledger, merging, rebasing, ghosts>>

\* apply_stash: merged with the index, not with the files on disk, and the
\* conflicts it finds are discarded
StashApply(i, pop) ==
  LET s == stash[i]
  IN  /\ Can("stash") /\ i \in DOMAIN stash /\ Readable(s)
      /\ UNCHANGED <<menu, edits, objects, refs, ledger, merging, rebasing, ghosts>>
      /\ CheckOut(CombineTrees(TreeOf(commits, FirstParent(commits, s)), index,
                               commits[s].tree, "union").tree)
      /\ stash' = IF pop THEN Then(index', RemoveAt(stash, i), stash) ELSE stash

StashDrop(i) ==
  /\ Can("stash") /\ i \in DOMAIN stash
  /\ stash' = RemoveAt(stash, i)
  /\ UNCHANGED <<menu, edits, objects, refs, trees, ledger, merging, rebasing, ghosts>>

----------------------------------------------------------------------------
(* Replaying commits: cherry-pick, rebase, rebase -i.                        *)

\* replayed_commit: c's change against its first parent, applied to onto
Replayed(g, c, onto, how) ==
  CombineTrees(TreeOf(g, FirstParent(g, c)), g[onto].tree, g[c].tree, how)

\* replay_one over a list of commits, each landed on the branch before the
\* next is tried; the first that conflicts, or whose tree cannot be written
\* out, ends the command
ReplayOne(acc, c, how) ==
  LET r == Replayed(acc.g, c, acc.tip, how)
      n == Len(acc.g) + 1
  IN  IF acc.stop \/ r.conflicts # {} THEN [acc EXCEPT !.stop = TRUE]
      ELSE [g    |-> Append(acc.g, [tree |-> r.tree, parents |-> <<acc.tip>>]),
            tip  |-> n,
            made |-> Append(acc.made, n),
            stop |-> Unreadable(r.tree, sparse) # {}]

\* cmd_cherry_pick (one commit) and cmd_rebase (a branch)
Replay(list, how) ==
  /\ tip # 0 /\ list # <<>> /\ Room(Len(list))
  /\ blobs' = blobs \cup Written(how)
  /\ LET done == FoldLeft(LAMBDA acc, c : ReplayOne(acc, c, how),
                          [g |-> commits, tip |-> tip, made |-> <<>>,
                           stop |-> FALSE], list)
     IN  /\ done.made # <<>>
         /\ commits' = done.g /\ have' = have \cup Range(done.made)
         /\ heads' = [heads EXCEPT ![HEAD] = done.tip]
         /\ mmr' = mmr \o done.made /\ log' = log \o done.made
         /\ CheckOut(done.g[done.tip].tree)
  /\ moved' = (moved \/ merging # NoMerge)
  /\ UNCHANGED <<menu, edits, HEAD, tag, tracking, states, torn, straygc>>

CherryPick(c, how) ==
  Can("cherry") /\ Readable(c) /\ Replay(<<c>>, how)

Rebase(b, how) ==
  /\ Can("rebase") /\ heads[b] # 0 /\ tip # 0
  /\ Whole(commits, have, {tip, heads[b]})
  /\ Replay(Since(commits, MergeBase(commits, tip, heads[b]), heads[b]), how)

\* parse_rebase_todo: every commit to replay, once, in any order
Plans(list) ==
  {[i \in DOMAIN list |-> [action |-> a[i], id |-> list[f[i]]]] :
     <<a, f>> \in [DOMAIN list -> Actions] \X
                  {f \in [DOMAIN list -> DOMAIN list] : IsInjective(f)}}

\* one entry of apply_rebase_plan; reword is a pick with another message,
\* fixup a squash with another message, merge a pick of a merge commit
ApplyEntry(acc, e, how) ==
  LET onto == IF e.action = "squash" THEN acc.last ELSE acc.cur
      r    == Replayed(acc.g, e.id, onto, how)
      c    == [tree    |-> r.tree,
               parents |-> IF e.action = "squash" THEN acc.g[onto].parents
                           ELSE <<onto>>]
      n    == Len(acc.g) + 1
  IN  IF acc.end # "go" THEN [acc EXCEPT !.rest = Append(acc.rest, e)]
      ELSE IF e.action = "drop" THEN acc
      ELSE IF e.action = "squash" /\ acc.last = 0
      THEN [acc EXCEPT !.end = "failed"]
      ELSE IF r.conflicts # {} THEN [acc EXCEPT !.end = "failed"]
      ELSE [acc EXCEPT !.g = Append(acc.g, c), !.cur = n, !.last = n,
                       !.end = IF e.action = "edit" THEN "paused" ELSE "go"]

ApplyPlan(start, plan, how) ==
  FoldLeft(LAMBDA acc, e : ApplyEntry(acc, e, how),
           [g |-> commits, cur |-> start, last |-> 0, end |-> "go",
            rest |-> <<>>], plan)

\* apply_rebase_plan, then finish_rebase: the branch moves, and one leaf is
\* appended, only when the whole plan has been applied. st is the REBASE_STATE
\* on disk while the plan runs.
RunPlan(st, start, how) ==
  LET done == ApplyPlan(start, st.rest, how)
  IN  /\ Room(Len(st.rest))
      /\ commits' = done.g
      /\ have' = have \cup (NewId..Len(done.g))
      /\ blobs' = blobs \cup Written(how)
      /\ \/ /\ done.end = "go"
            /\ Land(st.branch, done.cur, All)
            /\ CheckOut(done.g[done.cur].tree)
            /\ rebasing' = Then(index', NoRebase, st)
            /\ moved' = (moved \/ merging # NoMerge)
         \/ /\ done.end = "paused"
            /\ rebasing' = [st EXCEPT !.cur = done.cur, !.rest = done.rest]
            /\ CheckOut(done.g[done.cur].tree)
            /\ UNCHANGED <<heads, ledger, moved>>
         \/ /\ done.end = "failed"
            /\ rebasing' = st
            /\ UNCHANGED <<heads, trees, ledger, moved>>
      /\ UNCHANGED <<menu, edits, HEAD, tag, tracking, stash, merging, straygc>>

\* interactive_rebase: a commit below HEAD rewrites the current branch above
\* it, any other commit is replayed onto HEAD
RebaseInteractive(c, how) ==
  LET below == c # tip /\ IsAncestor(commits, c, tip)
      start == IF below THEN c ELSE tip
      list  == IF below THEN Since(commits, c, tip)
               ELSE Since(commits, MergeBase(commits, tip, c), c)
  IN  /\ Can("interactive") /\ tip # 0
      /\ Whole(commits, have, {tip, c})
      /\ list # <<>>
      /\ \E plan \in Plans(list) :
           RunPlan([branch |-> HEAD, orig |-> tip, cur |-> start,
                    rest |-> plan], start, how)

\* continue_rebase: from the branch tip, whatever it is now
RebaseContinue(how) ==
  /\ Can("interactive") /\ rebasing # NoRebase
  /\ heads[rebasing.branch] # 0
  /\ \A i \in DOMAIN rebasing.rest : Readable(rebasing.rest[i].id)
  /\ RunPlan(rebasing, heads[rebasing.branch], how)

\* abort_rebase
RebaseAbort ==
  /\ Can("interactive") /\ rebasing # NoRebase /\ rebasing.orig \in have
  /\ UNCHANGED <<menu, edits, objects, HEAD, tag, tracking, stash, merging, straygc>>
  /\ MoveRef(rebasing.branch, rebasing.orig)
  /\ CheckOut(commits[rebasing.orig].tree)
  /\ rebasing' = Then(index', NoRebase, rebasing)
  /\ moved' = (moved \/ merging # NoMerge)

----------------------------------------------------------------------------
(* Fetch and gc.                                                             *)

\* fetch with tracking: the remote is one commit ahead of HEAD, and differs
\* from it in one file; its objects are imported and no branch moves
Fetch(p, v) ==
  /\ Can("fetch") /\ Room(1) /\ tip \in have \cup {0}
  /\ blobs' = blobs \cup {v}
  /\ NewCommit([TreeOf(commits, tip) EXCEPT ![p] = v],
               IF tip = 0 THEN <<>> ELSE <<tip>>)
  /\ tracking' = NewId
  /\ UNCHANGED <<menu, edits, heads, HEAD, tag, trees, ledger, states, ghosts>>

\* cmd_gc [--prune-remotes]
Gc(prune) ==
  /\ Can("gc")
  /\ have' = have \cap KeptCommits
  /\ blobs' = blobs \cap KeptBlobs
  /\ tracking' = IF prune /\ tracking \notin KeptCommits THEN 0 ELSE tracking
  /\ straygc' = (straygc
       \/ ~ BlobsOf(index) \subseteq KeptBlobs
       \/ ~ {tracking', merging.head, merging.other, rebasing.orig}
              \cup {rebasing.rest[i].id : i \in DOMAIN rebasing.rest}
            \subseteq KeptCommits \cup {0})
  /\ UNCHANGED <<menu, edits, commits, heads, HEAD, tag, trees, ledger, states, moved>>

----------------------------------------------------------------------------
(* Commands that only read.                                                  *)

\* cmd_verify: every commit below a branch, a tag or a tracking ref is present
\* with its blobs, and the log replays to the root of the MMR
Walked == Reachable(commits, DOMAIN commits, (Refs \cup {tag, tracking}) \ {0})
Broken == {c \in Walked :
             c \notin have \/ ~ BlobsOf(commits[c].tree) \subseteq blobs}
VerifyPasses == Broken = {} /\ mmr = log /\ Walked # {}

\* cmd_diff
Differing(a, b) == {p \in Paths : a[p] # b[p]}

\* check_tree_drift (verify --tree)
Drift == {p \in Differing(disk, TreeOf(commits, tip)) : InScope(p, sparse)}

\* cmd_blame of a one-line file: the oldest commit of the history of c that
\* holds the line c holds
Blamed(c, p) ==
  LET chain   == Chain(commits, c)
      holders == {i \in DOMAIN chain :
                    commits[chain[i]].tree[p] = commits[c].tree[p]}
  IN  chain[CHOOSE i \in holders : \A j \in holders : j <= i]

----------------------------------------------------------------------------
Next ==
  \/ \E p \in Paths, v \in Contents \cup {Absent} : Edit(p, v)
  \/ \E ps \in SUBSET Paths : Add(ps)
  \/ \E p \in Paths : Rm(p)
  \/ \E amend \in BOOLEAN, cut \in Cuts : Commit(amend, cut)
  \/ \E b \in Branches, c \in DOMAIN commits : CreateBranch(b, c)
  \/ \E b \in Branches : DeleteBranch(b)
  \/ \E old, new \in Branches : MoveBranch(old, new)
  \/ Tag
  \/ \E b \in Branches, c \in DOMAIN commits, s \in {{}} \cup {{p} : p \in Paths} :
       Checkout(b, c, s)
  \/ \E c \in DOMAIN commits, hard \in BOOLEAN : Reset(c, hard)
  \/ \E c \in Refs \cup {tracking}, how \in Hows, cut \in Cuts : Merge(c, how, cut)
  \/ MergeAbort
  \/ StashPush
  \/ \E i \in 1..MaxStash, pop \in BOOLEAN : StashApply(i, pop)
  \/ \E i \in 1..MaxStash : StashDrop(i)
  \/ \E c \in DOMAIN commits, how \in Hows : CherryPick(c, how)
  \/ \E b \in Branches, how \in Hows : Rebase(b, how)
  \/ \E c \in DOMAIN commits, how \in Hows : RebaseInteractive(c, how)
  \/ \E how \in Hows : RebaseContinue(how)
  \/ RebaseAbort
  \/ \E p \in Paths, v \in Contents : Fetch(p, v)
  \/ \E prune \in BOOLEAN : Gc(prune)

Spec == Init /\ [][Next]_vars

----------------------------------------------------------------------------
(* Properties.                                                               *)

\* cmd_verify finds every object it walks, and every stash can still be
\* applied. Holds through gc, kills, rebases and resets, as long as gc did not
\* run while the index, a tracking ref or a state file alone named an object.
HistoryIsWhole ==
  ~ straygc =>
    /\ Broken = {}
    /\ \A s \in Range(stash) :
         Readable(s) /\ BlobsOf(commits[s].tree) \subseteq blobs

\* append_commit_leaf writes mmr.json, then commit-log.json: cmd_verify finds
\* the two in agreement unless a command was killed between the writes, and
\* then the log only lacks leaves the MMR has.
LogFollowsMmr ==
  /\ ~ torn /\ ~ straygc /\ Refs # {} => VerifyPasses
  /\ Range(log) \subseteq Range(mmr) /\ Len(log) <= Len(mmr)

\* The commits that a branch, a tag or a stash still leads to.
Held == Reachable(commits, DOMAIN commits, (Refs \cup {tag} \cup Range(stash)) \ {0})

\* The commands whose purpose is to let commits go.
LetsGo ==
  \/ \E cut \in Cuts : Commit(TRUE, cut)
  \/ \E c \in DOMAIN commits, hard \in BOOLEAN : Reset(c, hard)
  \/ \E b \in Branches : DeleteBranch(b)
  \/ Tag
  \/ \E i \in DOMAIN stash : StashDrop(i) \/ StashApply(i, TRUE)
  \/ \E c \in Range(Chain(commits, tip)), how \in Hows : RebaseInteractive(c, how)

\* A state file from before the branch, or HEAD, moved.
GoesBack ==
  \/ moved /\ (MergeAbort \/ \E cut \in Cuts : Commit(FALSE, cut))
  \/ heads[rebasing.branch] # rebasing.orig /\ RebaseAbort

\* Committed work is let go only on request: whatever merges, picks, rebases,
\* stops at an `edit` and continuations come between, killed or not, what a
\* branch, a tag or a stash led to is still led to afterwards. The exceptions
\* are the commands meant to let go, and a commit or an abort that goes by a
\* MERGE_STATE or REBASE_STATE older than the last move of its branch. Nothing
\* is said of edits that were never committed: checkout, merge, a hard reset,
\* an abort and a replay write over them.
CommitsAreLetGoOnRequest == Held \subseteq Held' \/ LetsGo \/ GoesBack

\* The common ancestors of a and b that no other common ancestor descends from.
Nearest(g, a, b) ==
  LET below(c) == Reachable(g, DOMAIN g, {c})
      common == below(a) \cap below(b)
  IN  {c \in common : \A d \in common \ {c} : c \notin below(d)}

\* The first-parent line of b leads to every nearest common ancestor: what
\* merge_base takes for granted.
OnTheLine(g, a, b) == Nearest(g, a, b) # {} /\ Nearest(g, a, b) \subseteq Range(Chain(g, b))

\* The histories of MaxGraph commits, merges and unrelated ones included.
MaxGraph == 4
Histories ==
  LET lines(n) == {<<>>} \cup {<<p>> : p \in 1..n} \cup {<<p, q>> : p, q \in 1..n}
  IN  {[i \in 1..MaxGraph |-> [tree |-> EmptyTree, parents |-> h[i]]] :
         h \in {h \in [1..MaxGraph -> lines(MaxGraph - 1)] :
                  \A i \in 1..MaxGraph : Range(h[i]) \subseteq 1..(i - 1)}}

\* merge_base, which walks all parents of one side and the first parents of the
\* other, finds the lowest common ancestor when one lies on that line: checked
\* on every small history against its definition.
MergeBaseIsNearest ==
  \A g \in Histories : \A a, b \in 1..MaxGraph :
    OnTheLine(g, a, b) => Nearest(g, a, b) = {MergeBase(g, a, b)}

\* A merge that finds no conflict keeps the work of both branches: measured
\* from where they parted, a file that one side alone changed has that side's
\* content in the commit that joins the two tips. A file that one side removed
\* comes back (three_way), and histories that merged before are measured only
\* as far as OnTheLine says.
MergesKeepBothSides ==
  LET old(c, p) == TreeOf(commits, c)[p]
      new == commits'[NewId] IN
  \A other \in Refs \cup {tracking} :
    /\ Len(commits') > Len(commits) /\ Range(new.parents) = {tip, other} /\ merging = NoMerge
    /\ other # tip /\ OnTheLine(commits, tip, other)
    => \A c \in Nearest(commits, tip, other), p \in Paths :
         /\ old(tip, p) = old(c, p) /\ old(other, p) # Absent => new.tree[p] = old(other, p)
         /\ old(other, p) = old(c, p) /\ old(tip, p) # Absent => new.tree[p] = old(tip, p)

\* rebase -i with every commit picked in its order, onto the commit it already
\* sits on, reproduces the tree of the tip: apply_rebase_plan does not stop and
\* loses nothing, provided no commit of the plan removes a file.
PickingAllChangesNothing ==
  \A c \in Range(Chain(commits, tip)) :
    LET list == Since(commits, c, tip)
        plan == [i \in DOMAIN list |-> [action |-> "pick", id |-> list[i]]]
        done == ApplyPlan(c, plan, "union")
        keeps(x) == \A p \in Paths : commits[x].tree[p] = Absent =>
                      commits[FirstParent(commits, x)].tree[p] = Absent
    IN  (\A x \in Range(list) : keeps(x)) =>
          done.end = "go" /\ done.g[done.cur].tree = commits[tip].tree

\* After checkout, a hard reset or an abort, verify --tree finds no drift from
\* the commit that was asked for: stale files are removed, and files outside
\* the sparse set do not count.
CheckoutLeavesNoDrift ==
  (\/ \E b \in Branches, c \in have, s \in SUBSET Paths :
        heads[b] = c /\ Checkout(b, c, s)
   \/ \E c \in have : Reset(c, TRUE)
   \/ HEAD = rebasing.branch /\ RebaseAbort
   \/ HEAD = merging.branch /\ MergeAbort)
  /\ ~ straygc => Drift' = {}

\* cmd_blame names a commit that brought the line in: it holds the line and
\* its parent does not.
BlameNamesAnIntroducer ==
  \A p \in Paths : tip # 0 /\ commits[tip].tree[p] # Absent =>
    LET c == Blamed(tip, p)
    IN  /\ commits[c].tree[p] = commits[tip].tree[p]
        /\ TreeOf(commits, FirstParent(commits, c))[p] # commits[c].tree[p]

WithMarkers(g) == {c \in DOMAIN g : Marked \in BlobsOf(g[c].tree)}

\* A file with conflict markers enters the history only by the user's hand,
\* through commit or stash: a merge, a cherry-pick or a rebase whose line merge
\* leaves markers stops instead of committing them.
MarkersNeedAHand ==
  WithMarkers(commits) = {} /\ WithMarkers(commits') # {} =>
    \/ \E amend \in BOOLEAN, cut \in Cuts : Commit(amend, cut)
    \/ StashPush

\* The repository verifies: history is whole and agrees with its log, the base of a
\* merge is the one its two sides have, a rebase that changes nothing loses nothing,
\* and blame names who brought a line in.
RepositoryVerifies ==
  /\ HistoryIsWhole /\ LogFollowsMmr /\ PickingAllChangesNothing /\ BlameNamesAnIntroducer
  /\ commits = <<>> /\ edits = 0 => MergeBaseIsNearest

\* Committed work is kept: commits are let go only on request, a merge keeps both
\* sides, a checkout leaves what was asked for, and conflict markers enter the
\* history only by hand.
CommandsKeepWork ==
  [][/\ CommitsAreLetGoOnRequest /\ MergesKeepBothSides
     /\ CheckoutLeavesNoDrift /\ MarkersNeedAHand]_vars
=============================================================================
