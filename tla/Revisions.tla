------------------------------ MODULE Revisions ------------------------------
(***************************************************************************)
(* The commands of origin-vcs that find their way in a history: the names  *)
(* of commits and the plan of a rebase, and bisect.                        *)
(***************************************************************************)
EXTENDS Integers, Sequences, FiniteSets, SequencesExt

-----------------------------------------------------------------------------
(***************************************************************************)
(* How origin-vcs turns what a user types into a commit, and the todo plan   *)
(* of an interactive rebase: resolve_id over refs, abbreviations and ~N, the *)
(* default plan, --autosquash, and parse_rebase_todo.                        *)
(* Text is a sequence of symbols: the hex digits of the instance, and others *)
(* that are not hex.  Two digits make a byte; a commit id is IdLen digits    *)
(* long, and short() prints all bytes but the last.                          *)
(***************************************************************************)
CONSTANTS
    RevIds,         \* ids commits can get, sequences of Digits
    Digits,         \* the hex digits
    IdLen,          \* digits of an id
    MinLen,         \* digits of the shortest abbreviation: 4 bytes of 32
    HeadText,       \* the text HEAD, no name and not hex
    RefNames,       \* branch and tag names, sequences of symbols
    Subjects,       \* commit subjects: [prefix, text]
    MaxRevs         \* bound: commits, fetched objects, branches and tags

VARIABLES
    objs,           \* the store: id -> [parents, subject]
    refs,           \* branches and tags: [kind, name] -> id
    revHead,        \* the branch HEAD names
    logged,         \* ids in the commit log
    revSteps

revVars == <<objs, refs, revHead, logged, revSteps>>

Main == CHOOSE n \in RefNames : TRUE

RevInit ==
    /\ objs = <<>>
    /\ refs = <<>>
    /\ revHead = Main
    /\ logged = {}
    /\ revSteps = 0

Has(kind, name) == [kind |-> kind, name |-> name] \in DOMAIN refs
RefAt(kind, name) == refs[[kind |-> kind, name |-> name]]
Put_(f, k, v) == [x \in DOMAIN f \cup {k} |-> IF x = k THEN v ELSE f[x]]

(***************************************************************************)
(* resolve_id.                                                             *)
(***************************************************************************)
Found(id) == [ok |-> TRUE, id |-> id, why |-> ""]
Failed_(why) == [ok |-> FALSE, id |-> <<>>, why |-> why]

\* hex::decode: digits, and an even number of them.
IsHex(text) == Range(text) \subseteq Digits
Decodes(text) == IsHex(text) /\ Len(text) % 2 = 0

\* The tips, the tags, the remote refs and the log.
Candidates == logged \cup {refs[r] : r \in DOMAIN refs}

Settle_(ms) ==
    CASE ms = {} -> Failed_("unknown")
      [] Cardinality(ms) = 1 -> Found(CHOOSE m \in ms : TRUE)
      [] OTHER -> Failed_("ambiguous")

\* What is known first; the object fanout only when nothing known matches.
ResolveShort(prefix) ==
    LET known == {id \in Candidates : IsPrefix(prefix, id)}
    IN  Settle_(IF known # {} THEN known
                ELSE {id \in DOMAIN objs : IsPrefix(prefix, id)})

ResolveName(text) ==
    CASE text = HeadText -> IF Has("heads", revHead) THEN Found(RefAt("heads", revHead))
                            ELSE Failed_("no HEAD")
      [] text # HeadText /\ Decodes(text) /\ Len(text) = IdLen -> Found(text)
      [] text # HeadText /\ Decodes(text) /\ Len(text) \in MinLen..(IdLen - 1)
            -> ResolveShort(text)
      [] text # HeadText /\ Decodes(text) /\ Len(text) < MinLen -> Failed_("too short")
      [] OTHER -> IF Has("heads", text) THEN Found(RefAt("heads", text))
                  ELSE IF Has("tags", text) THEN Found(RefAt("tags", text))
                  ELSE Failed_("unknown")

\* <text>~n: first parents, n times.
ResolveId(text, n) ==
    LET up[k \in 0..n] ==
            IF k = 0 THEN ResolveName(text)
            ELSE IF ~up[k - 1].ok THEN up[k - 1]
            ELSE IF up[k - 1].id \notin DOMAIN objs THEN Failed_("unreadable")
            ELSE IF objs[up[k - 1].id].parents = <<>> THEN Failed_("not enough")
            ELSE Found(objs[up[k - 1].id].parents[1])
    IN  up[n]

(***************************************************************************)
(* The repository grows: commits (merges too) on HEAD's branch, branches and *)
(* tags placed on what resolve_id finds, and commits that were only fetched. *)
(***************************************************************************)
FreshId(id) == id \in RevIds \ DOMAIN objs
Steps(n) == revSteps + n <= MaxRevs /\ revSteps' = revSteps + n

CommitRev(id, subject, others) ==
    /\ FreshId(id)
    /\ LET tip == ResolveName(HeadText)
           ps  == (IF tip.ok THEN <<tip.id>> ELSE <<>>) \o others
       IN  /\ others # <<>> => tip.ok /\ others[1] # tip.id
           /\ objs' = Put_(objs, id, [parents |-> ps, subject |-> subject])
    /\ refs' = Put_(refs, [kind |-> "heads", name |-> revHead], id)
    /\ logged' = logged \cup {id}
    /\ Steps(1)
    /\ UNCHANGED revHead

FetchRev(id) ==
    /\ FreshId(id)
    /\ objs # <<>>
    /\ objs' = Put_(objs, id, [parents |-> <<>>, subject |-> CHOOSE s \in Subjects : TRUE])
    /\ Steps(1)
    /\ UNCHANGED <<refs, revHead, logged>>

PlaceRef(kind, name, text, n) ==
    /\ ~Has(kind, name)
    /\ LET r == ResolveId(text, n)
       IN  r.ok /\ refs' = Put_(refs, [kind |-> kind, name |-> name], r.id)
    /\ Steps(1)
    /\ UNCHANGED <<objs, revHead, logged>>

RevNext ==
    \/ \E id \in RevIds, s \in Subjects : CommitRev(id, s, <<>>)
    \/ \E id \in RevIds, s \in Subjects, p \in DOMAIN objs : CommitRev(id, s, <<p>>)
    \/ \E id \in RevIds : FetchRev(id)
    \/ \E name \in RefNames, n \in 0..1 :
          PlaceRef("heads", name, HeadText, n) \/ PlaceRef("tags", name, HeadText, n)

(***************************************************************************)
(* rebase -i <base>: the commits after it on the first-parent line, the plan *)
(* that lists them, and how an edited plan is read back.                     *)
(***************************************************************************)
Line_(id) ==
    LET back[k \in 0..Cardinality(DOMAIN objs)] ==
            IF k = 0 THEN <<id>>
            ELSE LET l == back[k - 1]
                     c == Last(l)
                 IN  IF c \notin DOMAIN objs THEN l
                     ELSE IF objs[c].parents = <<>> THEN l
                     ELSE Append(l, objs[c].parents[1])
    IN  back[Cardinality(DOMAIN objs)]

ToReplay(base) ==
    LET l == Line_(RefAt("heads", revHead))
        k == CHOOSE i \in DOMAIN l : l[i] = base
    IN  Reverse(SubSeq(l, 1, k - 1))

Bases_ == IF Has("heads", revHead) THEN Range(Line_(RefAt("heads", revHead))) ELSE {}

Short(id) == SubSeq(id, 1, IdLen - 2)
IsMerge(id) == Len(objs[id].parents) > 1

DefaultPlan(replay, rebaseMerges) ==
    LET kept == SelectSeq(replay, LAMBDA id : ~IsMerge(id) \/ rebaseMerges)
    IN  [i \in DOMAIN kept |->
            [action |-> IF IsMerge(kept[i]) THEN "merge" ELSE "pick",
             text |-> Short(kept[i]), subject |-> objs[kept[i]].subject]]

\* The line a moved entry goes behind: the pick whose subject it repeats.
TargetOf(plan, i) ==
    {j \in DOMAIN plan :
        /\ plan[j].action = "pick"
        /\ plan[j].text # plan[i].text
        /\ plan[j].subject = [prefix |-> "", text |-> plan[i].subject.text]}

\* Lines that start with "pick" are never moved.
Moves(plan) ==
    {<<i, CHOOSE j \in TargetOf(plan, i) : \A k \in TargetOf(plan, i) : j <= k>> :
        i \in {i \in DOMAIN plan : /\ plan[i].action # "pick"
                                   /\ plan[i].subject.prefix # ""
                                   /\ TargetOf(plan, i) # {}}}

Moved(plan, from, to) == InsertAt(RemoveAt(plan, from), to, plan[from])

\* From the last entry to the first, each behind the line it was found at.
AutosquashPlan(plan) ==
    LET todo == {mv \in Moves(plan) : mv[2] < Len(plan)}
        done[k \in 0..Len(plan)] ==
            IF k = 0 THEN plan
            ELSE LET i == Len(plan) + 1 - k
                 IN  IF \E mv \in todo : mv[1] = i
                     THEN Moved(done[k - 1], i, (CHOOSE mv \in todo : mv[1] = i)[2] + 1)
                     ELSE done[k - 1]
    IN  done[Len(plan)]

ResolvePlanId(replay, text) ==
    LET r  == ResolveName(text)
        ms == {id \in Range(replay) : IsPrefix(text, id)}
    IN  CASE ~r.ok -> r
          [] r.ok /\ r.id \in Range(replay) -> r
          [] r.ok /\ r.id \notin Range(replay) /\ Decodes(text)
                /\ Len(text) \in MinLen..(IdLen - 1) -> Settle_(ms)
          [] OTHER -> Failed_("not part of this rebase")

ParseTodo(replay, texts) ==
    /\ \A i \in DOMAIN texts : ResolvePlanId(replay, texts[i]).ok
    /\ \A i, j \in DOMAIN texts :
          i # j => ResolvePlanId(replay, texts[i]) # ResolvePlanId(replay, texts[j])
    /\ Len(texts) = Len(replay)

(***************************************************************************)
(* Properties.                                                             *)
(***************************************************************************)
\* An abbreviation of a commit the repository knows (a tip, a tag, a logged
\* commit) names that commit or is refused as ambiguous, whatever else shares
\* the prefix and whatever the refs are called: resolve_short_id never picks.  An
\* odd number of digits is no abbreviation to resolve_id, since hex::decode refuses
\* it: it names the branch or tag of just that name, or nothing.
AbbreviationsNeverStray ==
    \A id \in Candidates, n \in MinLen..(IdLen - 1) :
        LET text == SubSeq(id, 1, n)
            r == ResolveId(text, 0)
        IN  IF n % 2 = 0 THEN r = Found(id) \/ r = Failed_("ambiguous")
            ELSE \/ r = Failed_("unknown")
                 \/ \E kind \in {"heads", "tags"} : Has(kind, text) /\ r = Found(RefAt(kind, text))

\* --autosquash moves lines and loses none: every line of the plan it starts
\* from is in the plan it returns, as often as before.
AutosquashLosesNothing ==
    \A base \in Bases_, merges \in BOOLEAN :
        LET plan == DefaultPlan(ToReplay(base), merges)
            new  == AutosquashPlan(plan)
        IN  /\ Len(new) = Len(plan)
            /\ \A l \in Range(plan) :
                  Cardinality({i \in DOMAIN new : new[i] = l})
                    = Cardinality({i \in DOMAIN plan : plan[i] = l})

\* A todo plan that parse_rebase_todo accepts replays every commit of the rebase
\* exactly once, however its lines abbreviate the ids: the branch that
\* finish_rebase moves never silently loses a commit the user did not drop.
AcceptedPlansCoverAll ==
    \A base \in Bases_ :
        LET replay == ToReplay(base)
            texts  == {Short(id) : id \in DOMAIN objs} \cup Range(replay)
                      \cup {r.name : r \in DOMAIN refs}
        IN  Len(replay) \in 1..2 =>
                \A todo \in [1..Len(replay) -> texts] :
                    ParseTodo(replay, todo) =>
                        Range(replay) =
                            {ResolvePlanId(replay, todo[i]).id : i \in DOMAIN todo}

-----------------------------------------------------------------------------
(***************************************************************************)
(* `origin-vcs bisect`: the session file, the suggested next commit, and   *)
(* `bisect run`, which checks out the midpoint of the window, runs the     *)
(* script and narrows the window.  A commit is bad when the culprit is     *)
(* among its ancestors or itself; the user's own marks are truthful.       *)
(***************************************************************************)
CONSTANTS ParentList,          \* commit -> sequence of its parents, earlier commits
          IdOrder,          \* the commits in the order of their ids, which are hashes
          MaxMarks,         \* bound: good, bad and skip commands
          MaxScriptErrors,  \* bound: times the script cannot be run
          MaxBisects        \* bound: `bisect run` commands

VARIABLES culprit,          \* the commit that broke things
          bisectState,      \* BISECT_STATE
          runner,           \* `bisect run`
          branch,           \* where HEAD's branch points
          reported,         \* what the last `run` printed
          bisected          \* commands so far, by kind

bisectVars == <<culprit, bisectState, runner, branch, reported, bisected>>

Commits_ == DOMAIN ParentList
Tip == Cardinality(Commits_)
Ancestry[c \in Commits_] == {c} \union UNION {Ancestry[ParentList[c][k]] : k \in DOMAIN ParentList[c]}
Bad(c) == culprit \in Ancestry[c]

\* The session: what was marked, and the last good and the last bad mark.
NoSession == [on |-> FALSE, goods |-> {}, bads |-> {}, lo |-> 0, hi |-> 0, skipped |-> {}]
AddGood(s, c) == [s EXCEPT !.goods = @ \union {c}, !.lo = c]
AddBad(s, c) == [s EXCEPT !.bads = @ \union {c}, !.hi = c]

-----------------------------------------------------------------------------
\* bisect_candidates: depth first from the tip, stopping at the good commits.
Walks == [stack : Seq(Commits_), seen : SUBSET Commits_, out : Seq(Commits_), goods : SUBSET Commits_]
Visit(w) ==
    LET id == Last(w.stack) IN
    IF id \in w.seen \union w.goods
    THEN [w EXCEPT !.stack = Front(@), !.seen = @ \union {id}]
    ELSE [w EXCEPT !.stack = Front(@) \o ParentList[id], !.seen = @ \union {id}, !.out = Append(@, id)]
Search[w \in Walks] == IF w.stack = <<>> THEN w.out ELSE Search[Visit(w)]
From(tip, goods) == Search[[stack |-> <<tip>>, seen |-> {}, out |-> <<>>, goods |-> goods]]
BisectCandidates(tip, goods, skip) == SelectSeq(From(tip, goods), LAMBDA id : id \notin skip)

\* bisect_next: the middle of the candidates of all bad commits, taken in the order of
\* their ids.  Only neighbours are compared by dedup.
Dedup(s) == FoldLeft(LAMBDA out, id : IF out # <<>> /\ Last(out) = id THEN out ELSE Append(out, id), <<>>, s)
Middle(s) == s[(Len(s) \div 2) + 1]
BisectNext(goods, bads, skip) ==
    LET order == SelectSeq(IdOrder, LAMBDA id : id \in bads)
        all == Dedup(FlattenSeq([k \in 1..Len(order) |-> BisectCandidates(order[k], goods, skip)])) IN
    IF all = <<>> THEN 0 ELSE Middle(all)

-----------------------------------------------------------------------------
\* bisect start, good, bad, skip and reset; each saves the session before it looks for
\* the next commit.
BisectStart(good, bad) ==
    /\ ~runner.on /\ ~bisectState.on
    /\ ~Bad(good) /\ Bad(bad)
    /\ bisectState' = AddBad(AddGood([NoSession EXCEPT !.on = TRUE], good), bad)
    /\ UNCHANGED <<culprit, runner, branch, reported, bisected>>
Marks(change) ==
    /\ ~runner.on /\ bisectState.on
    /\ bisected.marks < MaxMarks
    /\ bisected' = [bisected EXCEPT !.marks = @ + 1]
    /\ bisectState' = change
    /\ UNCHANGED <<culprit, runner, branch, reported>>
BisectGood(c) == ~Bad(c) /\ Marks(AddGood(bisectState, c))
BisectBad(c) == Bad(c) /\ Marks(AddBad(bisectState, c))
BisectSkip == Marks([bisectState EXCEPT !.skipped = @ \union {branch}])
BisectReset ==
    /\ ~runner.on /\ bisectState.on
    /\ bisectState' = NoSession
    /\ reported' = 0
    /\ UNCHANGED <<culprit, runner, branch, bisected>>

\* bisect run: the window is the last good and the last bad commit of the session.
RunStarts ==
    /\ ~runner.on /\ bisectState.on
    /\ bisected.runs < MaxBisects
    /\ bisected' = [bisected EXCEPT !.runs = @ + 1]
    /\ runner' = bisectState
    /\ reported' = 0
    /\ UNCHANGED <<culprit, bisectState, branch>>
\* The commits between the window's ends, oldest first.
Interior == SelectSeq(Reverse(BisectCandidates(runner.hi, {runner.lo}, runner.skipped)),
                      LAMBDA id : id # runner.hi)
\* One turn of the loop: the branch is moved to the midpoint and the script is run.
NarrowLow(mid, ok) == IF ok THEN AddGood(runner, mid) ELSE [AddBad(runner, mid) EXCEPT !.hi = runner.hi, !.lo = mid]
Narrow(mid, ok) == IF ok THEN AddGood(runner, mid) ELSE AddBad(runner, mid)
RunTests ==
    /\ runner.on /\ Interior # <<>>
    /\ branch' = Middle(Interior)
    /\ runner' = Narrow(Middle(Interior), ~Bad(Middle(Interior)))
    /\ UNCHANGED <<culprit, bisectState, reported, bisected>>
ScriptFails ==
    /\ runner.on /\ Interior # <<>>
    /\ bisected.errors < MaxScriptErrors
    /\ bisected' = [bisected EXCEPT !.errors = @ + 1]
    /\ branch' = Middle(Interior)
    /\ runner' = [runner EXCEPT !.skipped = @ \union {Middle(Interior)}]
    /\ UNCHANGED <<culprit, bisectState, reported>>
\* The loop is over: the session is saved and the first bad commit printed.
RunReports ==
    /\ runner.on /\ Interior = <<>>
    /\ bisectState' = runner
    /\ reported' = runner.hi
    /\ runner' = NoSession
    /\ UNCHANGED <<culprit, branch, bisected>>
\* The run is interrupted: what it found out was not saved.
RunInterrupted ==
    /\ runner.on
    /\ bisected.errors < MaxScriptErrors
    /\ bisected' = [bisected EXCEPT !.errors = @ + 1]
    /\ runner' = NoSession
    /\ UNCHANGED <<culprit, bisectState, branch, reported>>

BisectInit ==
    /\ culprit \in Commits_ \ {1}
    /\ bisectState = NoSession
    /\ runner = NoSession
    /\ branch = Tip
    /\ reported = 0
    /\ bisected = [marks |-> 0, errors |-> 0, runs |-> 0]
BisectRun == RunTests \/ ScriptFails \/ RunReports
BisectNext_ ==
    \/ \E c \in Commits_ : BisectGood(c) \/ BisectBad(c) \/ \E d \in Commits_ : BisectStart(c, d)
    \/ BisectSkip \/ BisectReset \/ RunStarts \/ RunInterrupted \/ BisectRun
BisectFairness == WF_bisectVars(BisectRun)
BisectSpec == BisectInit /\ [][BisectNext_]_bisectVars /\ BisectFairness

-----------------------------------------------------------------------------
\* The commit `bisect run` prints is bad, and every bad commit before it was skipped,
\* by the user or because the script could not be run: nothing the runs, interruptions
\* and marks before did makes it name a later commit than the culprit.
ReportsTheFirstBad ==
    reported # 0 =>
        /\ Bad(reported)
        /\ \A c \in Ancestry[reported] \ {reported} : Bad(c) => c \in bisectState.skipped

\* A command acts on the commit the user means: the abbreviation's, all of those
\* of a rebase plan, and the first bad one.
CommandsMeanTheirCommits ==
    /\ AbbreviationsNeverStray /\ AutosquashLosesNothing /\ AcceptedPlansCoverAll
    /\ ReportsTheFirstBad

\* `bisect run` comes to an end: every turn shrinks the window.
BisectRunEnds == []<>~runner.on
=============================================================================
