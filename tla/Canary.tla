------------------------------- MODULE Canary -------------------------------
(***************************************************************************)
(* origin-canary: embedding tokens into a source tree (embed.rs,           *)
(* strategies), the manifest and its Merkle tree, the signed commitment    *)
(* and fingerprint, the ledger, and what verify, ci and evidence conclude  *)
(* from them.  A line is its kind and the secrets on it; a hash is the     *)
(* term it is computed from; the project and its signer are one.           *)
(***************************************************************************)
EXTENDS Naturals, FiniteSets, Sequences, SequencesExt

CONSTANTS SourceFiles,        \* path -> its language, base name and place in path order
          FirstTrees,         \* trees to start from: file -> line kinds
          Plans,              \* strategy lists an embedding may be given
          NumCanaries,
          Publishers,         \* processes that may run publish
          MaxCanarySteps,     \* bound: commands
          MaxChanges          \* bound: embeddings and edits of the tree

VARIABLES tree,               \* file -> lines
          run_,               \* the embedding under way
          cmanifest,          \* the manifest on disk
          commitment,         \* the signed commitment on disk
          fprint,             \* the signed fingerprint on disk
          ledger,             \* what was appended: records and line ends
          pubs,               \* publisher -> what it appended and was told
          csteps,
          edits

canaryVars == <<tree, run_, cmanifest, commitment, fprint, ledger, pubs, csteps, edits>>

CodeLangs == {"py", "js", "rs", "sol"}
Line(kind) == [kind |-> kind, secrets |-> {}]
Holding(kind, secret) == [kind |-> kind, secrets |-> {secret}]
NoTree == [f \in {} |-> <<>>]
NoRun == [on |-> FALSE, plan |-> <<>>, next |-> 0, used |-> {}, tokens |-> <<>>]
NoManifest_ == [tokens |-> <<>>, root |-> <<>>, hash |-> <<>>]
NoCommitment == [root |-> <<>>, structure |-> <<>>, at |-> 0]
NoPrint == [archive |-> NoTree, hash |-> <<>>, root |-> <<>>, digest |-> NoCommitment]
\* alone: nobody else wrote to the ledger since this publisher began.
Idle_ == [pc |-> "idle", fp |-> NoPrint, said |-> 0, alone |-> TRUE]

\* generate_canary_token: the ids and the salt are given once, the index varies,
\* so embedding again makes the same secrets.
Secret(i) == i

\* hash_source_tree: the files with a code extension in path order, the base name
\* and the lines of each, with nothing between them.
CodeFiles == {f \in DOMAIN tree : SourceFiles[f].lang \in CodeLangs}
PathOrder == SetToSortSeq(CodeFiles, LAMBDA f, g : SourceFiles[f].at < SourceFiles[g].at)
TreeHash == FlattenSeq([i \in 1..Len(PathOrder) |->
                <<Line(SourceFiles[PathOrder[i]].base)>> \o tree[PathOrder[i]]])

-----------------------------------------------------------------------------
\* Where the variable strategies put their line: how many lines stay before it.
LastOf(lines, kinds) ==
    LET at == {i \in 1..Len(lines) : lines[i].kind \in kinds} IN
    IF at = {} THEN 0 ELSE CHOOSE i \in at : \A j \in at : j <= i
Bigger(a, b) == IF a >= b THEN a ELSE b
PythonPoint(lines) ==
    LET last == LastOf(lines, {"import"})
        code == {i \in (last + 1)..Len(lines) : lines[i].kind \notin {"blank", "comment", "long"}}
        point == IF last = 0 THEN 0
                 ELSE IF code = {} THEN last
                 ELSE (CHOOSE i \in code : \A j \in code : i <= j) - 1
    IN  Bigger(point, LastOf(SubSeq(lines, 1, IF Len(lines) < 5 THEN Len(lines) ELSE 5), {"shebang"}))
JsPoint(lines) ==
    Bigger(LastOf(lines, {"import"}),
           LastOf(SubSeq(lines, 1, IF Len(lines) < 5 THEN Len(lines) ELSE 5), {"shebang"}))
RustPoint(lines) == LastOf(lines, {"import", "mod"})
SolidityPoint(lines) ==
    LET contract == {i \in 1..Len(lines) : lines[i].kind = "contract"}
        upto == IF contract = {} THEN Len(lines)
                ELSE CHOOSE i \in contract : \A j \in contract : i <= j IN
    LastOf(SubSeq(lines, 1, upto), {"import"})

\* The variable strategies; their line is followed by a blank one.
InsertAfter(lines, n, new) == SubSeq(lines, 1, n) \o new \o SubSeq(lines, n + 1, Len(lines))
Constant(secret) == <<Holding("code", secret), Line("blank")>>
VariableInjectPython(lines, secret) == {InsertAfter(lines, PythonPoint(lines), Constant(secret))}
VariableInjectJavaScript(lines, secret) == {InsertAfter(lines, JsPoint(lines), Constant(secret))}
VariableInjectRust(lines, secret) == {InsertAfter(lines, RustPoint(lines), Constant(secret))}
VariableInjectSolidity(lines, secret) == {InsertAfter(lines, SolidityPoint(lines), Constant(secret))}

\* WatermarkStrategy: on the first long comment, or a line near the top.
Marked(lines, secret) ==
    LET long == {i \in 1..Len(lines) : lines[i].kind = "long"}
        top == {i \in 1..Len(lines) : i <= 10 /\ lines[i].kind \in {"shebang", "import"}} IN
    IF long # {}
    THEN {[lines EXCEPT ![CHOOSE i \in long : \A j \in long : i <= j].secrets = @ \union {secret}]}
    ELSE IF top # {}
    THEN {InsertAfter(lines, CHOOSE i \in top : \A j \in top : i <= j, <<Holding("long", secret)>>)}
    ELSE {<<Holding("long", secret), Line("blank")>> \o lines}

\* DeadCodePython: an inert helper inside some function; none, no embedding.
DeadCode(lines, secret) ==
    {LET helper == <<Line("long"), Line("def"), Line("code"), Line("code"),
                     Holding("code", secret), Line("code"), Line("blank")>> IN
     IF i + 1 < Len(lines) THEN InsertAfter(lines, i + 1, helper) ELSE lines \o helper
         : i \in {j \in 1..Len(lines) : lines[j].kind = "def"}}

Eligible(strategy) ==
    {f \in DOMAIN tree : CASE strategy = "watermark" -> TRUE
                           [] strategy = "deadcode"  -> SourceFiles[f].lang = "py"
                           [] OTHER                  -> SourceFiles[f].lang = strategy}
\* pick_target: a file without a token when there is one.
PickTargets(files, used) == IF files \ used = {} THEN files ELSE files \ used
Embeddings(strategy, lines, secret) ==
    CASE strategy = "watermark" -> Marked(lines, secret)
      [] strategy = "deadcode"  -> DeadCode(lines, secret)
      [] strategy = "py"        -> VariableInjectPython(lines, secret)
      [] strategy = "js"        -> VariableInjectJavaScript(lines, secret)
      [] strategy = "rs"        -> VariableInjectRust(lines, secret)
      [] strategy = "sol"       -> VariableInjectSolidity(lines, secret)
MarksUsed(strategy, lines) == strategy # "watermark" \/ LastOf(lines, {"long"}) = 0

-----------------------------------------------------------------------------
\* build_merkle_tree: an odd node is paired with itself.
PairUp(level) ==
    [i \in 1..((Len(level) + 1) \div 2) |->
        <<"node", level[2 * i - 1], IF 2 * i <= Len(level) THEN level[2 * i] ELSE level[2 * i - 1]>>]
RECURSIVE Levels(_)
Levels(level) == IF Len(level) = 1 THEN <<level>> ELSE <<level>> \o Levels(PairUp(level))

\* get_merkle_proof: the sibling at each level; index counts from 0.
RECURSIVE ProofFrom(_, _)
ProofFrom(levels, index) ==
    IF Len(levels) <= 1 THEN <<>>
    ELSE LET sibling == IF index % 2 = 0 THEN index + 1 ELSE index - 1 IN
         <<IF sibling < Len(levels[1]) THEN levels[1][sibling + 1] ELSE levels[1][index + 1]>>
             \o ProofFrom(Tail(levels), index \div 2)
GetMerkleProof(levels, index) == ProofFrom(levels, index)

\* verify_proof.
RECURSIVE SourceWalk(_, _, _)
SourceWalk(current, proof, index) ==
    IF proof = <<>> THEN current
    ELSE SourceWalk(IF index % 2 = 0 THEN <<"node", current, proof[1]>> ELSE <<"node", proof[1], current>>,
              Tail(proof), index \div 2)
VerifyMerkleProof(leaf, proof, index, root) == SourceWalk(leaf, proof, index) = root

LeafOf(secret, i) == <<"leaf", secret, i>>

-----------------------------------------------------------------------------
Stepping == csteps < MaxCanarySteps /\ csteps' = csteps + 1
Changing == ~run_.on /\ edits < MaxChanges /\ edits' = edits + 1

StartEmbed ==
    /\ Changing
    /\ \E plan \in Plans : run_' = [NoRun EXCEPT !.on = TRUE, !.plan = plan]
    /\ UNCHANGED <<tree, cmanifest, commitment, fprint, ledger, pubs, csteps>>

FirstLineWith(lines, secret) ==
    LET at == {i \in 1..Len(lines) : secret \in lines[i].secrets} IN
    IF at = {} THEN 0 ELSE CHOOSE i \in at : \A j \in at : i <= j

\* run_embed's loop: token by token, each by the next strategy of the list.
Strategy == run_.plan[1 + (run_.next % Len(run_.plan))]
Placing == run_.on /\ run_.next < NumCanaries
PlaceToken ==
    /\ Placing
    /\ LET secret == Secret(run_.next) IN
         \E f \in PickTargets(Eligible(Strategy), run_.used) :
         \E lines \in Embeddings(Strategy, tree[f], secret) :
             /\ tree' = [tree EXCEPT ![f] = lines]
             /\ run_' = [run_ EXCEPT
                          !.next = @ + 1,
                          !.used = IF MarksUsed(Strategy, tree[f]) THEN @ \union {f} ELSE @,
                          !.tokens = Append(@, [secret |-> secret, file |-> f,
                                                line |-> FirstLineWith(lines, secret)])]
    /\ UNCHANGED <<cmanifest, commitment, fprint, ledger, pubs, csteps, edits>>
\* No file, or no function in the one picked: a warning, and on to the next token.
SkipToken ==
    /\ Placing
    /\ \/ Eligible(Strategy) = {}
       \/ \E f \in PickTargets(Eligible(Strategy), run_.used) :
             Embeddings(Strategy, tree[f], Secret(run_.next)) = {}
    /\ run_' = [run_ EXCEPT !.next = @ + 1]
    /\ UNCHANGED <<tree, cmanifest, commitment, fprint, ledger, pubs, csteps, edits>>

\* Fewer tokens than asked for: an error, with the tree changed and no manifest.
EmbedFails ==
    /\ run_.on /\ run_.next = NumCanaries /\ Len(run_.tokens) < NumCanaries
    /\ run_' = NoRun
    /\ UNCHANGED <<tree, cmanifest, commitment, fprint, ledger, pubs, csteps, edits>>

\* The lines are looked up once all tokens are placed.
LinesAsPlaced(tokens) == tokens
LinesAsFound(tokens) ==
    [i \in 1..Len(tokens) |->
        [tokens[i] EXCEPT !.line = FirstLineWith(tree[tokens[i].file], tokens[i].secret)]]
FinishEmbed ==
    /\ run_.on /\ Len(run_.tokens) = NumCanaries
    /\ LET levels == Levels([i \in 1..NumCanaries |-> LeafOf(run_.tokens[i].secret, i - 1)]) IN
         cmanifest' = [hash |-> TreeHash, root |-> Last(levels)[1],
                       tokens |-> [i \in 1..NumCanaries |->
                           [secret |-> run_.tokens[i].secret, file |-> run_.tokens[i].file,
                            line |-> LinesAsFound(run_.tokens)[i].line,
                            proof |-> GetMerkleProof(levels, i - 1)]]]
    /\ run_' = NoRun
    /\ UNCHANGED <<tree, commitment, fprint, ledger, pubs, csteps, edits>>

\* Somebody edits a file: a line goes, or one is added on top.
EditFile(f) ==
    /\ Changing
    /\ \/ tree[f] # <<>> /\ tree' = [tree EXCEPT ![f] = Tail(@)]
       \/ tree' = [tree EXCEPT ![f] = <<Line("code")>> \o @]
    /\ UNCHANGED <<run_, cmanifest, commitment, fprint, ledger, pubs, csteps>>

\* A directory is renamed: its file has another path and the same base name.
RenameDirectory(f, g) ==
    /\ Changing
    /\ g \notin DOMAIN tree /\ SourceFiles[g].base = SourceFiles[f].base
    /\ tree' = [h \in (DOMAIN tree \ {f}) \union {g} |-> IF h = g THEN tree[f] ELSE tree[h]]
    /\ UNCHANGED <<run_, cmanifest, commitment, fprint, ledger, pubs, csteps>>

\* sign_commitment: the root, the structure digest and the time.
SignCommitment ==
    /\ Stepping
    /\ cmanifest.root # <<>>
    /\ commitment' = [root |-> cmanifest.root, structure |-> cmanifest.hash, at |-> csteps']
    /\ UNCHANGED <<tree, run_, cmanifest, fprint, ledger, pubs, edits>>

\* commitment_digest: of the whole canonical payload.
CommitmentDigest(c) == c

\* sign_fingerprint: for an archive of the tree as it is, and only for a
\* commitment to this manifest's root.
SignFingerprint ==
    /\ Stepping
    /\ cmanifest.root # <<>> /\ cmanifest.root = commitment.root
    /\ fprint' = [archive |-> tree, hash |-> cmanifest.hash, root |-> cmanifest.root,
                  digest |-> CommitmentDigest(commitment)]
    /\ UNCHANGED <<tree, run_, cmanifest, commitment, ledger, pubs, edits>>

\* What is appended, marked with the publisher that did.
Record(p) == [by |-> p, fp |-> fprint]
LineEnd == [by |-> "anyone", fp |-> NoPrint]
\* The lines of the ledger, each the records on it; blank ones are skipped.
LedgerLines ==
    LET ends == {i \in 1..Len(ledger) : ledger[i] = LineEnd}
        begins == {0} \union ends
        End(b) == IF \E e \in ends : e > b THEN Min({e \in ends : e > b}) - 1 ELSE Len(ledger)
        starts == SetToSortSeq({b \in begins : End(b) > b}, <)
    IN  [i \in 1..Len(starts) |-> SubSeq(ledger, starts[i] + 1, End(starts[i]))]

\* publish: the record, the end of its line (writeln! on a file writes them one
\* after the other), then the ledger is read back and its lines are counted.
Writing == {p \in Publishers : pubs[p].pc \in {"record", "line"}}
PublishAppend(p) ==
    /\ Stepping
    /\ fprint # NoPrint
    /\ pubs[p].pc = "idle"
    /\ ledger' = Append(ledger, Record(p))
    /\ pubs' = [q \in Publishers |->
                  IF q = p THEN [Idle_ EXCEPT !.pc = "record", !.fp = fprint, !.alone = Writing = {}]
                  ELSE [pubs[q] EXCEPT !.alone = @ /\ q \notin Writing]]
    /\ UNCHANGED <<tree, run_, cmanifest, commitment, fprint, edits>>
PublishNewline(p) ==
    /\ pubs[p].pc = "record"
    /\ ledger' = Append(ledger, LineEnd)
    /\ pubs' = [pubs EXCEPT ![p].pc = "line"]
    /\ UNCHANGED <<tree, run_, cmanifest, commitment, fprint, csteps, edits>>
IndexCounted(lines) == Len(lines) - 1
PublishCount(p) ==
    /\ pubs[p].pc = "line"
    /\ pubs' = [pubs EXCEPT ![p].pc = "told", ![p].said = IndexCounted(LedgerLines)]
    /\ UNCHANGED <<tree, run_, cmanifest, commitment, fprint, ledger, csteps, edits>>
PublishDies(p) ==
    /\ p \in Writing
    /\ pubs' = [pubs EXCEPT ![p].pc = "killed"]
    /\ UNCHANGED <<tree, run_, cmanifest, commitment, fprint, ledger, csteps, edits>>

CanaryInit ==
    /\ \E t \in FirstTrees : tree = [f \in DOMAIN t |-> [i \in 1..Len(t[f]) |-> Line(t[f][i])]]
    /\ run_ = NoRun
    /\ cmanifest = NoManifest_
    /\ commitment = NoCommitment
    /\ fprint = NoPrint
    /\ ledger = <<>>
    /\ pubs = [p \in Publishers |-> Idle_]
    /\ csteps = 0
    /\ edits = 0

CanaryNext ==
    \/ StartEmbed \/ PlaceToken \/ SkipToken \/ EmbedFails \/ FinishEmbed
    \/ \E f \in DOMAIN tree : EditFile(f)
    \/ \E f \in DOMAIN tree, g \in DOMAIN SourceFiles : RenameDirectory(f, g)
    \/ SignCommitment \/ SignFingerprint
    \/ \E p \in Publishers : PublishAppend(p) \/ PublishNewline(p) \/ PublishCount(p)
                              \/ PublishDies(p)
CanarySpec == CanaryInit /\ [][CanaryNext]_canaryVars

-----------------------------------------------------------------------------
\* verify_source: the lines of code files that hold a secret of the manifest.
Matches ==
    UNION {{[token |-> k, file |-> f, line |-> i] :
              i \in {j \in 1..Len(tree[f]) : cmanifest.tokens[k].secret \in tree[f][j].secrets}}
            : k \in 1..Len(cmanifest.tokens), f \in CodeFiles}

\* verify_integrity.
IntactCopy == cmanifest.root # <<>> /\ TreeHash = cmanifest.hash

\* read_ledger: every line is one record, or the whole ledger is refused.
ReadsLedger == \A i \in 1..Len(LedgerLines) : Len(LedgerLines[i]) = 1
\* The lookup by archive: the first record's index, from 0.
RecordsOf(fp) == {i \in 1..Len(LedgerLines) : LedgerLines[i][1].fp.archive = fp.archive}
LedgerIndex(fp) == Min(RecordsOf(fp)) - 1
InLedger(fp) == ReadsLedger /\ RecordsOf(fp) # {}

\* assemble: what it insists on; the fingerprint and the ledger are optional, and
\* a ledger without a fingerprint is not looked at.
Assembles(withPrint, withLedger) ==
    /\ cmanifest.root # <<>> /\ commitment.root = cmanifest.root
    /\ withPrint => /\ fprint # NoPrint
                    /\ fprint.digest = CommitmentDigest(commitment)
                    /\ fprint.root = cmanifest.root
                    /\ withLedger => InLedger(fprint)
\* A match's proof walk; its leaf is recomputed from the secret found.
ProofOk(found) ==
    LET token == cmanifest.tokens[found.token] IN
    VerifyMerkleProof(LeafOf(token.secret, found.token - 1), token.proof, found.token - 1, cmanifest.root)
\* all_checks, is_sound.
IsSound(withPrint) ==
    /\ commitment.root = cmanifest.root
    /\ Matches # {}
    /\ \A found \in Matches : ProofOk(found)
    /\ withPrint => fprint.digest = CommitmentDigest(commitment) /\ fprint.root = cmanifest.root
\* The ci gate with a commitment.
CiPasses(least) == Cardinality(Matches) >= least /\ cmanifest.root = commitment.root

-----------------------------------------------------------------------------
\* While verify_integrity calls the tree intact, every token in a code file is found
\* on the line the manifest names, though tokens placed later in the same file moved
\* it (run_embed looks the lines up after all are placed).  The file is the one the
\* manifest names or, where a directory was renamed, which hash_source_tree does not
\* see, one with the same base name.
TokensAreWhereTheManifestSays ==
    IntactCopy => \A k \in 1..Len(cmanifest.tokens) :
        LET token == cmanifest.tokens[k] IN
        SourceFiles[token.file].lang \in CodeLangs =>
            \E f \in CodeFiles :
                /\ SourceFiles[f].base = SourceFiles[token.file].base
                /\ token.file \in DOMAIN tree => f = token.file
                /\ [token |-> k, file |-> f, line |-> token.line] \in Matches

\* Evidence from the tools' own artifacts holds: however the tree was edited or
\* embedded again since, if a token is found and assemble accepts the artifacts,
\* every proof walks to the root, the package is sound and the ci gate agrees.
EvidenceHolds ==
    \A withPrint, withLedger \in BOOLEAN :
        Assembles(withPrint, withLedger) /\ Matches # {} => IsSound(withPrint) /\ CiPasses(1)

\* "Returns the record's index": it does for a publisher that nobody overlaps.  One
\* that was overlapped may be told a later line; what it published is found at or
\* before that line.  Both hold of a ledger that read_ledger accepts, and it accepts
\* one unless publishers overlapped or one was killed while it wrote its line.
PublishedIsFound ==
    /\ (\A p \in Publishers : pubs[p].alone /\ pubs[p].pc # "killed") => ReadsLedger
    /\ ReadsLedger => \A p \in Publishers : pubs[p].pc = "told" =>
        /\ pubs[p].said < Len(LedgerLines)
        /\ InLedger(pubs[p].fp) /\ LedgerIndex(pubs[p].fp) <= pubs[p].said
        /\ pubs[p].alone => LedgerLines[pubs[p].said + 1][1].by = p

\* What the tools recorded about a tree can be shown later: tokens where the
\* manifest says, evidence that holds, and ledger records where publish said.
RecordsHold == TokensAreWhereTheManifestSays /\ EvidenceHolds /\ PublishedIsFound
=============================================================================
