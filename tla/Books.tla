-------------------------------- MODULE Books --------------------------------
(***************************************************************************)
(* The books of the payments store (origin-payments): the journal, the     *)
(* audit trail, the deferred commitments and their daily manifests, the    *)
(* checkpoint MMR, the settlement files, the reconciliation runs and the   *)
(* custody directory.  The store has no lock: every command is a process   *)
(* that reads a file, computes, and appends or rewrites, and another       *)
(* command (the executor daemon, the webhook listener, an operator's       *)
(* shell) may run between the read and the write.  A clerk is such a       *)
(* process; Fall kills it between any two of its steps.                    *)
(*                                                                         *)
(* Both chains are modelled by positions: an entry's hash is its place in  *)
(* the log, so the entry written after reading the log when it had n       *)
(* entries has prev = n, and the chain verifies when every entry's prev is *)
(* the place just before its own.                                          *)
(***************************************************************************)
EXTENDS Integers, Sequences, FiniteSets

CONSTANTS
    Clerks,        \* processes that run commands against one store
    Bills,         \* orders that are ready to settle
    Price,         \* Price[o]: the order's amount, in minor units
    Rate,          \* Rate[o]: FX rate times Scale, or Scale when there is none
    Scale,         \* 10 ^ RATE_SCALE
    Coin,          \* Coin[o]: the currency the order settles in
    Files,         \* the names of a day's settlement files, by their currency and
                   \* in the order load_all sorts them
    PspAmounts,    \* PspAmounts[o]: what the PSP may report of it
    Pledges,       \* deferred commitments the embedding program records
    Forged,        \* those whose signed payload does not verify
    Phrases,       \* custody passphrases
    MaxCommands    \* commands begun in a behaviour

VARIABLES
    postings,   \* journal.jsonl: sequence of [prev, bill, side, amount]
    settled,    \* orders with a Success record
    trail,      \* audit.jsonl: sequence of [prev, what]
    owed,       \* deferred.jsonl: pending commitments, in order
    manifests,  \* settlement/deferred/*.json: set of [id, items]
    mmr,        \* mmr.json: the sequence of leaves
    slips,      \* settlement/<date>.<currency>.json, by name
    runs,       \* the runs on disk
    custody,    \* [vault, shards, pw]: keys/secrets.vault, shares, .custody.pw
    clerk,      \* the command each process is in
    begun,      \* commands begun
    crowded,    \* history: the files that two processes at once were between
                \* reading and writing
    fallen,     \* history: a process was killed
    pledged,    \* history: commitments recorded, and those of them that were
    late        \* recorded while deferred settlements were being committed

bookVars == <<postings, settled, trail, owed, manifests, mmr, slips, runs, custody, clerk, begun, crowded, fallen, pledged, late>>

Currencies == {Files[i] : i \in DOMAIN Files}
NoSlip == [by |-> "nobody", rows |-> [o \in Bills |-> 0]]
Off == [cmd |-> "off", at |-> "off", head |-> 0, what |-> "", arg |-> "",
        list |-> <<>>, leaf |-> <<>>]

BooksInit ==
    /\ postings = <<>> /\ settled = {} /\ trail = <<>> /\ owed = <<>>
    /\ manifests = {} /\ mmr = <<>> /\ runs = {}
    /\ slips = [c \in Currencies |-> NoSlip]
    /\ custody = [vault |-> "none", shards |-> FALSE, pw |-> "none"]
    /\ clerk = [k \in Clerks |-> Off]
    /\ begun = 0 /\ crowded = {} /\ fallen = FALSE /\ pledged = {} /\ late = {}

(***************************************************************************)
(* Processes: a command begins at its first effect, moves from step to     *)
(* step, and ends by recording an audit entry, by finishing, or by an      *)
(* early return.                                                           *)
(***************************************************************************)
Steps(k, cmd, at) == clerk[k].cmd = cmd /\ clerk[k].at = at

\* A process has read the file and has yet to write what it makes of it.
Holds(job, file) ==
    \/ file = "journal" /\ job.cmd = "settle" /\ job.at \in {"Debit", "Credit"}
    \/ file = "trail" /\ job.cmd = "audit" /\ job.at = "append"
    \/ file = "owed" /\ job.cmd = "commit"
    \/ file = "mmr" /\ job.cmd \in {"commit", "reconcile"} /\ job.at = "save"

Becomes(k, job) ==
    /\ clerk' = [clerk EXCEPT ![k] = job]
    /\ crowded' = crowded \cup {file \in {"journal", "trail", "owed", "mmr"} :
                     Holds(job, file) /\ \E j \in Clerks \ {k} : Holds(clerk[j], file)}
    /\ UNCHANGED <<fallen, pledged, late>>

Enter(k, job) ==
    /\ clerk[k].cmd = "off" /\ begun < MaxCommands
    /\ begun' = begun + 1 /\ Becomes(k, job)

Advance(k, job) == Becomes(k, job) /\ UNCHANGED begun

Audited(what) == [Off EXCEPT !.cmd = "audit", !.at = "read", !.what = what]

\* audit::record, its read: the log's last entry gives seq and prev_hash.
AuditRead(k) ==
    /\ Steps(k, "audit", "read")
    /\ Advance(k, [clerk[k] EXCEPT !.at = "append", !.head = Len(trail)])
    /\ UNCHANGED <<postings, settled, trail, owed, manifests, mmr, slips, runs, custody>>

\* audit::record, its append: always the command's last effect.
AuditAppend(k) ==
    /\ Steps(k, "audit", "append")
    /\ trail' = Append(trail, [prev |-> clerk[k].head, what |-> clerk[k].what])
    /\ Advance(k, Off)
    /\ UNCHANGED <<postings, settled, owed, manifests, mmr, slips, runs, custody>>

\* The process is killed between two of its steps; its files stay as they are.
Fall(k) ==
    /\ clerk[k].cmd # "off"
    /\ clerk' = [clerk EXCEPT ![k] = Off] /\ fallen' = TRUE
    /\ UNCHANGED <<postings, settled, trail, owed, manifests, mmr, slips, runs,
                   custody, begun, crowded, pledged, late>>

(***************************************************************************)
(* Settling an order: append_order_batch, then the Success record, then    *)
(* the audit entry.                                                        *)
(***************************************************************************)
Converted(o) == (Price[o] * Rate[o]) \div Scale

\* append_fx_batch refuses a conversion to nothing; append_batch's two legs
\* are the same amount, so they sum to zero.
Balanced(o) == Converted(o) # 0

ReadHead(k) ==
    \E o \in Bills \ settled :
        /\ \A j \in Clerks : ~ (clerk[j].cmd = "settle" /\ clerk[j].arg = o)
        /\ Balanced(o)
        /\ Enter(k, [Off EXCEPT !.cmd = "settle", !.at = "Debit", !.arg = o,
                                !.head = Len(postings)])
        /\ UNCHANGED <<postings, settled, trail, owed, manifests, mmr, slips, runs, custody>>

\* One posting: chained to the head that was read, or to the leg before it.
AppendPosting(k, side, amount, next) ==
    /\ Steps(k, "settle", side)
    /\ postings' = Append(postings, [prev |-> clerk[k].head, side |-> side,
                                     bill |-> clerk[k].arg, amount |-> amount])
    /\ Advance(k, [clerk[k] EXCEPT !.at = next, !.head = Len(postings) + 1])
    /\ UNCHANGED <<settled, trail, owed, manifests, mmr, slips, runs,
                   custody>>

AppendDebit(k) == AppendPosting(k, "Debit", Price[clerk[k].arg], "Credit")
AppendCredit(k) == AppendPosting(k, "Credit", Converted(clerk[k].arg), "success")

MarkSuccess(k) ==
    /\ Steps(k, "settle", "success")
    /\ settled' = settled \cup {clerk[k].arg}
    /\ Advance(k, Audited("settled"))
    /\ UNCHANGED <<postings, trail, owed, manifests, mmr, slips, runs,
                   custody>>

(***************************************************************************)
(* Deferred settlement.                                                    *)
(***************************************************************************)

\* append_deferred_commitment, called by the program that embeds the crate;
\* commitments are numbered in the order they are recorded.
Pledge(p) ==
    /\ p \notin pledged /\ \A q \in Pledges : q < p => q \in pledged
    /\ pledged' = pledged \cup {p} /\ owed' = Append(owed, p)
    /\ late' = IF \E k \in Clerks : clerk[k].cmd = "commit" THEN late \cup {p} ELSE late
    /\ UNCHANGED <<postings, settled, trail, manifests, mmr, slips, runs, custody, clerk,
                   begun, crowded, fallen>>

\* commit_deferred_batch reads the queue; a commitment that does not verify
\* makes the whole commit fail before anything is written.
ReadOwed(k) ==
    /\ \A i \in DOMAIN owed : owed[i] \notin Forged
    /\ Enter(k, [Off EXCEPT !.cmd = "commit", !.at = "manifest", !.list = owed])
    /\ UNCHANGED <<postings, settled, trail, owed, manifests, mmr, slips, runs, custody>>

Leaf(id, items) == [kind |-> "manifest", id |-> id, items |-> items]

\* A bug: the queue is cleared before the checkpoint is made.
WriteManifestAndClear(k) ==
    /\ Steps(k, "commit", "manifest")
    /\ owed' = <<>>
    /\ LET leaf == Leaf(Cardinality(manifests), clerk[k].list)
       IN  /\ manifests' = manifests \cup {leaf}
           /\ Advance(k, [clerk[k] EXCEPT !.at = "load", !.leaf = <<leaf>>])
    /\ UNCHANGED <<postings, settled, trail, mmr, slips, runs, custody>>

WriteManifest(k) ==
    /\ Steps(k, "commit", "manifest")
    /\ LET leaf == Leaf(Cardinality(manifests), clerk[k].list)
       IN  /\ manifests' = manifests \cup {leaf}
           /\ Advance(k, [clerk[k] EXCEPT !.at = "load", !.leaf = <<leaf>>])
    /\ UNCHANGED <<postings, settled, trail, owed, mmr, slips, runs,
                   custody>>

\* checkpoint_mmr: load_mmr, append the leaf in memory, save_mmr.
LoadMmr(k) ==
    /\ clerk[k].cmd \in {"commit", "reconcile"} /\ clerk[k].at = "load"
    /\ Advance(k, [clerk[k] EXCEPT !.at = "save", !.list = mmr])
    /\ UNCHANGED <<postings, settled, trail, owed, manifests, mmr, slips, runs, custody>>

SaveMmr(k) ==
    /\ clerk[k].cmd \in {"commit", "reconcile"} /\ clerk[k].at = "save"
    /\ mmr' = clerk[k].list \o clerk[k].leaf
    /\ Advance(k, [clerk[k] EXCEPT !.at = "last", !.list = <<>>])
    /\ UNCHANGED <<postings, settled, trail, owed, manifests, slips, runs, custody>>

ClearOwed(k) ==
    /\ Steps(k, "commit", "last")
    /\ owed' = <<>>
    /\ Advance(k, Off)
    /\ UNCHANGED <<postings, settled, trail, manifests, mmr, slips, runs, custody>>

(***************************************************************************)
(* Settlement files and reconciliation.                                    *)
(***************************************************************************)

\* The rows a PSP's file may have, 0 for none: of any orders, in whatever
\* currency they settle.
Reports == {rows \in [Bills -> UNION {PspAmounts[o] : o \in Bills} \cup {0}] :
               \A o \in Bills : rows[o] \in PspAmounts[o] \cup {0}}

\* reconcile-pull: the PSP's file is stamped and written, then audited.
Pull(k, c) ==
    \E rows \in Reports :
            /\ slips' = [slips EXCEPT ![c] = [by |-> "psp", rows |-> rows]]
            /\ Enter(k, Audited("pull"))
            /\ UNCHANGED <<postings, settled, trail, owed, manifests, mmr, runs,
                           custody>>

\* settlement-export: one file per currency that has a settled order, under
\* the name a pulled file has, with the order's own (unconverted) amount.
Export(k) ==
    /\ slips' = [c \in Currencies |->
                    IF \E o \in settled : Coin[o] = c
                    THEN [by |-> "own",
                          rows |-> [o \in Bills |->
                              IF o \in settled /\ Coin[o] = c THEN Price[o] ELSE 0]]
                    ELSE slips[c]]
    /\ Enter(k, Off)
    /\ UNCHANGED <<postings, settled, trail, owed, manifests, mmr,
                   runs, custody>>

\* run: load_all reads every file of the date, and there must be one.
LoadFiles(k) ==
    /\ \E c \in Currencies : slips[c] # NoSlip
    /\ Enter(k, [Off EXCEPT !.cmd = "reconcile", !.at = "orders", !.list = slips])
    /\ UNCHANGED <<postings, settled, trail, owed, manifests, mmr, slips, runs, custody>>

\* The rows of all files by order, the last file that has one counting; the
\* currency is not compared.
PspRow(files, o) ==
    LET having == {i \in DOMAIN Files : files[Files[i]].rows[o] # 0}
    IN  IF having = {} THEN 0
        ELSE files[Files[CHOOSE i \in having : \A j \in having : j <= i]].rows[o]

\* The ids of the run's mismatches: on one side only, or unequal amounts.
Mismatches(files, internal) ==
    {o \in Bills : /\ PspRow(files, o) # 0 \/ o \in internal
                   /\ ~ (o \in internal /\ PspRow(files, o) = Price[o])}

Classify(k) ==
    /\ Steps(k, "reconcile", "orders")
    /\ Advance(k, [clerk[k] EXCEPT
            !.at = "head", !.list = <<>>,
            !.arg = [files |-> clerk[k].list, internal |-> settled,
                     clean |-> Mismatches(clerk[k].list, settled) = {}, root |-> 0]])
    /\ UNCHANGED <<postings, settled, trail, owed, manifests, mmr, slips, runs, custody>>

\* The run's checkpoint leaf: the files' stamps and the journal's head.
RunLeaf(run) == [kind |-> "run", root |-> run.root, files |-> run.files]

JournalRoot(k) ==
    /\ Steps(k, "reconcile", "head")
    /\ LET run == [clerk[k].arg EXCEPT !.root = Len(postings)]
       IN  Advance(k, [clerk[k] EXCEPT !.at = "load", !.arg = run,
                                       !.leaf = <<RunLeaf(run)>>])
    /\ UNCHANGED <<postings, settled, trail, owed, manifests, mmr, slips, runs, custody>>

WriteRun(k) ==
    /\ Steps(k, "reconcile", "last")
    /\ runs' = runs \cup {clerk[k].arg}
    /\ Advance(k, Audited("run"))
    /\ UNCHANGED <<postings, settled, trail, owed, manifests, mmr, slips, custody>>

(***************************************************************************)
(* Custody: the passphrase goes to origin-secrets through a file beside    *)
(* the vault.                                                              *)
(***************************************************************************)
Custodian(k, job, dir) ==
    /\ Advance(k, job) /\ custody' = dir
    /\ UNCHANGED <<postings, settled, trail, owed, manifests, mmr, slips, runs>>

\* backup refuses when the vault exists; both commands write the passphrase.
StartCustody(k, cmd, p) ==
    /\ cmd = "backup" => custody.vault = "none"
    /\ custody' = [custody EXCEPT !.pw = p]
    /\ Enter(k, [Off EXCEPT !.cmd = cmd, !.at = "first", !.arg = p])
    /\ UNCHANGED <<postings, settled, trail, owed, manifests, mmr, slips, runs>>

\* origin-secrets init: fails when the vault exists, when the passphrase file
\* is gone, or on an I/O error.
InitVault(k) ==
    /\ Steps(k, "backup", "first")
    /\ \/ Custodian(k, [clerk[k] EXCEPT !.at = "unlink"], custody)
       \/ /\ custody.vault = "none" /\ custody.pw # "none"
          /\ Custodian(k, [clerk[k] EXCEPT !.at = "shard"],
                       [custody EXCEPT !.vault = custody.pw])

\* origin-secrets shard: opens the vault with the passphrase file.
ShardVault(k) ==
    /\ Steps(k, "backup", "shard")
    /\ \/ Custodian(k, [clerk[k] EXCEPT !.at = "unlink"], custody)
       \/ /\ custody.pw # "none" /\ custody.vault = custody.pw
          /\ Custodian(k, [clerk[k] EXCEPT !.at = "unlink", !.what = "backup"],
                       [custody EXCEPT !.shards = TRUE])

\* origin-secrets recover: decrypts the shares with the passphrase file.
RecoverSeed(k) ==
    /\ Steps(k, "recover", "first")
    /\ \/ Custodian(k, [clerk[k] EXCEPT !.at = "unlink"], custody)
       \/ /\ custody.shards /\ custody.vault = custody.pw
          /\ Custodian(k, [clerk[k] EXCEPT !.at = "unlink", !.what = "recover"],
                       custody)

\* The passphrase file is removed whatever the result was; then an error is
\* returned, or the command is audited.
RemovePw(k) ==
    /\ clerk[k].cmd \in {"backup", "recover"} /\ clerk[k].at = "unlink"
    /\ Custodian(k, IF clerk[k].what = "" THEN Off ELSE Audited(clerk[k].what),
                 [custody EXCEPT !.pw = "none"])

BooksNext ==
    \/ \E p \in Pledges : Pledge(p)
    \/ \E k \in Clerks :
          \/ AuditRead(k) \/ AuditAppend(k) \/ Fall(k)
          \/ ReadHead(k) \/ AppendDebit(k) \/ AppendCredit(k) \/ MarkSuccess(k)
          \/ ReadOwed(k) \/ WriteManifest(k) \/ LoadMmr(k) \/ SaveMmr(k)
          \/ ClearOwed(k)
          \/ \E c \in Currencies : Pull(k, c)
          \/ Export(k)
          \/ LoadFiles(k) \/ Classify(k) \/ JournalRoot(k) \/ WriteRun(k)
          \/ \E cmd \in {"backup", "recover"}, p \in Phrases :
                StartCustody(k, cmd, p)
          \/ InitVault(k) \/ ShardVault(k) \/ RecoverSeed(k) \/ RemovePw(k)

(***************************************************************************)
(* Properties.                                                             *)
(***************************************************************************)
Chained(log) == \A i \in DOMAIN log : log[i].prev = i - 1
Leaves == {mmr[i] : i \in DOMAIN mmr}

\* The journal and the audit trail verify (journal_head, audit::verify) however
\* many commands overlap or are killed half-way, unless two processes were at
\* once between reading the head of that same log and appending to it: no lock
\* keeps them apart, and the chain then forks.
ChainsVerify ==
    /\ "journal" \in crowded \/ Chained(postings)
    /\ "trail" \in crowded \/ Chained(trail)

\* Every commitment recorded is still pending or in a manifest on disk, and, if
\* no two checkpoints were made at once, in one whose leaf the MMR holds
\* (commit_deferred_batch clears the queue last). Only those recorded while a
\* commit was under way may be gone: it clears what it has not read. One is in
\* two such manifests only after a commit was killed before its clear, or ran
\* beside another.
CommitmentsAreKept ==
    LET filed(p) == {m \in manifests : \E i \in DOMAIN m.items : m.items[i] = p}
        pending(p) == p \in late \/ \E i \in DOMAIN owed : owed[i] = p
    IN  \A p \in pledged :
            /\ pending(p) \/ filed(p) # {}
            /\ "mmr" \in crowded \/ pending(p) \/ filed(p) \cap Leaves # {}
            /\ Cardinality(filed(p) \cap Leaves) > 1 => fallen \/ "owed" \in crowded

\* A reconciliation run on disk is covered by its own checkpoint: every order
\* it compared as settled has both its postings under the journal root the run
\* recorded, even when orders settle while the run is being made.
RunsCoverTheirOrders ==
    \A run \in runs : \A o \in run.internal :
        \A side \in {"Debit", "Credit"} :
            \E i \in 1 .. run.root : postings[i].bill = o /\ postings[i].side = side

\* The leaf of every run on disk is in the MMR, unless two checkpoints were made
\* at once (load_mmr, save_mmr): the second save drops the first one's leaf.
RunsAreProvable == "mmr" \in crowded \/ \A run \in runs : RunLeaf(run) \in Leaves

\* A run that says Clean, over files none of which is the store's own export,
\* agrees with the PSP order by order: the files name the settled orders and no
\* other, and the last file to name one gives its amount. An earlier file of
\* the day that gives another amount is passed over.
CleanMeansAgreement ==
    \A run \in runs :
        LET row(i, o) == run.files[Files[i]].rows[o]
        IN  run.clean /\ (\A c \in Currencies : run.files[c].by # "own") =>
                \A o \in Bills :
                    /\ o \in run.internal <=> \E i \in DOMAIN Files : row(i, o) # 0
                    /\ \A i \in DOMAIN Files :
                          row(i, o) \in {0, Price[o]} \/ \E j \in DOMAIN Files : j > i /\ row(j, o) # 0

\* The passphrase file .custody.pw exists only while a backup or a recovery is
\* running, or after one was killed, whatever else overlapped or failed.
PassphraseNotLeft ==
    custody.pw # "none" =>
        fallen \/ \E k \in Clerks : clerk[k].cmd \in {"backup", "recover"}

\* The books are kept while commands are killed and overlap without a lock: a
\* chain, a commitment or a checkpoint suffers only when two processes had the
\* same file in hand, a run on disk covers the orders it compared and says Clean
\* only when both sides agree, and no passphrase is left behind.
BooksAreKept ==
    /\ ChainsVerify /\ CommitmentsAreKept
    /\ RunsCoverTheirOrders /\ RunsAreProvable /\ CleanMeansAgreement
    /\ PassphraseNotLeft

=============================================================================
