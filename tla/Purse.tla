-------------------------------- MODULE Purse --------------------------------
(***************************************************************************)
(* The wallet file of origin-wallet and the processes that use it: the     *)
(* command line and the payments executor.  A process opens the file into  *)
(* memory, works there, and saves the whole payload back with fs::write,   *)
(* which truncates first.  Nothing locks the file.  The standing spend     *)
(* policy is enforced from day and month buckets inside the payload, and   *)
(* the seed can be carried away as Reed-Solomon shards or as a phrase.     *)
(***************************************************************************)
EXTENDS Integers, Sequences, FiniteSets, FiniteSetsExt

CONSTANTS
    Holders,       \* processes
    Amounts,       \* amounts deposited and paid
    StartFunds,         \* what account 0 holds at the start
    Caps,          \* values of a spend cap; NoCap is unset
    Layouts,       \* [n, k]: shards and threshold of a backup
    LastDay,       \* the clock runs from day 0 to LastDay
    DaysPerMonth,
    MaxWork,       \* operations on opened wallets in a behaviour
    MaxOpens       \* wallets opened, created or recovered in a behaviour

NoCap == 0
Never == -1          \* the buckets' sentinel key

VARIABLES
    file,     \* the wallet file: [state, w]
    holder,   \* each process: [at, w, dirty, stale, n]
    shards,   \* the backup directory: index -> shard or NoShard
    phrase,   \* the seed written down as a phrase, 0 when none
    today,
    seeds, opens, work, purseReceipts,    \* counters, and the receipts handed out
    alone, whole, cut                \* histories: see the properties

purseVars == <<file, holder, shards, phrase, today, seeds, opens, work, purseReceipts,
               alone, whole, cut>>

MonthOf(day) == day \div DaysPerMonth
NoShard == [seed |-> 0, n |-> 0, k |-> 0]

\* WalletPayload.  `in' is what was ever deposited, kept to state conservation.
FromSeed(seed) ==
    [seed |-> seed, accounts |-> 0, bal |-> 0, in |-> 0, txs |-> <<>>,
     perTx |-> NoCap, perDay |-> NoCap, perMonth |-> NoCap,
     dayKey |-> Never, daySpent |-> 0, monthKey |-> Never, monthSpent |-> 0]

Away == [at |-> "away", w |-> FromSeed(0), dirty |-> FALSE, stale |-> FALSE,
         layout |-> [n |-> 0, k |-> 0], next |-> 0]

PurseInit ==
    \* Wallet 1 was made and backed up; wallet 2 replaced it, and holds funds.
    /\ file = [state |-> "whole",
               w |-> [FromSeed(2) EXCEPT !.accounts = 1, !.bal = StartFunds, !.in = StartFunds]]
    /\ holder = [h \in Holders |-> Away]
    /\ LET l == CHOOSE l \in Layouts : \A m \in Layouts : m.n <= l.n
       IN  shards = [i \in 0 .. l.n - 1 |-> [seed |-> 1, n |-> l.n, k |-> l.k]]
    /\ phrase = 0 /\ today = 0 /\ seeds = 2 /\ opens = 0 /\ work = 0
    /\ purseReceipts = {} /\ alone = TRUE /\ whole = TRUE /\ cut = FALSE

Busy(h) == holder[h].at # "away"

\* A process gets a wallet into memory, to work on it or to save it at once.
Take(h, job) ==
    /\ ~ Busy(h) /\ opens < MaxOpens
    /\ opens' = opens + 1
    /\ alone' = (alone /\ \A j \in Holders : ~ Busy(j))
    /\ holder' = [holder EXCEPT ![h] = job]

Obtain(h, w, at) == Take(h, [Away EXCEPT !.at = at, !.w = w])

\* One operation on the wallet in memory.
Work(h, w) ==
    /\ holder[h].at = "open" /\ work < MaxWork
    /\ work' = work + 1
    /\ holder' = [holder EXCEPT ![h].w = w, ![h].dirty = TRUE]
    /\ UNCHANGED <<file, shards, phrase, today, seeds, opens, alone, whole, cut>>

(***************************************************************************)
(* Opening, creating, saving.                                              *)
(***************************************************************************)

\* Wallet::create: a fresh seed and nothing else, saved over the output file
\* (an existing one after the operator's "y").
CreateWallet(h) ==
    /\ Obtain(h, FromSeed(seeds + 1), "save")
    /\ seeds' = seeds + 1
    /\ whole' = FALSE
    /\ UNCHANGED <<cut, file, shards, phrase, today, work, purseReceipts>>

\* Wallet::open: a file that was cut short does not deserialize or decrypt.
OpenWallet(h) ==
    /\ file.state = "whole"
    /\ Obtain(h, file.w, "open")
    /\ UNCHANGED <<file, shards, phrase, today, seeds, work, purseReceipts, whole, cut>>

\* The seed handle's hour is over: save, backup and derivation fail from now on.
SeedExpires(h) ==
    /\ holder[h].at = "open" /\ ~ holder[h].stale
    /\ holder' = [holder EXCEPT ![h].stale = TRUE]
    /\ UNCHANGED <<file, shards, phrase, today, seeds, opens, work, purseReceipts,
                   alone, whole, cut>>

\* save, up to the truncation by fs::write; SeedExpired is returned before it.
SaveTruncates(h) ==
    /\ \/ holder[h].at = "save"
       \/ holder[h].at = "open" /\ holder[h].dirty /\ ~ holder[h].stale
    /\ file' = [file EXCEPT !.state = "torn"]
    /\ holder' = [holder EXCEPT ![h].at = "write"]
    /\ UNCHANGED <<shards, phrase, today, seeds, opens, work, purseReceipts, alone, whole, cut>>

SaveWrites(h) ==
    /\ holder[h].at = "write"
    /\ file' = [state |-> "whole", w |-> holder[h].w]
    /\ holder' = [holder EXCEPT ![h] = Away]
    /\ UNCHANGED <<shards, phrase, today, seeds, opens, work, purseReceipts, alone, whole, cut>>

\* A command that only reads ends; one whose save fails ends with an error.
Close(h) ==
    /\ holder[h].at = "open"
    /\ ~ holder[h].dirty \/ holder[h].stale
    /\ holder' = [holder EXCEPT ![h] = Away]
    /\ whole' = (whole /\ ~ holder[h].stale)
    /\ UNCHANGED <<cut, file, shards, phrase, today, seeds, opens, work, purseReceipts, alone>>

\* The process is killed at any point.
Vanish(h) ==
    /\ Busy(h)
    /\ holder' = [holder EXCEPT ![h] = Away] /\ whole' = FALSE
    /\ cut' = (cut \/ holder[h].at = "shard")
    /\ UNCHANGED <<file, shards, phrase, today, seeds, opens, work, purseReceipts, alone>>

(***************************************************************************)
(* Work in memory.                                                         *)
(***************************************************************************)

\* `account derive': the next index, whatever --index says.
DeriveAccount(h) ==
    /\ ~ holder[h].stale
    /\ Work(h, [holder[h].w EXCEPT !.accounts = @ + 1])
    /\ UNCHANGED purseReceipts

\* update_balance by the embedding program: account 0 receives a deposit.
Deposit(h, a) ==
    /\ holder[h].w.accounts > 0
    /\ Work(h, [holder[h].w EXCEPT !.bal = @ + a, !.in = @ + a])
    /\ UNCHANGED purseReceipts

\* `policy': the caps given are set, the others stay.
SetPolicy(h, cap) ==
    /\ \E f \in {"perTx", "perDay", "perMonth"} : Work(h, [holder[h].w EXCEPT ![f] = cap])
    /\ UNCHANGED purseReceipts

\* A bug: only the day's bucket is reset, under either key.
RollDayOnly(w) ==
    [w EXCEPT !.daySpent = IF w.dayKey = today THEN @ ELSE 0,
              !.dayKey = today, !.monthKey = MonthOf(today)]

RollSpendWindows(w) ==
    [w EXCEPT !.daySpent = IF w.dayKey = today THEN @ ELSE 0, !.dayKey = today,
              !.monthSpent = IF w.monthKey = MonthOf(today) THEN @ ELSE 0,
              !.monthKey = MonthOf(today)]

Within(cap, amount) == cap = NoCap \/ amount <= cap

CheckSpend(w, a) ==
    /\ Within(w.perTx, a)
    /\ Within(w.perDay, w.daySpent + a)
    /\ Within(w.perMonth, w.monthSpent + a)

\* Transaction::new, with the caps in force kept for the properties.
NewTransaction(w, a) ==
    [id |-> Cardinality(purseReceipts), day |-> today, amount |-> a,
     perDay |-> w.perDay, perMonth |-> w.perMonth]

RecordSpend(w, a) == [w EXCEPT !.daySpent = @ + a, !.monthSpent = @ + a]

\* pay_sync: policy, funds, debit, MMR leaf, buckets, receipt.
PayNative(h, a) ==
    LET w == RollSpendWindows(holder[h].w)
        tx == NewTransaction(w, a)
    IN  /\ CheckSpend(w, a)
        /\ w.accounts > 0 /\ w.bal >= a
        /\ Work(h, RecordSpend([w EXCEPT !.bal = @ - a, !.txs = Append(@, tx)], a))
        /\ purseReceipts' = purseReceipts \cup {tx.id}

(***************************************************************************)
(* Backups.                                                                *)
(***************************************************************************)

\* `backup': the shards are written one file at a time, by index.
Backup(h, layout) ==
    /\ file.state = "whole"
    /\ Take(h, [Away EXCEPT !.at = "shard", !.w = file.w, !.layout = layout])
    /\ UNCHANGED <<file, shards, phrase, today, seeds, work, purseReceipts, whole, cut>>

WriteShard(h) ==
    /\ holder[h].at = "shard"
    /\ LET job == holder[h]
       IN  /\ shards' = [shards EXCEPT ![job.next] =
                            [seed |-> job.w.seed, n |-> job.layout.n, k |-> job.layout.k]]
           /\ holder' = [holder EXCEPT ![h] =
                            IF job.next + 1 = job.layout.n THEN Away
                            ELSE [job EXCEPT !.next = @ + 1]]
    /\ UNCHANGED <<file, phrase, today, seeds, opens, work, purseReceipts, alone, whole, cut>>

\* recover_from_shards takes the layout of the first shard by index.
Layout(kept) == shards[Min(kept)]

\* What the decoder makes of the shard files that are left: it is given those
\* with an index below the total; 0 when they are too few.
Decoded(kept) ==
    LET used == {i \in kept : i < Layout(kept).n}
        origins == {shards[i].seed : i \in used}
    IN  IF Cardinality(used) < Layout(kept).k THEN 0
        ELSE IF Cardinality(origins) = 1 THEN CHOOSE s \in origins : TRUE
             ELSE -1      \* shards of two seeds decode to a third

\* Some shard files are lost, never more of a backup than its layout allows.
Survivors ==
    {kept \in SUBSET {i \in DOMAIN shards : shards[i] # NoShard} :
        /\ kept # {}
        /\ \A i \in DOMAIN shards \ kept :
              Cardinality({j \in kept : shards[j] = shards[i]}) >= shards[i].k}

\* `recover' and `phrase recover': a wallet with the seed and nothing else.
RecoverFromShards(h) ==
    /\ \E kept \in Survivors :
          Decoded(kept) # 0 /\ Obtain(h, FromSeed(Decoded(kept)), "save")
    /\ whole' = FALSE
    /\ UNCHANGED <<cut, file, shards, phrase, today, seeds, work, purseReceipts>>

ExportPhrase(h) ==
    /\ holder[h].at = "open" /\ ~ holder[h].stale
    /\ phrase' = holder[h].w.seed
    /\ UNCHANGED <<file, holder, shards, today, seeds, opens, work, purseReceipts,
                   alone, whole, cut>>

RecoverFromPhrase(h) ==
    /\ phrase # 0
    /\ Obtain(h, FromSeed(phrase), "save")
    /\ whole' = FALSE
    /\ UNCHANGED <<cut, file, shards, phrase, today, seeds, work, purseReceipts>>

NewDay ==
    /\ today < LastDay /\ today' = today + 1
    /\ UNCHANGED <<file, holder, shards, phrase, seeds, opens, work, purseReceipts,
                   alone, whole, cut>>

PurseNext ==
    \/ NewDay
    \/ \E h \in Holders :
          \/ CreateWallet(h) \/ OpenWallet(h) \/ SeedExpires(h)
          \/ SaveTruncates(h) \/ SaveWrites(h) \/ Close(h) \/ Vanish(h)
          \/ DeriveAccount(h)
          \/ \E a \in Amounts : Deposit(h, a) \/ PayNative(h, a)
          \/ \E c \in Caps : SetPolicy(h, c)
          \/ \E l \in Layouts : Backup(h, l)
          \/ WriteShard(h) \/ RecoverFromShards(h)
          \/ ExportPhrase(h) \/ RecoverFromPhrase(h)

(***************************************************************************)
(* Properties.                                                             *)
(***************************************************************************)
SumWhere(w, P(_)) == MapThenSumSet(LAMBDA i : w.txs[i].amount, {i \in DOMAIN w.txs : P(i)})
OnDay(w, d) == SumWhere(w, LAMBDA i : w.txs[i].day = d)
InMonth(w, m) == SumWhere(w, LAMBDA i : MonthOf(w.txs[i].day) = m)

\* A wallet file that can be opened is consistent with itself, whatever was
\* killed and whoever overlapped: what came in is the balance plus what was
\* paid, and each spend bucket holds what the transactions of its day or month
\* add up to (record_spend, roll_spend_windows, one payload per save).
PurseBalances ==
    file.state = "whole" =>
        LET w == file.w
        IN  /\ w.in = w.bal + SumWhere(w, LAMBDA i : TRUE)
            /\ w.dayKey # Never => w.daySpent = OnDay(w, w.dayKey)
            /\ w.monthKey # Never => w.monthSpent = InMonth(w, w.monthKey)

\* Every payment in the file kept its day and its month within the caps in
\* force when it was made, across saves, restarts and new days (check_spend).
CapsHold ==
    \A i \in DOMAIN file.w.txs :
        LET tx == file.w.txs[i]
        IN  /\ Within(tx.perDay, SumWhere(file.w, LAMBDA j : j <= i /\ file.w.txs[j].day = tx.day))
            /\ Within(tx.perMonth,
                      SumWhere(file.w, LAMBDA j : j <= i /\ MonthOf(file.w.txs[j].day) = MonthOf(tx.day)))

\* With one process at a time, none killed or out of its seed's hour, and no
\* wallet file replaced, every receipt handed out is for a transaction in the
\* file or in the memory of the process about to save it.
ReceiptsAreSaved ==
    (alone /\ whole) =>
        \A r \in purseReceipts :
            \E w \in {file.w} \cup {holder[h].w : h \in Holders} :
                \E i \in DOMAIN w.txs : w.txs[i].id = r

\* A wallet that can be opened has a seed some `create' made: shards of two
\* backups in one directory are never combined into another seed, as long as
\* no backup was interrupted and none overlapped (recover_from_shards).
SeedsAreGenuine ==
    (alone /\ ~ cut) => \A w \in {file.w} \cup {holder[h].w : h \in Holders} :
                            w.seed \in 0 .. seeds

\* The wallet file is sound: what can be opened adds up, kept its caps, holds
\* every receipt handed out and has a genuine seed (wallet.rs save, open, pay,
\* recover_from_shards).
WalletIsSound == PurseBalances /\ CapsHold /\ ReceiptsAreSaved /\ SeedsAreGenuine

=============================================================================
