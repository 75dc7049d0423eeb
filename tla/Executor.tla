------------------------------ MODULE Executor ------------------------------
(***************************************************************************)
(* The payment executor of origin-payments and the commands that share its *)
(* store: `executor-run` (executor.rs), `order-create`, `order-retry` /    *)
(* `dlq-requeue`, `order-resume` (commands.rs) and the settlement webhook  *)
(* (webhook.rs).                                                           *)
(*                                                                         *)
(* The store is a directory of append-only files without a lock.  Each     *)
(* command is a process; it reads snapshots into memory, works on the      *)
(* copies and appends new lines, so one append is one step here and a      *)
(* crash (or an early return on an I/O error) may fall between any two.    *)
(* `deferred_settlement_enabled` has its default, FALSE.                   *)
(***************************************************************************)
EXTENDS Naturals, FiniteSets, Folds

(***************************************************************************)
(* The status machine of a payment order and the roll-up of a checkout     *)
(* event (origin-payments, event.rs).                                      *)
(***************************************************************************)
\* "Absent" stands for an order with no line in payment_orders.jsonl.
Status == {"Absent", "NotStarted", "Executing", "Success", "Failed", "RequiresAction"}

\* Mutant: a settled order may be requeued.
CanTransitionFromSuccess(from, to) ==
  \/ from = "NotStarted"     /\ to \in {"Executing", "Failed", "RequiresAction"}
  \/ from \in {"Executing", "RequiresAction", "Failed", "Success"}

\* OrderStatus::can_transition.
CanTransition(from, to) ==
  \/ from = "NotStarted"     /\ to \in {"Executing", "Failed", "RequiresAction"}
  \/ from = "Executing"      /\ to \in {"Success", "Failed", "RequiresAction", "NotStarted"}
  \/ from = "RequiresAction" /\ to \in {"Executing", "Failed", "NotStarted"}
  \/ from = "Failed"         /\ to \in {"Executing", "NotStarted"}

EventStatus == {"None", "Received", "Split", "Partial", "AllSettled"}

\* Mutant: a failed order counts as done.
RollupFailedIsDone(statuses) ==
  IF statuses # {} /\ statuses \subseteq {"Success", "Failed"} THEN "AllSettled" ELSE "Split"

\* EventStatus::rollup over the set of statuses of the event's orders.
Rollup(statuses) ==
  CASE statuses = {}                                -> "Received"
    [] statuses = {"Success"}                       -> "AllSettled"
    [] statuses \cap {"Failed", "RequiresAction"} # {} -> "Partial"
    [] statuses \subseteq {"NotStarted"}            -> "Received"
    [] OTHER                                        -> "Split"

-----------------------------------------------------------------------------
CONSTANTS
  Orders,       \* payment order ids
  Passes,       \* `executor-run` processes
  Clients,      \* operator commands and webhook deliveries
  Events,       \* checkout events
  None,         \* no order / no event / no receipt
  NoAuth,       \* the receipt of a card authorization that carries no `auth`
  Rail,         \* the rail an order is routed to (the hint, or native)
  EventOf,      \* the event an order was created in (None for payouts)
  PayoutOf,     \* the payout order a settled payment spawns (None: Hold or a payout)
  Commands,     \* what clients do to an existing order: "retrying", "resuming" (operator),
                \* "settled", "failed" (webhook callbacks)
  MaxAttempts,  \* RetryPolicy.max_attempts
  Funds,        \* number of orders the wallet can pay
  Overlap,      \* TRUE: commands may run at the same time (nothing in the code forbids it)
  MaxFaults,    \* bound on crashes, lost or garbled replies and journal failures
  MaxCharges,   \* bound on the charges of one order
  MaxOps        \* bound on operator commands and webhook deliveries

ASSUME ExecutorAssumption ==
  /\ Passes \cap Clients = {}
  /\ None \notin Orders /\ NoAuth \notin (Orders \X Nat) /\ None \notin Events
  /\ Rail \in [Orders -> {"native", "http402", "card", "ach"}]
  /\ EventOf \in [Orders -> Events \cup {None}]
  /\ PayoutOf \in [Orders -> Orders \cup {None}]
  /\ \A o \in Orders : PayoutOf[o] # None => /\ PayoutOf[PayoutOf[o]] = None
                                            /\ EventOf[PayoutOf[o]] = None
  /\ Commands \subseteq {"retrying", "resuming", "settled", "failed"}
  /\ MaxAttempts \in Nat \ {0}
  /\ Overlap \in BOOLEAN
  /\ Funds \in Nat /\ MaxFaults \in Nat /\ MaxCharges \in Nat /\ MaxOps \in Nat

\* order-create makes an event of the one order it creates.
ASSUME EventsAssumption ==
  \A o, r \in Orders : EventOf[o] = EventOf[r] /\ o # r => EventOf[o] = None

ASSUME FiniteProcs == IsFiniteSet(Passes) /\ IsFiniteSet(Clients)

Procs == Passes \cup Clients

VARIABLES
  db,        \* latest snapshot of each order in payment_orders.jsonl
  event,     \* latest status of each event in payment_events.jsonl
  letter,    \* dead-letter record of an order, and whether it was requeued since
  batches,   \* complete journal batches of an order
  legs,      \* first legs of batches of an order (a torn batch has no second)
  receipts,  \* the receipt-hash dedupe cache
  audited,   \* orders with an AT_ORDER_SETTLED audit entry
  wallet,    \* debits per order in the wallet file
  charges,   \* external: times a rail took the money of an order
  excuse,    \* history: faults and requeues that may cause another charge of an order
  payouts,   \* history: payout orders spawned by a payment
  pc,        \* where each process is
  cur,       \* the order it works on
  todo,      \* the snapshots it has still to visit
  mem,       \* its in-memory copies of those orders
  due,       \* orders whose retry deadline had passed at the pass's `now`
  purse,     \* its in-memory wallet
  rcpt,      \* the receipt the rail returned
  roll,      \* the event status it is about to append
  sweeping,  \* it is in the TTL sweep rather than the settle loop
  faults,    \* bound
  ops        \* bound

store == <<db, event, letter, batches, legs, receipts, audited, wallet>>
ghost == <<charges, excuse, payouts>>
local == <<pc, cur, todo, mem, due, purse, rcpt, roll, sweeping>>
vars  == <<store, ghost, local, faults, ops>>

-----------------------------------------------------------------------------
\* A snapshot keeps the fields of PaymentOrder the executor reads.  A retry
\* deadline is none, still waiting or due; `executing_since` is none, fresh or
\* past its TTL.  Attempts are only compared with MaxAttempts, so they saturate.
Snapshot == [status: Status, attempts: 0..MaxAttempts,
             retryAt: {"none", "waiting", "due"}, since: {"none", "fresh", "expired"}]

NoOrder == [status |-> "Absent", attempts |-> 0, retryAt |-> "none", since |-> "none"]
NewOrder == [NoOrder EXCEPT !.status = "NotStarted"]

Bump(n) == IF n < MaxAttempts THEN n + 1 ELSE MaxAttempts

Receipt == (Orders \X Nat) \cup {None, NoAuth}

\* Program locations of `executor-run` between two store accesses.
PassPC == {"sweep", "sweeping", "scan", "pick", "settle", "dedupe", "journal", "leg2",
           "success", "receipt", "trail", "payout", "retry", "fail", "dlq", "action",
           "rollup", "rollwrite"}
\* Program locations of the client commands.
ClientPC == {"event", "retrying", "resuming", "settled", "failed", "hookdlq"}
\* Locations after the rail took the money and before SUCCESS is on disk.
Unsettled == {"dedupe", "journal", "leg2", "success", "action"}

NoDebits == [o \in Orders |-> 0]
NoCopies == [o \in Orders |-> NoOrder]

TypeOK ==
  /\ db \in [Orders -> Snapshot]
  /\ event \in [Events -> EventStatus]
  /\ letter \in [Orders -> {"none", "dead", "requeued"}]
  /\ batches \in [Orders -> Nat] /\ legs \in [Orders -> Nat]
  /\ receipts \subseteq Receipt
  /\ audited \subseteq Orders
  /\ wallet \in [Orders -> Nat]
  /\ charges \in [Orders -> Nat] /\ excuse \in [Orders -> Nat] /\ payouts \in [Orders -> Nat]
  /\ pc \in [Procs -> {"idle"} \cup PassPC \cup ClientPC]
  /\ cur \in [Procs -> Orders \cup {None}]
  /\ todo \in [Procs -> SUBSET Orders]
  /\ mem \in [Procs -> [Orders -> Snapshot]]
  /\ due \in [Procs -> SUBSET Orders]
  /\ purse \in [Procs -> [Orders -> Nat]]
  /\ rcpt \in [Procs -> Receipt]
  /\ roll \in [Procs -> EventStatus]
  /\ sweeping \in [Procs -> BOOLEAN]
  /\ faults \in Nat /\ ops \in Nat

Init ==
  /\ db = [o \in Orders |-> NoOrder]
  /\ event = [e \in Events |-> "None"]
  /\ letter = [o \in Orders |-> "none"]
  /\ batches = [o \in Orders |-> 0] /\ legs = [o \in Orders |-> 0]
  /\ receipts = {} /\ audited = {}
  /\ wallet = NoDebits
  /\ charges = [o \in Orders |-> 0]
  /\ excuse = [o \in Orders |-> 0]
  /\ payouts = [o \in Orders |-> 0]
  /\ pc = [p \in Procs |-> "idle"]
  /\ cur = [p \in Procs |-> None]
  /\ todo = [p \in Procs |-> {}]
  /\ mem = [p \in Procs |-> NoCopies]
  /\ due = [p \in Procs |-> {}]
  /\ purse = [p \in Procs |-> NoDebits]
  /\ rcpt = [p \in Procs |-> None]
  /\ roll = [p \in Procs |-> "None"]
  /\ sweeping = [p \in Procs |-> FALSE]
  /\ faults = 0 /\ ops = 0

-----------------------------------------------------------------------------
(* Helpers *)

Goto(p, l) == pc' = [pc EXCEPT ![p] = l]

\* append_order: the new line becomes the latest snapshot.
UpdateOrder(p, o, s) ==
  /\ db' = [db EXCEPT ![o] = s]
  /\ mem' = [mem EXCEPT ![p][o] = s]

\* orders_with_status: copies of the latest snapshots of the orders in S.
Load(p, S) ==
  /\ todo' = [todo EXCEPT ![p] = S]
  /\ mem' = [mem EXCEPT ![p] = [o \in Orders |-> IF o \in S THEN db[o] ELSE NoOrder]]

CanStart == Overlap \/ \A q \in Procs : pc[q] = "idle"

\* The process ends, normally or not: its memory is gone.
Forget(p) ==
  /\ Goto(p, "idle")
  /\ cur' = [cur EXCEPT ![p] = None]
  /\ todo' = [todo EXCEPT ![p] = {}]
  /\ mem' = [mem EXCEPT ![p] = NoCopies]
  /\ due' = [due EXCEPT ![p] = {}]
  /\ purse' = [purse EXCEPT ![p] = NoDebits]
  /\ rcpt' = [rcpt EXCEPT ![p] = None]
  /\ roll' = [roll EXCEPT ![p] = "None"]
  /\ sweeping' = [sweeping EXCEPT ![p] = FALSE]

Spent(debits) == MapThenFoldSet(LAMBDA a, b : a + b, 0, LAMBDA o : debits[o],
                                LAMBDA S : CHOOSE o \in S : TRUE, Orders)

\* external: a PSP that authorizes a card dedupes on the order id; every x402
\* or ACH attempt signs a fresh nonce and is a payment of its own.
Charge(o) ==
  /\ charges[o] < MaxCharges \/ Rail[o] = "card"
  /\ charges' = [charges EXCEPT ![o] = IF Rail[o] = "card" THEN 1 ELSE @ + 1]

Excuse(o) == excuse' = [excuse EXCEPT ![o] = @ + 1]

Fault == faults < MaxFaults /\ faults' = faults + 1

-----------------------------------------------------------------------------
(* executor-run: opening the wallet and the TTL sweep *)

PassOpen(p) ==
  /\ pc[p] = "idle" /\ CanStart
  /\ purse' = [purse EXCEPT ![p] = wallet]
  /\ due' = [due EXCEPT ![p] = {o \in Orders : db[o].retryAt = "due"}]
  /\ sweeping' = [sweeping EXCEPT ![p] = TRUE]
  /\ Goto(p, "sweep")
  /\ UNCHANGED <<store, ghost, cur, todo, mem, rcpt, roll, faults, ops>>

SweepScan(p) ==
  /\ pc[p] = "sweep"
  /\ Load(p, {o \in Orders : db[o].status = "Executing"})
  /\ Goto(p, "sweeping")
  /\ UNCHANGED <<store, ghost, cur, due, purse, rcpt, roll, sweeping, faults, ops>>

SweepSkip(p, o) ==
  /\ pc[p] = "sweeping" /\ o \in todo[p]
  /\ mem[p][o].since # "expired"
  /\ todo' = [todo EXCEPT ![p] = @ \ {o}]
  /\ mem' = [mem EXCEPT ![p][o] = NoOrder]
  /\ UNCHANGED <<store, ghost, pc, cur, due, purse, rcpt, roll, sweeping, faults, ops>>

SweepRequeue(p, o) ==
  LET a == Bump(mem[p][o].attempts) IN
  /\ pc[p] = "sweeping" /\ o \in todo[p]
  /\ mem[p][o].since = "expired" /\ a < MaxAttempts
  /\ UpdateOrder(p, o, [status |-> "NotStarted", attempts |-> a,
                        retryAt |-> "none", since |-> "none"])
  /\ todo' = [todo EXCEPT ![p] = @ \ {o}]
  /\ cur' = [cur EXCEPT ![p] = o]
  /\ Goto(p, "rollup")
  /\ UNCHANGED <<event, letter, batches, legs, receipts, audited, wallet, ghost,
                 due, purse, rcpt, roll, sweeping, faults, ops>>

SweepDeadLetter(p, o) ==
  LET a == Bump(mem[p][o].attempts) IN
  /\ pc[p] = "sweeping" /\ o \in todo[p]
  /\ mem[p][o].since = "expired" /\ a >= MaxAttempts
  /\ UpdateOrder(p, o, [mem[p][o] EXCEPT !.status = "Failed", !.attempts = a])
  /\ todo' = [todo EXCEPT ![p] = @ \ {o}]
  /\ cur' = [cur EXCEPT ![p] = o]
  /\ Goto(p, "dlq")
  /\ UNCHANGED <<event, letter, batches, legs, receipts, audited, wallet, ghost,
                 due, purse, rcpt, roll, sweeping, faults, ops>>

SweepDone(p) ==
  /\ pc[p] = "sweeping" /\ todo[p] = {}
  /\ sweeping' = [sweeping EXCEPT ![p] = FALSE]
  /\ Goto(p, "scan")
  /\ UNCHANGED <<store, ghost, cur, todo, mem, due, purse, rcpt, roll, faults, ops>>

-----------------------------------------------------------------------------
(* executor-run: the settle loop *)

\* NOT_STARTED orders, and FAILED ones whose deadline had passed at `now`.
Scan(p) ==
  /\ pc[p] = "scan"
  /\ Load(p, {o \in Orders : \/ db[o].status = "NotStarted"
                             \/ db[o].status = "Failed" /\ db[o].retryAt = "due" /\ o \in due[p]})
  /\ due' = [due EXCEPT ![p] = {}]
  /\ Goto(p, "pick")
  /\ UNCHANGED <<store, ghost, cur, purse, rcpt, roll, sweeping, faults, ops>>

\* Mutant: executing_since is not stamped.
PickUnstamped(p, o) ==
  /\ pc[p] = "pick" /\ o \in todo[p]
  /\ CanTransition(mem[p][o].status, "Executing")
  /\ UpdateOrder(p, o, [mem[p][o] EXCEPT !.status = "Executing", !.attempts = Bump(@)])
  /\ todo' = [todo EXCEPT ![p] = @ \ {o}]
  /\ cur' = [cur EXCEPT ![p] = o]
  /\ Goto(p, "settle")
  /\ UNCHANGED <<event, letter, batches, legs, receipts, audited, wallet, ghost,
                 due, purse, rcpt, roll, sweeping, faults, ops>>

\* EXECUTING goes to disk before any rail call.
Pick(p, o) ==
  /\ pc[p] = "pick" /\ o \in todo[p]
  /\ CanTransition(mem[p][o].status, "Executing")
  /\ UpdateOrder(p, o, [mem[p][o] EXCEPT !.status = "Executing", !.since = "fresh",
                                         !.attempts = Bump(@)])
  /\ todo' = [todo EXCEPT ![p] = @ \ {o}]
  /\ cur' = [cur EXCEPT ![p] = o]
  /\ Goto(p, "settle")
  /\ UNCHANGED <<event, letter, batches, legs, receipts, audited, wallet, ghost,
                 due, purse, rcpt, roll, sweeping, faults, ops>>

\* The wallet is written once, at the end of the pass.
PassFinish(p) ==
  /\ pc[p] = "pick" /\ todo[p] = {}
  /\ wallet' = purse[p]
  /\ Forget(p)
  /\ UNCHANGED <<db, event, letter, batches, legs, receipts, audited, ghost, faults, ops>>

\* Rail disabled, bad amount, spend cap, compliance or configuration: terminal,
\* nothing sent.  A rail that declines is terminal too.
Refuse(p) ==
  /\ pc[p] = "settle"
  /\ Goto(p, "fail")
  /\ UNCHANGED <<store, ghost, cur, todo, mem, due, purse, rcpt, roll, sweeping, faults, ops>>

\* Mutant: a rail error is journaled as if the rail had paid.
UnavailableJournaled(p) ==
  /\ pc[p] = "settle"
  /\ Goto(p, "journal")
  /\ UNCHANGED <<store, ghost, cur, todo, mem, due, purse, rcpt, roll, sweeping, faults, ops>>

\* Every error of the native rail, and an unreachable or "try later" remote rail.
Unavailable(p) ==
  /\ pc[p] = "settle"
  /\ Goto(p, "retry")
  /\ UNCHANGED <<store, ghost, cur, todo, mem, due, purse, rcpt, roll, sweeping, faults, ops>>

\* LocalNativeRail debits the in-memory wallet.
NativePay(p) ==
  LET o == cur[p] IN
  /\ pc[p] = "settle" /\ Rail[o] = "native" /\ Spent(purse[p]) < Funds
  /\ purse' = [purse EXCEPT ![p][o] = @ + 1]
  /\ Charge(o)
  /\ Goto(p, "journal")
  /\ UNCHANGED <<store, excuse, payouts, cur, todo, mem, due, rcpt, roll, sweeping, faults, ops>>

\* The remote rail settles and returns a receipt: the PSP's for a card (the same
\* on every attempt, or none), a fresh one otherwise.
RemoteSettled(p) ==
  LET o == cur[p] IN
  /\ pc[p] = "settle" /\ Rail[o] # "native"
  /\ Charge(o)
  /\ \E r \in {<<o, charges'[o]>>} \cup (IF Rail[o] = "card" THEN {NoAuth} ELSE {}) :
       rcpt' = [rcpt EXCEPT ![p] = r]
  /\ Goto(p, "dedupe")
  /\ UNCHANGED <<store, excuse, payouts, cur, todo, mem, due, purse, roll, sweeping, faults, ops>>

\* `settlement_pending`: the payment is on its way.
RemotePending(p) ==
  LET o == cur[p] IN
  /\ pc[p] = "settle" /\ Rail[o] # "native"
  /\ Charge(o)
  /\ Goto(p, "action")
  /\ UNCHANGED <<store, excuse, payouts, cur, todo, mem, due, purse, rcpt, roll, sweeping,
                 faults, ops>>

\* The rail took the money and its reply timed out (retryable) or does not
\* parse (terminal; ACH maps every error of the call to retryable).
ReplyLost(p) ==
  LET o == cur[p] IN
  /\ pc[p] = "settle" /\ Rail[o] # "native"
  /\ Charge(o) /\ Excuse(o) /\ Fault
  /\ \/ Goto(p, "retry")
     \/ Rail[o] # "ach" /\ Goto(p, "fail")
  /\ UNCHANGED <<store, payouts, cur, todo, mem, due, purse, rcpt, roll, sweeping, ops>>

\* Mutant: a fresh receipt settles the order before the batch is posted.
DedupeBeforeJournal(p) ==
  /\ pc[p] = "dedupe"
  /\ Goto(p, IF rcpt[p] \in receipts THEN "fail" ELSE "success")
  /\ UNCHANGED <<store, ghost, cur, todo, mem, due, purse, rcpt, roll, sweeping, faults, ops>>

\* is_receipt_settled: a receipt already in the cache is a terminal refusal.
Dedupe(p) ==
  /\ pc[p] = "dedupe"
  /\ Goto(p, IF rcpt[p] \in receipts THEN "fail" ELSE "journal")
  /\ UNCHANGED <<store, ghost, cur, todo, mem, due, purse, rcpt, roll, sweeping, faults, ops>>

\* append_order_batch, first leg.
JournalLeg(p) ==
  /\ pc[p] = "journal"
  /\ legs' = [legs EXCEPT ![cur[p]] = @ + 1]
  /\ Goto(p, "leg2")
  /\ UNCHANGED <<db, event, letter, batches, receipts, audited, wallet, ghost,
                 cur, todo, mem, due, purse, rcpt, roll, sweeping, faults, ops>>

\* append_order_batch, last leg.
JournalBatch(p) ==
  /\ pc[p] = "leg2"
  /\ batches' = [batches EXCEPT ![cur[p]] = @ + 1]
  /\ Goto(p, "success")
  /\ UNCHANGED <<db, event, letter, legs, receipts, audited, wallet, ghost,
                 cur, todo, mem, due, purse, rcpt, roll, sweeping, faults, ops>>

\* An unpostable FX batch, a signing failure or an append error: terminal.
JournalFails(p) ==
  /\ pc[p] \in {"journal", "leg2"}
  /\ Excuse(cur[p]) /\ Fault
  /\ Goto(p, "fail")
  /\ UNCHANGED <<store, charges, payouts, cur, todo, mem, due, purse, rcpt, roll, sweeping, ops>>

\* SUCCESS is appended after the journal batch.
MarkSettled(p) ==
  LET o == cur[p] IN
  /\ pc[p] = "success"
  /\ UpdateOrder(p, o, [mem[p][o] EXCEPT !.status = "Success"])
  /\ Goto(p, IF Rail[o] = "native" THEN "trail" ELSE "receipt")
  /\ UNCHANGED <<event, letter, batches, legs, receipts, audited, wallet, ghost,
                 cur, todo, due, purse, rcpt, roll, sweeping, faults, ops>>

RecordReceipt(p) ==
  /\ pc[p] = "receipt"
  /\ receipts' = receipts \cup {rcpt[p]}
  /\ Goto(p, "trail")
  /\ UNCHANGED <<db, event, letter, batches, legs, audited, wallet, ghost,
                 cur, todo, mem, due, purse, rcpt, roll, sweeping, faults, ops>>

\* Notification and AT_ORDER_SETTLED audit entry.
Trail(p) ==
  /\ pc[p] = "trail"
  /\ audited' = audited \cup {cur[p]}
  /\ Goto(p, IF PayoutOf[cur[p]] = None THEN "rollup" ELSE "payout")
  /\ UNCHANGED <<db, event, letter, batches, legs, receipts, wallet, ghost,
                 cur, todo, mem, due, purse, rcpt, roll, sweeping, faults, ops>>

\* apply_settlement_preference, OffRamp or Split: a payout order under a new id
\* (the first of a payment joins Orders, a further one is only counted).
SpawnPayout(p) ==
  LET o == cur[p] IN
  /\ pc[p] = "payout"
  /\ db' = [db EXCEPT ![PayoutOf[o]] = IF @.status = "Absent" THEN NewOrder ELSE @]
  /\ payouts' = [payouts EXCEPT ![o] = @ + 1]
  /\ Goto(p, "rollup")
  /\ UNCHANGED <<event, letter, batches, legs, receipts, audited, wallet, charges, excuse,
                 cur, todo, mem, due, purse, rcpt, roll, sweeping, faults, ops>>

\* schedule_retry: FAILED with a deadline in the future...
ScheduleRetry(p) ==
  LET o == cur[p] IN
  /\ pc[p] = "retry" /\ mem[p][o].attempts < MaxAttempts
  /\ UpdateOrder(p, o, [mem[p][o] EXCEPT !.status = "Failed", !.retryAt = "waiting"])
  /\ due' = [q \in Procs |-> due[q] \ {o}]
  /\ Goto(p, "rollup")
  /\ UNCHANGED <<event, letter, batches, legs, receipts, audited, wallet, ghost,
                 cur, todo, purse, rcpt, roll, sweeping, faults, ops>>

\* ... or the caller dead-letters the order.
RetriesExhausted(p) ==
  /\ pc[p] = "retry" /\ mem[p][cur[p]].attempts >= MaxAttempts
  /\ Goto(p, "fail")
  /\ UNCHANGED <<store, ghost, cur, todo, mem, due, purse, rcpt, roll, sweeping, faults, ops>>

\* mark_failed, first append: FAILED; next_retry_at stays as it is.
MarkFailed(p) ==
  LET o == cur[p] IN
  /\ pc[p] = "fail"
  /\ UpdateOrder(p, o, [mem[p][o] EXCEPT !.status = "Failed"])
  /\ Goto(p, "dlq")
  /\ UNCHANGED <<event, letter, batches, legs, receipts, audited, wallet, ghost,
                 cur, todo, due, purse, rcpt, roll, sweeping, faults, ops>>

\* mark_failed, second append: the dead letter.
AppendDlq(p) ==
  /\ pc[p] = "dlq"
  /\ letter' = [letter EXCEPT ![cur[p]] = "dead"]
  /\ Goto(p, "rollup")
  /\ UNCHANGED <<db, event, batches, legs, receipts, audited, wallet, ghost,
                 cur, todo, mem, due, purse, rcpt, roll, sweeping, faults, ops>>

\* Mutant: a pending settlement is retried on a timer.
AwaitActionOnTimer(p) ==
  LET o == cur[p] IN
  /\ pc[p] = "action"
  /\ UpdateOrder(p, o, [mem[p][o] EXCEPT !.status = "Failed", !.retryAt = "waiting"])
  /\ Goto(p, "rollup")
  /\ UNCHANGED <<event, letter, batches, legs, receipts, audited, wallet, ghost,
                 cur, todo, due, purse, rcpt, roll, sweeping, faults, ops>>

AwaitAction(p) ==
  LET o == cur[p] IN
  /\ pc[p] = "action"
  /\ UpdateOrder(p, o, [mem[p][o] EXCEPT !.status = "RequiresAction"])
  /\ Goto(p, "rollup")
  /\ UNCHANGED <<event, letter, batches, legs, receipts, audited, wallet, ghost,
                 cur, todo, due, purse, rcpt, roll, sweeping, faults, ops>>

\* Back to the loop the order was taken from.
NextOrder(p) ==
  /\ Goto(p, IF sweeping[p] THEN "sweeping" ELSE "pick")
  /\ cur' = [cur EXCEPT ![p] = None]
  /\ mem' = [mem EXCEPT ![p][cur[p]] = NoOrder]
  /\ rcpt' = [rcpt EXCEPT ![p] = None]

\* rollup_event for an order no event holds (a payout, or a torn order-create).
NoEvent(p) ==
  /\ pc[p] = "rollup"
  /\ \A e \in Events : EventOf[cur[p]] = e => event[e] = "None"
  /\ NextOrder(p)
  /\ UNCHANGED <<store, ghost, todo, due, purse, roll, sweeping, faults, ops>>

\* rollup_event: the status follows from the latest snapshots of the event's orders...
RollupRead(p) ==
  LET e == EventOf[cur[p]]
      held == {o \in Orders : EventOf[o] = e /\ db[o].status # "Absent"}
  IN
  /\ pc[p] = "rollup"
  /\ e # None /\ event[e] # "None"
  /\ roll' = [roll EXCEPT ![p] = Rollup({db[o].status : o \in held})]
  /\ Goto(p, "rollwrite")
  /\ UNCHANGED <<store, ghost, cur, todo, mem, due, purse, rcpt, sweeping, faults, ops>>

\* ... and is appended.
RollupWrite(p) ==
  /\ pc[p] = "rollwrite"
  /\ event' = [event EXCEPT ![EventOf[cur[p]]] = roll[p]]
  /\ roll' = [roll EXCEPT ![p] = "None"]
  /\ NextOrder(p)
  /\ UNCHANGED <<db, letter, batches, legs, receipts, audited, wallet, ghost, todo, due, purse,
                 sweeping, faults, ops>>

-----------------------------------------------------------------------------
(* order-create, order-retry / dlq-requeue, order-resume and the webhook *)

CreateOrder(c, o) ==
  /\ pc[c] = "idle" /\ CanStart
  /\ db[o].status = "Absent" /\ EventOf[o] # None
  /\ db' = [db EXCEPT ![o] = NewOrder]
  /\ cur' = [cur EXCEPT ![c] = o]
  /\ Goto(c, "event")
  /\ UNCHANGED <<event, letter, batches, legs, receipts, audited, wallet, ghost,
                 todo, mem, due, purse, rcpt, roll, sweeping, faults, ops>>

AppendEvent(c) ==
  /\ pc[c] = "event"
  /\ event' = [event EXCEPT ![EventOf[cur[c]]] = "Received"]
  /\ Forget(c)
  /\ UNCHANGED <<db, letter, batches, legs, receipts, audited, wallet, ghost, faults, ops>>

\* A command loads the order and checks that it may be requeued (retry,
\* resume) or that it waits for its rail (the webhook).
LoadOrder(c, o, l) ==
  /\ pc[c] = "idle" /\ CanStart
  /\ ops < MaxOps /\ ops' = ops + 1
  /\ IF l \in {"retrying", "resuming"}
       THEN CanTransition(db[o].status, "NotStarted")
       ELSE db[o].status = "RequiresAction"
  /\ mem' = [mem EXCEPT ![c][o] = db[o]]
  /\ cur' = [cur EXCEPT ![c] = o]
  /\ Goto(c, l)
  /\ UNCHANGED <<store, ghost, todo, due, purse, rcpt, roll, sweeping, faults>>

\* Back to NOT_STARTED; only order-retry counts an attempt, only the webhook
\* clears executing_since.
Requeue(c) ==
  LET o == cur[c] IN
  /\ pc[c] \in {"retrying", "resuming", "settled"}
  /\ db' = [db EXCEPT ![o] =
       [status   |-> "NotStarted",
        attempts |-> IF pc[c] = "retrying" THEN Bump(mem[c][o].attempts) ELSE mem[c][o].attempts,
        retryAt  |-> "none",
        since    |-> IF pc[c] = "settled" THEN "none" ELSE mem[c][o].since]]
  /\ letter' = [letter EXCEPT ![o] = IF @ = "dead" THEN "requeued" ELSE @]
  /\ Excuse(o)
  /\ Forget(c)
  /\ UNCHANGED <<event, batches, legs, receipts, audited, wallet, charges, payouts, faults, ops>>

\* The webhook reports a failed settlement.
HookFailed(c) ==
  LET o == cur[c] IN
  /\ pc[c] = "failed"
  /\ UpdateOrder(c, o, [mem[c][o] EXCEPT !.status = "Failed"])
  /\ Excuse(o)
  /\ Goto(c, "hookdlq")
  /\ UNCHANGED <<event, letter, batches, legs, receipts, audited, wallet, charges, payouts,
                 cur, todo, due, purse, rcpt, roll, sweeping, faults, ops>>

HookDlq(c) ==
  /\ pc[c] = "hookdlq"
  /\ letter' = [letter EXCEPT ![cur[c]] = "dead"]
  /\ Forget(c)
  /\ UNCHANGED <<db, event, batches, legs, receipts, audited, wallet, ghost, faults, ops>>

-----------------------------------------------------------------------------
(* Time and faults *)

DeadlinePasses(o) ==
  /\ db[o].retryAt = "waiting"
  /\ db' = [db EXCEPT ![o].retryAt = "due"]
  /\ UNCHANGED <<event, letter, batches, legs, receipts, audited, wallet, ghost, local, faults, ops>>

TtlPasses(o) ==
  /\ db[o].status = "Executing" /\ db[o].since = "fresh"
  /\ db' = [db EXCEPT ![o].since = "expired"]
  /\ UNCHANGED <<event, letter, batches, legs, receipts, audited, wallet, ghost, local, faults, ops>>

\* The process dies, or returns early because a store access failed.
Crash(p) ==
  /\ pc[p] # "idle"
  /\ Fault
  /\ excuse' = [o \in Orders |-> IF o = cur[p] /\ pc[p] \in Unsettled THEN excuse[o] + 1
                                                                    ELSE excuse[o]]
  /\ Forget(p)
  /\ UNCHANGED <<store, charges, payouts, ops>>

-----------------------------------------------------------------------------

SweepStep(p) ==
  \/ SweepScan(p) \/ SweepDone(p)
  \/ \E o \in Orders : SweepSkip(p, o) \/ SweepRequeue(p, o) \/ SweepDeadLetter(p, o)

RailStep(p) ==
  Refuse(p) \/ Unavailable(p) \/ NativePay(p) \/ RemoteSettled(p) \/ RemotePending(p)
    \/ ReplyLost(p)

OutcomeStep(p) ==
  \/ Dedupe(p) \/ JournalLeg(p) \/ JournalBatch(p) \/ JournalFails(p)
  \/ MarkSettled(p) \/ RecordReceipt(p) \/ Trail(p) \/ SpawnPayout(p)
  \/ ScheduleRetry(p) \/ RetriesExhausted(p) \/ MarkFailed(p) \/ AppendDlq(p)
  \/ AwaitAction(p) \/ NoEvent(p) \/ RollupRead(p) \/ RollupWrite(p)

PassStep(p) ==
  \/ SweepStep(p) \/ Scan(p) \/ PassFinish(p)
  \/ \E o \in Orders : Pick(p, o)
  \/ RailStep(p) \/ OutcomeStep(p)

ClientStart(c) ==
  \E o \in Orders : \/ CreateOrder(c, o)
                    \/ \E l \in Commands : LoadOrder(c, o, l)

ClientStep(c) == AppendEvent(c) \/ Requeue(c) \/ HookFailed(c) \/ HookDlq(c)

Next ==
  \/ \E p \in Passes : PassOpen(p) \/ PassStep(p)
  \/ \E c \in Clients : ClientStart(c) \/ ClientStep(c)
  \/ \E o \in Orders : DeadlinePasses(o) \/ TtlPasses(o)
  \/ \E p \in Procs : Crash(p)

Spec == Init /\ [][Next]_vars

\* The executor is run again and again (cron, `origin-payments executor-run`), a
\* started process goes on until it ends or dies, and time passes.
Fairness ==
  /\ \A p \in Passes : WF_vars(PassOpen(p)) /\ WF_vars(PassStep(p))
  /\ \A c \in Clients : WF_vars(ClientStep(c))
  /\ \A o \in Orders : WF_vars(DeadlinePasses(o)) /\ WF_vars(TtlPasses(o))

FairSpec == Spec /\ Fairness

-----------------------------------------------------------------------------
(* Properties *)

\* event.rs "Settled: journal + wallet updated.": an order that reads SUCCESS
\* has a complete journal batch, whatever overlaps or crashes.
SettledIsJournaled ==
  \A o \in Orders : db[o].status = "Success" => batches[o] >= 1

\* Every batch, complete or torn, stands for a charge of its own: the journal is
\* never ahead of the rails.  (A card is charged once however often it is
\* authorized, so there one charge must have happened.)
EveryBatchHasItsCharge ==
  \A o \in Orders : /\ batches[o] <= legs[o]
                     /\ IF Rail[o] = "card" THEN legs[o] > 0 => charges[o] > 0
                                             ELSE legs[o] <= charges[o]

\* Run one command at a time and a rail takes an order's money once, plus at most
\* once for each crash, lost reply, journal failure or requeue of that order, and
\* for each failed settlement the webhook reported of it.  (A card is charged once
\* by its rail, whatever happens.)
ExtraChargesNeedACause ==
  \A o \in Orders : charges[o] <= 1 + excuse[o]

\* What follows a settlement (ALL_SETTLED of its event, the audit entry, the cached
\* receipt, the one payout of apply_settlement_preference) never exists for an order
\* that is not SUCCESS.
EffectsFollowSettlement ==
  \A o \in Orders :
    /\ payouts[o] <= 1
    /\ db[o].status # "Success" =>
         /\ payouts[o] = 0
         /\ o \notin audited
         /\ \A n \in 1..charges[o] : <<o, n>> \notin receipts
         /\ EventOf[o] # None => event[EventOf[o]] # "AllSettled"

\* A settled order is never written again with another status.
SettledStaysSettled ==
  [][\A o \in Orders : db[o].status = "Success" => db'[o].status = "Success"]_vars

\* Crash recovery: an order left EXECUTING is eventually settled, requeued,
\* failed or parked; the TTL sweep of a later pass picks it up.
StuckOrdersRecover ==
  \A o \in Orders : []<>(db[o].status # "Executing")

-----------------------------------------------------------------------------
(* What the documents say and the code does not do *)

\* DOGFOODING.md "after `max_attempts`, the order goes terminal and is
\* dead-lettered": it stays FAILED until somebody requeues it.
DeadLettersStayDead ==
  \A o \in Orders : letter[o] = "dead" => db[o].status = "Failed"

\* webhook.rs "so the next executor pass settles it with the receipt": a payment
\* the rail has confirmed is not paid again.
ConfirmedPaymentsAreChargedOnce ==
  \A o \in Orders : charges[o] <= 1

\* PAYMENT_SYSTEM_DESIGN.md "refuses to re-execute an order that is already
\* EXECUTING": no pass takes an order another pass is executing.
ExecutingIsExclusive ==
  [][\A p \in Passes, o \in Orders :
        pc[p] = "pick" /\ pc'[p] = "settle" /\ cur'[p] = o => db[o].status # "Executing"]_vars

=============================================================================
