# TLA+ models of origin-tools

This directory holds TLA+ specifications of the origin-tools workspace (`src/`),
the TLC configurations that check them on small instances, and TLAPS proofs of the
properties that matter most. `PROJECT.json` is the machine-readable index:
components, runs, mutants, the map from definitions to source lines, findings,
hazards and theorems.

- [The system](#the-system): the parts and what is hard about them
- [Modules](#modules): which module models which part, state and actions
- [Runs](#runs): what TLC checks, bounds, fairness, mutants
- [Proofs](#proofs): theorems, the invariants behind them, what is only model-checked
- [Disagreements](#disagreements-between-documents-and-code)
- [Not modelled](#not-modelled)

To check: `tlc -workers 2 -config Network.cfg MCNetwork` for a run (`runs` in
`PROJECT.json` pairs configurations with modules), `tlapm RelayProofs.tla` for the
proofs of a module.

## The system

origin-tools is a workspace of Rust crates around one cryptographic SDK. Most
commands are short-lived processes over a directory of files; the network crates
are long-lived tokio tasks.

| Part | What is hard |
|---|---|
| payments: executor, order commands, webhook | a crash between any two appends; a second pass on old snapshots; replies lost after the charge; no lock |
| payments: journal, audit log, deferred batches, reconciliation, custody | chains that are read and extended without a lock; torn batches; a crash between checkpoint and clear |
| payments: HTTP rails | replies in parts, half-way or never, after the provider charged |
| wallet | a save that truncates; spend windows; two processes on one file |
| channel: session, replay window, handshake | loss, duplication, reordering; rotation with frames in flight; shifts at word boundaries |
| network: relay server, daemon, client | one mutex per registry; overlapping connections of one peer; answers matched by type; the daemon's copy of the eviction file |
| network: transports, sessions, NAT | reads abandoned by deadlines and `select!`; retried dials; punching that races its deadline |
| vcs: store and commands | a crash between the writes of one commit; state files of interrupted commands; gc against what is still named |
| vcs: remotes | fast-forward checks against tips read earlier; streams that break; lost datagrams |
| pass, secrets, identity | vaults and their satellites rewritten by processes that overlap and die |
| crawler | workers over one frontier and one corpus; politeness slots |
| attest, provenance, canary, proof, seal | chains, thresholds, Merkle evidence; manifests that go stale |

What can go wrong in a way a unit test would hardly reach is listed, line by line,
under `hazards` in `PROJECT.json`, with the properties that would catch it.

## Modules

### Payments

| Module | Models |
|---|---|
| `Executor` | executor passes, order commands and webhook deliveries over one store (`executor.rs`, `retry.rs`, `event.rs`, `commands.rs`, `webhook.rs`) |
| `Books` | journal, audit log, deferred commitments, checkpoints, reconciliation, custody directory |
| `X402` | x402 direct and split, ACH and card rails over the crate's HTTP client |
| `Receiver` | the webhook listener: one thread, deadlines, age and signature, repeated callbacks |
| `Purse` | the wallet file: open, pay under caps, save, shards, phrase, recovery |
| `MCExecutor`, `MCPayments` | instances |

The payments store is a directory of JSON-lines files that every command opens,
reads and appends to; nothing locks it. `Executor` has one *process* per command
(`Passes` run `executor-run`, `Clients` are operator commands and webhook
deliveries), and one *step* per store access or rail call. A process copies orders
into `mem`, works on the copies and appends new snapshots to `db`.

| Variable | In the code |
|---|---|
| `db`, `event`, `letter` | latest lines of `payment_orders.jsonl`, `payment_events.jsonl`, the dead-letter file |
| `batches`, `legs` | journal batches with all their legs, and first legs (a torn batch has no second) |
| `receipts`, `audited`, `wallet` | receipt cache, audit entries, debits in the wallet file |
| `charges` | external: what the rails took |
| `excuse`, `payouts` | history: causes for another charge; payouts spawned |
| `pc`, `cur`, `todo`, `mem`, `due`, `purse`, `rcpt`, `roll`, `sweeping` | locals of a process |

A pass runs `PassOpen`; the TTL sweep (`SweepScan` .. `SweepDone`); `Scan`; and for
each snapshot `Pick`, one rail outcome (`Refuse`, `Unavailable`, `NativePay`,
`RemoteSettled`, `RemotePending`, `ReplyLost`), `Dedupe`, the two journal legs,
`MarkSettled`, `RecordReceipt`, `Trail`, `SpawnPayout` or the retry, failure and
action paths, and the roll-up of the event. `PassFinish` saves the wallet.
`CreateOrder`, `LoadOrder`, `Requeue`, `HookFailed` and `HookDlq` are the commands and
the webhook. `DeadlinePasses` and `TtlPasses` are time. `Crash` ends any process
between any two of its steps, which is also what an I/O error returned with `?` does.

Abstractions: amounts, FX, compliance and spend limits are one outcome, `Refuse`;
a timestamp is where it stands relative to now; attempts saturate at
`max_attempts`, the only number they are compared with; `deferred_settlement_enabled`
is off (its batches are in `Books`). `Overlap = FALSE` restricts the system to one
command at a time, which is how it is meant to be run and what nothing in the code
enforces.

`Books` and `Purse` have processes of the same kind, which may overlap and fall
between any two steps. In `Books` the hash of an entry is its place in the log, so two
entries made from the same head are a fork. What an overlap really breaks is in the
properties as a condition (a chain verifies unless two commands overlapped),
so that they say what crashes alone cannot do.

### Channel and network

| Module | Models |
|---|---|
| `WindowOps`, `SlidingWindow` | what it means to accept a number; the abstract replay detector |
| `ReplayWindow` | the detector as stored, a bitmap in machine words; refines `SlidingWindow` |
| `Channel` | two ratcheted sessions and the carrier between them |
| `Session` | dialing with retries, the three handshake messages, the AUTH claim |
| `Framing` | `send_frame` / `recv_frame` over TCP, QUIC and UDP |
| `Demux` | many streams over one connection |
| `Relay` | connection tasks of the relay server over its registries |
| `Mailbox` | a relay client's calls on one connection; inbox and adverts at the relay |
| `RelayDaemon` | eviction file, daemon restarts, operator commands, token buckets |
| `Punch` | a `relay://` remote: STUN, hole punching, fall back to the relay |
| `Attestation` | delegations, endorsement graph, registry, cookies |
| `MCSessions`, `MCNetwork`, `MCRelay` | instances |

`WindowOps` says which numbers a window accepts; `SlidingWindow` is the promise to the
caller; `ReplayWindow` is the word array of `replay.rs` with its word and bit shifts,
one action per branch of `accept`, and the word width a constant. A word is the set of
its bits that are on, so a shift moves the members of a set and drops those past the end.

`Channel` has two `RatchetedSession`s and the frames between them. Keys are symbolic:
an epoch, a lane and a step. `Decrypt` does what the code does in its order: the
window marks the number, the budget is charged, the chain advances, and only then
does the AEAD decide. A stream delivers in order; datagrams are lost, duplicated and
reordered. Nothing outside the tests calls `rotate` yet, so both policies its callers
may have are modelled: both ends together on an idle pipe, as the rotation tests do,
and each end by itself (`Apart`).

`Relay` has one task per connection. Every registry of the server has its own mutex
and a task holds one at a time, so a step is one critical section or one frame sent.
The registries are keyed by the peer's fingerprint and hold ends of channels that
belong to a connection; `conns`, `senders` and `byTarget` name the connection that
reads the channel. `Register` .. `AuthOkSent` is the way in, `Disconnect` ..
`Farewell` the way out, the rest is the control loop. A connection slot is reused once
nothing refers to it. `overlapped` and `leaked` are history variables: they tell peers
that used two connections at a time, and peers whose `AuthOk` could not be sent (the
code then returns past its tear-down), from the others.

In `Framing` a read takes any non-empty piece of what is in flight and may be
abandoned at each `await`; in `Mailbox` a reply carries the number of its request,
which the real frames do not, so that a property can say whose reply a call got; in
`Punch` every call has sockets of its own and routers pass what they are given to pass.

### Versioned store

| Module | Models |
|---|---|
| `Repository` | objects, refs, index, log, working tree; commit, branch, tag, checkout, reset, merge, cherry-pick, rebase, stash, gc, blame; kills between writes |
| `Revisions` | abbreviated ids, rebase plans and autosquash, bisect and its script |
| `TextMerge` | the line-by-line three-way merge |
| `WorkTree` | the walk under ignore files, `status`, chunked objects, streams, bundles |
| `Remotes` | fetch, push, `sync` and `serve` over a directory, a stream, a session and UDP |
| `MCRepository`, `MCLoops` | instances |

A commit stands for itself, its tree and its blobs. In `Repository` a command is one
action, unless it may be killed: then it is the sequence of its file writes. Each
behaviour draws its commands from one *menu* (`Scenarios` of `MCRepository`), a set of
commands that interfere with each other, since all of them together are out of reach.

### Stores and tools

| Module | Models |
|---|---|
| `Secrets` | the secrets vault, its audit log and revocations, share files |
| `Keystore` | the identity directory and its phrase file |
| `PassVault` | the password vault, unlock tokens, one-time codes, the challenge ledger |
| `Seal` | sealed envelopes, whole and streamed, signatures |
| `Mmr` | the Merkle mountain range and its state file |
| `Provenance` | manifests, marks and stamps |
| `Canary` | embedding, manifest, publication, evidence |
| `Crawler` | frontier, workers, corpus, prune |
| `MCStores` | instance (`Crawler` is in `MCLoops`) |

Ciphers, hashes and signatures are symbolic throughout: a hash is the term it is
computed from, a ciphertext opens under its own key, nonce and associated data, and a
damaged one does not.

## Runs

A run asks one question of several parts that have it in common. Its module composes
the parts so that a variable `part`, chosen at the start, says which of them takes
steps: the parts do not share state in the code either, and each behaviour is one of
the part by itself. `MCExecutor` has two parts that are instances of one module:
`orders`, those the configuration names (a payment and the payout it spawns, in
`executor`), and `rails`, a card and a bank payment.

| Run | Module, cfg | Checks |
|---|---|---|
| `executor` | `MCExecutor`, `ExecutorRails` | `SettledIsJournaled`, `ExtraChargesNeedACause`, `EffectsFollowSettlement`, `SettledStaysSettled`, `StuckOrdersRecover` |
| `payments` | `MCPayments`, `Payments` | `EveryBatchHasItsCharge`, `BooksAreKept`, `WalletIsSound`, `ChargesAreGenuine` |
| `sessions` | `MCSessions`, `Sessions` | `MessageKeysUsedOnce`, `OpenedInOrderOnce`, `ImplementsSlidingWindow`, `AnswersFindTheirStream`, `AdmissionHolds`, `VouchersCount` |
| `network` | `MCNetwork`, `Network` | `PipesAgree`, `FramesArriveAsSent`, `ClientsGetTheirOwn`, `AnswersReachTheirAskers`, `ConversationsEnd` |
| `relay` | `MCRelay`, `RelaySafety` | `PairsAreSound`, `SubscriptionsMirrored`, `PresenceIsTrue` |
| `repository` | `MCRepository`, `Repository` | `RepositoryVerifies`, `CommandsKeepWork` |
| `loops` | `MCLoops`, `Loops` | `StoresAreWhole`, `NothingIsClobbered`, `CommandsMeanTheirCommits`, `EditsMergeByLine`, `FilesAreKept`, `CorpusIsRight`, `WaitsResolveOnce`, `LoopsEnd` |
| `stores` | `MCStores`, `Stores` | `SecretsAreKept`, `IdentitiesAreKept`, `UsedUpStaysUsedUp`, `SealsAreExact`, `ProofsAreExact`, `VerdictsAreRight`, `RecordsHold` |
| `dead_letters`, `webhook_confirmed`, `two_passes`, `reordered_frames` | the smallest instance that shows it | one statement of a document each; see [Disagreements](#disagreements-between-documents-and-code) |

Each property is defined, with a comment that states it, in the module of its part;
the compound ones (`SecretsAreKept`, `LoopsEnd`, ...) name their conjuncts.

What they show. Where a line says *unless*, the exception is in the property, and what
the code does there is under [Disagreements](#disagreements-between-documents-and-code):

- **Payments, one command at a time.** Whatever crashes, and whichever command or
  callback comes in, SUCCESS is final and journaled; payouts, audit entries, cached
  receipts and ALL_SETTLED exist only for settled orders; an order is charged more
  than once only with a cause that can be named (a crash, a lost reply, a journal
  failure, a requeue, or a failure the webhook reported of that order); an order a
  crash left EXECUTING leaves it.
- **Payments, overlapping.** The journal is still never ahead of the rails and SUCCESS
  still has its batch. Charging once is lost: see `two_passes`. Crashes alone do not
  break the chains of the books, lose a commitment, or leave a wallet that opens and
  does not add up; two processes with one file in hand may. A reconciliation says
  Clean only when both sides agree on the orders it compared.
- **Sessions.** No message key is used twice although nonces restart with every
  rotation; what is opened was sent, in order and once; the bitmap answers as the set
  of recent numbers would; bans survive restarts as long as commands run alone;
  nobody is believed without a voucher, and a voucher counts for just what it says.
- **Network.** Frames survive abandoned reads. A call gets the reply to its own request
  unless a call before it gave up and left its reply on the way. Dials, calls to the
  relay and frames over TCP and QUIC come to an end; a command over a punched path
  does unless a datagram of its exchange was lost; departures reach watchers unless
  connections of one peer overlapped.
- **Relay.** Registrations, pairs, subscriptions and outbound channels stay consistent
  while connections of one peer overlap; tear-down leaves nothing behind.
- **Repository.** History stays whole through kills, rebases and resets, unless gc ran
  while only the index, a tracking ref or a state file named an object. `verify` finds
  the log and the MMR in agreement unless a command was killed between the two writes;
  then the log only lacks leaves. Committed work is let go only by the commands meant
  to, or by an abort or a commit that goes by a state file older than the last move of
  its branch; edits that were never committed are not protected. A merge without
  conflict keeps what each side changed, and a checkout leaves no drift.
- **Remotes and working trees.** What a store refers to it holds, whatever was killed,
  refused or broke off; nothing published is taken off its history without `--force`,
  unless two pushes to one directory overlap; walks, objects and bundles give files
  back; an abbreviation, a plan and a bisection mean the commits the user meant.
- **Crawler and receiver.** Every URL is accounted for and every body stored once; a
  crash costs at most the sources of one sidecar; a host's n-th page is asked for no
  earlier than n - 1 delays after its first. A wait of an order is resolved by one
  callback at most, and by none older than the tolerance. A connection ends unless its
  peer drips lines for ever.
- **Stores.** Recovery gives back only seeds a vault was made with, from shares of one
  sharding, also when commands overlap or die. While they do not overlap, what a
  command reported stays, shares that verify do recover, no identity is lost, no
  retired passphrase opens one. A used code or a replaced master key comes back only if
  a command wrote over what it had not read. Proofs verify against the root of their
  own leaves and no other, unless a version 2 leaf is itself two hashes joined; an
  envelope opens to what was sealed, unless a stream lost its last chunks or a
  compressed flag was cleared; verdicts and published records hold.

### Bounds

- `MaxAttempts = 3` one command at a time: picking an order and sweeping it both count
  an attempt, so the sweep requeues an order once and dead-letters it the second time,
  and a retry and an exhausted order both occur. It is 2 where passes overlap.
  `MaxCharges = 5` is above what two faults, one command and the retries of a dead
  letter explain, so the bound hides no charge; with overlapping passes it is 2, enough
  for each pass to charge once. Two faults allow a crash during the recovery from a crash.
- `Funds = 1` pays the native payout once: a second attempt after a saved debit is refused.
- Two clerks and three commands, two holders and three operations: both halves of a
  read and a write by one process can enclose a whole command of the other.
- A window of 5 in words of 2 bits leaves the last word half used and has shifts by
  less than a word, by whole words, and past the window; 12 numbers move it by more
  than twice its width.
- Two messages per epoch, and two epochs, reach an exhausted budget and a frame of the
  old epoch that arrives in the new one.
- Three connections of two peers are needed for a peer to reconnect while its old
  connection is up and the other peer watches; caps of 1 are reached in most behaviours.
- Bytes below 4 and a length prefix of two of them, frames of at most 3 bytes: prefixes
  and payloads are cut everywhere, and a frame above the limit exists.
- Three dial attempts, two connections, two tasks on one relay connection, an inbox of
  two frames and three bytes: each cap is reached by count and by size.
- Two paths, two contents and two branches suffice for a conflict and for a clean
  merge; each menu names how many edits and commits its interference takes.
- Three commits of which two share a parent diverge; one fault breaks a stream or loses
  a datagram anywhere. Behaviours that start with two branches in every store are there
  for pushes refused half-way: they go over the stream and without faults.
- The base of a merge is compared with its definition on every history of four commits
  with at most two parents each (unrelated commits stand for the shorter ones).
- One datagram lost on a punched path, one poll and one probe before giving up, two calls
  and two exchanges of the keeper: the loss falls on each kind of message, and a punch
  succeeds, fails and comes too late.
- Two crawls and a prune in between, with one fault: what a crash of the first left is
  met by the second.
- Commitments of the deferred queue are recorded in the order of their numbers, as they
  are numbered when recorded. Two settlement files of different currencies may both name
  one order.
- Two processes per vault with three or four commands: one rotates while the other
  shards, renames or unlocks. Up to six leaves of the mountain range: the fourth carries twice.
- Symmetry is used for processes, peers, connections and contents, which no definition
  distinguishes, and never together with liveness.

`CHECK_DEADLOCK FALSE` is set where bounds run out (commands, dials, epochs, faults):
then the system has nothing left to do. In `executor` deadlock is checked: passes can
always run again.

### Fairness

All of it is weak fairness of what the program or its runtime keeps running, never of
what a person, a peer or the network may do.

- *Executor* (`executor`): starting a pass, the steps of a started process, and time.
  The executor is a command meant to be run again and again, a started process goes on
  until it ends or dies, and clocks advance. Nothing is assumed of clients that have
  not started, nor of crashes; each rail may answer what it likes, as long as it
  answers: remote calls have timeouts.
- *Conversations* (`network`): receiving at each end of a stream, the relay's task of
  each connection (its loop waits at most `PRESENCE_PUSH_LATENCY`), the calls of a
  handshake, the loops over `recv_frame`, the relay's control loop and the client's
  reads, the keeper and the callers of a punched connection. Nobody has to send, dial
  or place a call.
- *Loops* (`loops`): both ends of an exchange and the carrier that closes it, the script
  loop of `bisect run`, the crawler's workers, the receiver's accept loop.

### Mutants

Each property of each passing run has a mutant: a variant of one definition with a
plausible mistake (a dropped guard, an off-by-one, a swapped order), written before it
in the same module and named after the mistake, under which TLC finds the property
violated. `PROJECT.json` pairs them.

## Proofs

`tlapm` checks the proof modules to the last leaf. The theorems hold for every value of
the constants that satisfies the named assumptions of the modules:

- `ExecutorAssumption`, `FiniteProcs` (finitely many processes) and `EventsAssumption`
  (an event has one order, as `order-create` makes it) of `Executor`;
- `ChannelAssumption` of `Channel`, `WindowAssumption` of `WindowOps` and `WordsAssumption`
  of `ReplayWindow` (a word has at least one bit, sequence numbers are natural numbers);
- `RelayAssumption` (finitely many peers, caps are numbers) and `NoneAssumption` (the
  null value is none of the others) of `Relay`;
- `StreamsAssumption` of `Demux` (the number of streams is a natural number),
  `GateAssumption` of `RelayDaemon` (so are the capacity of a bucket and its refill
  period, which is not 0), `ToleranceIsANumber` of `Receiver`;
- `UsesAssumption` of `PassVault` (the ledger's limit is a number, and the mark of a code
  that answers no challenge is none) and `PhrasesAssumption` (there is a passphrase).

TLC evaluates all of them in the runs. `Keystore`, `X402`, `Punch` and `Session` need none.

| Theorem | Module | States | Inductive invariant |
|---|---|---|---|
| `TypeCorrect` | `ExecutorProofs` | `[]TypeOK` of `Executor` | `TypeInv` |
| `SettledHasBatch` | `ExecutorProofs` | `[]SettledIsJournaled`, with any overlap | `JournalInv` |
| `SettledIsFinal` | `ExecutorProofs` | `SettledStaysSettled`, when `Overlap = FALSE` | `SerialInv` |
| `EffectsAreSettled` | `ExecutorProofs` | `[]EffectsFollowSettlement`, when `Overlap = FALSE` | `EffectInv` |
| `EveryChargeHasACause` | `ExecutorProofs` | `[]ExtraChargesNeedACause`, when `Overlap = FALSE` | `CauseInv` |
| `JournalNeverAhead` | `ExecutorProofs` | `[]EveryBatchHasItsCharge`, with any overlap | `ChargeInv` |
| `ChannelTypes` | `ChannelProofs` | `[]TypeOK` of `Channel` | `ChannelInv` |
| `KeysUsedOnce` | `ChannelProofs` | `[]MessageKeysUsedOnce` | `ChannelInv` |
| `OrderedDelivery` | `ChannelProofs` | `[]OpenedInOrderOnce` | `ChannelInv` |
| `EpochWithinBudget` | `ChannelProofs` | `[]BudgetBoundsEpoch` | `BudgetInv` |
| `PipesAgreeAlways` | `ChannelProofs` | `[]PipesAgree` of `Session` | `SessionInv` |
| `ReplayWindowRefines` | `StreamProofs` | `ImplementsSlidingWindow`: `ReplayWindow` implements `SlidingWindow` | `WindowInv` |
| `StreamsGetTheirAnswers` | `StreamProofs` | `[]AnswersFindTheirStream` of `Demux` | `MuxInv` |
| `PairsSound` | `RelayProofs` | `[]PairsAreSound` of `Relay` | `RelayInv` |
| `MapsMirrored` | `RelayProofs` | `[]SubscriptionsMirrored` | `RelayInv` |
| `PresenceTrue` | `RelayProofs` | `[]PresenceIsTrue` | `RelayInv` |
| `AnswersReachAskers` | `ServerProofs` | `[]AnswersReachTheirAskers` of `Punch` | `PunchInv` |
| `AdmissionAlwaysHolds` | `ServerProofs` | `[]AdmissionHolds` of `RelayDaemon` | `DaemonInv` |
| `KeystoreKeeps` | `CustodyProofs` | `[]IdentitiesAreKept` of `Keystore` | `KeyInv` |
| `HttpChargesGenuine` | `CustodyProofs` | `[]ChargesAreGenuine` of `X402` | `HttpInv` |
| `WebhookResolvesOnce` | `CustodyProofs` | `[]WaitsResolveOnce` of `Receiver` | `RecvInv` |
| `NothingComesBack` | `PassProofs` | `[]UsedUpStaysUsedUp` of `PassVault` | `PassInv` |

A theorem is about the specification of its component (`Spec`, or `WindowSpec`, `MuxSpec`,
`SessionSpec`, `PunchSpec`, `DaemonSpec`, `KeystoreSpec`, `HttpSpec`, `RecvSpec`,
`PassSpec`); the run composes the same initial predicate and the same next-state relation
with the other parts.

Why the properties have to be strengthened:

- **`JournalInv`.** A process writes SUCCESS from its program location, and may write
  back a copy that reads SUCCESS. Both have to imply the batch as well as `db` does.
- **`SerialInv`.** A pass writes from copies it read long before. SUCCESS is final
  because only one process runs, and nothing it has still to visit or is about to
  write is settled (nor, for a pass, parked with its payment out). With two processes
  this fails, and so does the property.
- **`EffectInv`.** An effect is written some steps after the status that allows it. So
  each process that carries one says what it carries: between charge and SUCCESS the
  receipt in hand is one the rail gave for this order; at the receipt, the audit entry
  and the payout the order is SUCCESS and has no payout yet; a roll-up in hand that
  reads AllSettled belongs to a settled order. `EffectOf` of an order and `CarriedBy`
  of a process are kept step by step; most steps are `Uneventful`, and by `FinalStep`
  what was settled stays so. The roll-up is where one order per event is needed.
- **`CauseInv`.** `charges <= 1 + excuse` alone says nothing of a new charge. The
  invariant adds that an order whose charge does not stand (it is neither SUCCESS nor
  parked, and nobody is between its charge and its status) has as many causes as
  charges, so that one more is allowed. A step keeps the standing charge (`KeepsPaid`),
  gives a cause (`GivesCause`), or charges an order without a standing one (`Charges`).
  A card is charged once however often it is authorized.
- **`ChargeInv`.** Legs and charges are counters per order that many processes add
  to. The invariant counts processes: those between charge and first leg
  (`Posting`) and those between the legs (`Halfway`), so that
  `batches + |Halfway| <= legs` and `legs + |Posting| <= charges`. The lemmas `Tally`
  and `Moved` say how the two counts change when one process moves.
- **`ChannelInv`.** Both chains of an end belong to its epoch and its lanes; everything
  an end has sealed lies strictly behind its send chain, everything it has opened
  strictly behind its receive chain; every frame in flight was sealed by the other
  end. A new key is then different from all old ones.
- **`BudgetInv`.** The tracker counts messages and the chain counts steps; the two agree
  and every sealed message has a step below the limit. Keys are used once, so the
  messages of an epoch are at most as many as the steps.
- **`RelayInv`.** `PairInv`: pairs join registered peers and data in a channel belongs to
  a pair of its reader. `SubscriptionsMirrored` itself. `StageInv`: which registries
  hold a peer at which stage of its connection, and that each entry has a connection
  that will remove it. `EventsWatched` and `Told`: an event in a queue is about a
  watched target, and the last thing a watcher was told, or still has in its queue or
  its task's hand, is what the registry says. None of them is inductive without the
  stages: tear-down goes by fingerprint, in several critical sections.
  `RelayStages` states what each step does entry by entry, so that each conjunct is
  proved for the few steps that disturb it.
- **`SessionInv`.** The property compares the two ends once both have their pipe. The
  invariant follows them there: what each end has recorded by the message it waits for,
  that the ephemeral key it has of the other is the other's (`LinkInv`), and what can be
  in flight by where the two ends are (`ToResInv`, `ToIniInv`), so that nothing of an
  abandoned attempt reaches the next one.
- **`WindowInv`.** The mapping reads off the words the set of numbers they stand for. It
  is exact because no bit above the highest number is ever on (`GetBit` of an offset past
  `highest - Floor(highest)` is off), also after a shift by words and by bits. The
  lemmas split an offset into its word and its bit, and say which offset a shifted bit
  comes from; each branch of `accept` is then a step of `SlidingWindow`.
- **`MuxInv`.** That an answer belongs to the stream it is handed to is about frames that
  have yet to arrive: each one carries an id of its asker's parity, of a stream that
  was opened, and a request made since (`FramesInv`). That answers come in order is
  about four places at once: what a stream was handed is older than what comes back,
  that older than what waits at the other end, that older than what is on its way there
  (`OrderInv`).
- **`PunchInv`.** The keeper serves one request at a time on a connection and a socket all
  callers share. The rest of a push comes after its request, so the keeper reads it
  while it works for that call (`FramesInv`), a UDP push reads only the peer it began
  with (`PeerInv`), and every answer a caller has still to read is for its call
  (`HeardInv`).
- **`DaemonInv`.** `BansInv`: unless commands were contended, the daemon's set, the set a
  command has loaded and the file are the same, and at most one of them is being
  changed. `BucketInv`: the property bounds the attempts between any two; the invariant
  also counts the tokens left, so that a refill and a spent token balance.
- **`KeyInv`.** While commands do not overlap, the one under way says what it may destroy:
  a name about to be written, renamed onto or removed holds no seed that is not held
  elsewhere; a seed about to be written is new or was imported; a rotation replaces the
  blob that holds its seed (`UnderWay`). Two names with one seed, or a passphrase
  rotated away that opens, need an import.
- **`HttpInv`.** A receipt read in parts says success only if the provider charged
  (`ReceiptInv`), the split, ACH and card rails reach the step that charges only with
  the order's own amount (`AttemptInv`), and the signature of a payload that went
  elsewhere still names the URL it was made for (`CopyInv`).
- **`RecvInv`.** A wait that is open has not been resolved, and no act is recorded for a
  wait still to come (`WaitsInv`).
- **`PassInv`.** The property speaks of codes shown, the code looks at a counter and at a
  ledger. A secret stays under one name in the file and in every process that has the
  vault open (`OneName`), so a code shown is looked up where it was recorded; while no
  command overwrote another's work, the counter in the file is past every one-time
  code shown (`CountersPast`), and the ledger of an entry holds every challenge code
  shown unless as many as its limit came after it (`LedgersRemember`). A key that
  replaces another is derived with a salt never handed out before.

TLC checked the invariants of the executor, the channel and the relay on the instances of
the runs. The others quantify over all natural numbers in places, which TLC cannot
enumerate; there the run checks the property and the proof the invariant.

Only model-checked, and why:

- Liveness (`StuckOrdersRecover`, `ConversationsEnd`, `LoopsEnd`): temporal reasoning
  with fairness and ENABLED is out of the prover's reach.
- Recursive operators, in whose modules the prover has no arithmetic, and whose results
  need induction over data: `SealsAreExact`, `ProofsAreExact`, `RecordsHold`, `FilesAreKept`.
- Folds over sequences and sums over sets, the same induction: `VouchersCount` (the fold
  over delegations), `ClientsGetTheirOwn` (the bytes of an inbox), `FramesArriveAsSent` (a
  stream is the concatenation of its frames), `BooksAreKept` and `WalletIsSound` (chains
  and balances), `RepositoryVerifies`, `CommandsKeepWork` and `CommandsMeanTheirCommits`
  (histories, plans and logs are folds), `SecretsAreKept` (which shares are enough is a
  count over the chosen ones).
- The byte budget of an epoch: a sum over the messages. The tracker stays within it by
  `ChannelTypes`.
- Walks over the commit graph and the edit script of a file, which are recursive
  functions: `StoresAreWhole` and `NothingIsClobbered` (what a commit reaches),
  `EditsMergeByLine` (the longest common subsequence).
- `VerdictsAreRight` and `CorpusIsRight`: their inductive invariants have not been
  worked out.

## Disagreements between documents and code

Four runs are expected to end in a counterexample. Each states what a document or a
comment of the repository says; the trace is what the code does.

| Run | Says | Does |
|---|---|---|
| `dead_letters` | `DOGFOODING.md:180`: after `max_attempts` the order goes terminal | `mark_failed` keeps a lapsed `next_retry_at`, and the next pass picks the order up |
| `webhook_confirmed` | `webhook.rs:183`: the next pass settles it with the receipt | the receipt is dropped; the pass runs a new handshake and pays again |
| `two_passes` | `PAYMENT_SYSTEM_DESIGN.md:214`: refuses to re-execute an EXECUTING order | the transition is tested on the snapshot read before the loop |
| `reordered_frames` | `replay.rs:3`: bounded reordering window | the receive chain advances by one per message, so a frame out of order cannot be opened |

Others are exceptions of a property, stated in its comment, because the rest of the
property is worth checking. First the document or comment, then what the code does.

*Payments*

- Reconciliation reads all settlement files of a day into one map by order id
  (`reconcile.rs:306-311`): the last file to name an order wins, an earlier one that gives
  another amount is passed over, and currencies are not compared. `CleanMeansAgreement`
  of `Books` says what Clean means then.
- A callback repeated within the tolerance resolves the next wait of its order too, since
  nothing ties it to an attempt (`RepeatsRunOut`). The 10 s deadline of the receiver is per
  read (`webhook.rs:60`), so a peer that drips header lines holds its only thread
  (`webhook.rs:98-116`; `ConnectionsEnd`).

*Network*

- The relay daemon never reloads `eviction.bin` and saves its own set over what `evict`
  and `pardon` wrote meanwhile (`relay_main.rs:296`, against `relay.rs:376-377`): `BansHold`
  of `RelayDaemon` excludes commands beside a running daemon.
- A relay call that failed, on another call's error frame (`client.rs:298-301`), on a
  peer's data (`client.rs:100`) or at the read deadline (`transport.rs:194`), leaves its
  reply on the way, and the next call of the type takes it: `AnswersMatch` of `Mailbox`.
- A pack datagram lost on a punched path hangs its caller: `UdpPackFrameConn` has neither
  a deadline nor a retry (`remote.rs:2092-2124` of origin-vcs). And a keeper that hears
  nothing for 30 s leaves its serve loop (`client.rs:421-424`, `remote.rs:1453-1475`).
  `PunchedCallsEnd` says a caller waits for ever only there.
- A peer whose two connections overlap may be served and unreachable, and one whose
  `AuthOk` was lost stays registered (`relay_server.rs:285-291`): the history variables
  `overlapped` and `leaked` of `Relay` set them apart.
- An endorsement whose endorsee is unknown is an error after it was entered with its
  endorser, so a retry enters it twice (`registry.rs:114-131`; `SidesDifferByFailures`).

*Versioned store*

- `merge_base` is the "Lowest common ancestor of two commits in the parent DAG"
  (`commands.rs:1187`) and `is_ancestor` an ancestor "in the parent DAG" (`remote.rs:427`).
  The first walks all parents of one side and the first parents of the other, the second
  first parents only; a branch of one unrelated commit is "already up to date"
  (`commands.rs:1316`). `MergeBaseIsNearest` says where the base is the nearest.
- A merge brings back a file that one side removed (`MergesKeepBothSides`). Checkout,
  merge, hard reset, aborts and replays write over uncommitted edits; `stash pop` drops
  a conflicting side; after `edit`, `rebase --continue` starts from the tip of the branch
  and drops what was picked: `CommitsAreLetGoOnRequest` is about commits, and leaves out
  state files older than the last move of the branch.
- `rebase -i` without `--rebase-merges` skips merge commits "entirely (linearize)"
  (`commands.rs:2224-2225`), but a plan that does not list all commits is refused
  (`commands.rs:2347`): over a merge the plan offered is not one it accepts.
- An abbreviation is a "hex prefix" (`commands.rs:181`); one with an odd number of digits is
  looked up as a name only (`commands.rs:206`; `AbbreviationsNeverStray`).
- `bisect run` is meant to terminate because each turn shrinks the window
  (`commands.rs:3771-3774`); that holds for the histories without merges of the
  `loops` run.
- Lines unchanged on all sides are kept verbatim by the text merge (`textmerge.rs:5-6`)
  when lines are changed where they stand; `EditsMergeByLine` is about that case.
- The ignore rules are "git-style" (`ignore.rs:3`, `origin-vcs/README.md:129`, `USAGE.md:85`);
  where lines of one `.gitignore` contradict each other about a path, git goes by the
  last and the walk by the first (`WalkFollowsTheRules`).
- A blob streamed from a file that changes meanwhile is stored under an address that is
  not its content's; `bundle verify` "checks every listed envelope is present and
  decryptable" (`bundle.rs:13-14`) and refuses bundles with streamed blobs.
- "Each message is chunked into ≤8 MB frames" (`remote.rs:463`), but every chunk says it is
  the last (`remote.rs:506`): a larger message is not read as one (`Oversized` of `Remotes`).
- A push to a directory is checked against its manifest (`remote.rs:187-190`) with no lock
  until the new one is written: of two that overlap, one replaces the other without
  `--force` (`Overtakes`).

*Stores and tools*

- A version 2 leaf that is itself two hashes joined has the hash of a node, as the test at
  `mmr.rs:400` documents (`RootsCommit`); version 3 has not.
- "The zero-length sentinel lets the decryptor distinguish a clean end-of-stream from a
  truncation attack" (`origin-seal/README.md:91-92`): a stream that lost its last chunks and
  kept its sentinel opens to the rest. A cleared compressed flag gives the compressed
  bytes. Both are exceptions of what opens in `Seal`.
- `decrypt` is the "Reverse of `encrypt`" (`origin-seal/README.md:100`); a stream sealed under
  the suite identity gets another key, and an empty stream is taken for a truncated
  file: excluded by `WholeEnvelopesOpen`.
- After a sharding was killed half-way `status` may call the mix of two generations ready;
  recovery then refuses it (`DirectoryIsOneGeneration`, `RestoredAreGenuine`).
- The hash of a source tree changes with "any change to any file (content or name)"
  (`embed.rs:318-319`); it takes in base names only, so a renamed directory goes unseen
  (`TokensAreWhereTheManifestSays`).
- `publish` "Returns the record's index" (`fingerprint.rs:258-259`): the last line's, which is
  another's when publishers overlap. The record and its line end are two writes, so an
  overlap or a kill can leave a ledger that no longer reads (`PublishedIsFound`).
- A file that ends in the start marker short of its last newline can be marked, and its
  watermark cannot be extracted again (`MarksComeOff`).
- "each host receives at most one request every `delay`" (`frontier.rs:17-18`): `robots.txt` has
  no slot of its own, and a worker that wakes late asks on the heels of the next. What a
  host is spared is `HostsAreSpared`.
- Sidecars are truncated before they are written (`sidecar.rs:105`, `113`), so a crash loses
  the sources of one; a 304 does not refresh `last_seen`; and a body cut short counts as
  stored on `--resume` (`FreshSourcesKept`, `BodiesStoredOnce`).

## Not modelled

- Cryptographic primitives, key derivation, encodings and file formats: symbols, or the
  conversion's effect where a property depends on it.
- Signing and verifying orders, compliance, two-factor and operator keys of payments:
  sequential checks whose verdict is the refusal in `Executor`. Notifications and
  listings.
- Deferred settlement inside a pass: `Books` has the batches, `Executor` runs with the
  option at its default, off.
- The replay tracker in front of the responder's first handshake message
  (`session.rs:278-283`): within one process it refuses a first message seen before, and
  `Session` sends none twice.
- The password vault's entries get secrets new to it, with counter 0: `add` of a secret
  that another entry has, or of a counter that is already advanced, is left out.
- Stealth accounts and signing requests of the wallet, addresses and contacts.
- Choice of cipher suites, the bounded nonce cache, address parsing, process confinement.
- Hooks, configuration and output formats of origin-vcs; parsing of pages, robots files
  and sitemaps of the crawler (external to `Crawler`).
- The value of a trust score (floating point; its sign is modelled), the revocation
  journal of origin-attest, C2PA export and licences of provenance.
- The seed, shard, stealth, schnorr, entropy and archive tools and the command-line
  front end: pure functions or dispatch, nothing a state machine would add.

`components` in `PROJECT.json` says of each part what its modules leave out.
