# bitcoin-crawler: a TLA+ verification of the crawler's core

This directory holds TLA+ specifications of `@easylayer/bitcoin-crawler` (the
code under `package/src`), TLC configurations that check them on small
instances, and TLAPS proofs, for every value of the parameters, of the safety
properties of the block pipeline, the initialisation, the mempool cycle and the
start of the process. The wallets under `examples/` are modelled too, as the
user models the crawler runs. Paths below are relative to `package/src` unless
they start with another directory of the repository.

## 1. The system

The crawler follows the chain of a Bitcoin node, runs the operator's *user
models* over every block, and keeps their events, with those of a `Network`
aggregate that remembers the last blocks, in an event store. It is one Node.js
process (or one browser worker): nothing runs in parallel, but everything is
asynchronous, so the loader of blocks, command handlers and event handlers
interleave at every `await`, and the process may die at any of them.

```
 node ---> blocks queue --(AddBlocksBatch)--> command handler --save/rollback--> event store
             ^   loader                          |  Network, user models              |
             |                                   v                                    |
             +------ confirm / reset ------ event handlers <-------- published events-+
```

| component | source | state | operations |
|---|---|---|---|
| Block pipeline | `domain-layer/command-handlers/add-blocks-batch…`, `events-handlers/network-{initialized,blocks-added,reorganized}…`, `application-layer/services/network-command-factory…` | aggregates in the handler's memory; the rows in the store; the queue | restore, add blocks, run the models, save; walk back, rollback; confirm or reset the queue |
| Network initialisation | `command-handlers/init-network…`, `events-handlers/network-cleared…`, `config/bootstrap-config.ts` | the Network's event log, the configuration of this boot | align with a parent's checkpoint, choose the start height, ask, reset, start |
| Console prompts | `node/console-prompt…`, `browser/console-prompt…` | none | yes or no (the browser always says yes) |
| Crash and restart | `application-layer/services/read-state-exeption-handler…`, `node/bootstrap.ts` | none | crash on a failing event handler; exit when initialisation throws; the supervisor restarts |
| Mempool | `command-handlers/{init,refresh,sync}-mempool…`, `events-handlers/mempool-*`, `services/mempool-model-factory…` | Mempool aggregate, the loader's lock | initialise, refresh with a snapshot, sync until done, unlock; runs user models too (`mempoolTick`) |
| User model framework | `framework/{model,factory,walker,normalizer,tools}.ts`, `framework/declarative/*` | aggregate state of each model | instantiate and restore, run source handlers in a fixed order |
| Read side | `services/*-read.service.ts`, `query-handlers/*`, `framework/query-factory.ts` | none of its own: restored aggregates | ranges, last blocks, statistics, fee rates, model states, events |
| Configuration | `config/*`, `node/config/*`, `browser/config/*` | environment values | validation, defaults, which transports are enabled |
| Start and stop | `node/bootstrap.ts`, `browser/bootstrap.ts`, `app.service.ts`, `*/{app,container}.module.ts` | the services reference | order of start, graceful shutdown |
| Wallet examples | `examples/business/{base,advanced}-wallet-watcher`, the class model of `examples/system/*` | balances, unspent outputs, sightings of transactions | events of a block and of a mempool tick, their reducers, queries |

External, and modelled only from how `package/src` uses them (and from the e2e
tests that pin their behaviour): `Network`, `Mempool`, `BlocksQueueService` and
`MempoolLoaderService` of `@easylayer/bitcoin`; the event store, the CQRS buses
and `AggregateRoot` of `@easylayer/common`; the node.

What is hard here, and what tests reach badly: the loader, the command and the
event handlers in every order; a node that reorganises while a batch is loaded,
or between two requests of the walk back; commands that fail half-way; a crash
between a committed transaction and the event handler that tells the queue;
restarts with another configuration; a checkpoint that does not fit the rows of
the store. `PROJECT.json` lists these hazards, each with its line and the
properties that cover it, or the reason why none does.

## 2. The modules

### BlockIngestion: the block pipeline

| variable | in the code |
|---|---|
| `node` | the best chain the provider reports |
| `network` | the stored Network: height, lowest block of its window (`lo`), and all blocks indexed since the start. Only those from `lo` on are used by actions; the rest is history the properties talk about |
| `rows[m]` | stored events of user model `m`, as `[version, block]` |
| `bus` | published events whose handler has not run |
| `queue` | the blocks queue: last height loaded, blocks, size of the batch in flight |
| `pc`, `networkModel`, `models`, `cursor` | where `AddBlocksBatchCommandHandler.execute` is, and its local variables |
| `spent` | how many moves of the node, failures and crashes have been used up (bound only) |

| action | in the code |
|---|---|
| `InitNetwork` | start of the process: the height to go on from is stored, `Initialized` published (details in NetworkInit) |
| `Load`, `Dispatch` | the queue's loader, and its iterator that hands out a prefix (external) |
| `AcceptBatch`, `ProcessBlock`, `Save` | lines 43–75: restore, `addBlocks`, one turn of the loop over the batch, the save |
| `RejectBatch`, `WalkBack`, `Rollback` | lines 76–100: fresh aggregates, `reorganisation` one node request at a time, the rollback transaction |
| `WalkBackFails`, `CommandFails` | a height where one side has no block; any other error, line 103 |
| `OnInitialized`, `OnBlocksAdded`, `OnReorganized` | the three event handlers |
| `NodeMoves`, `Crash` | the environment |

Steps are as fine as something else can observe: each await at which the node,
the loader or a crash matters separates two actions. Restoring the aggregates
and `addBlocks` are one step, because nothing else writes the store between
them while the command bus runs one block command at a time.

`ChainIndex` is the abstract specification: only a chain and the user streams;
the chain is extended with linked blocks or cut back to a block it keeps, and
the streams always are exactly what that chain produces. `BlockIngestion`
implements it under `chain <- network.chain, streams <- rows`
(`ImplementsChainIndex`): queue, handlers, failures and crashes are stutters.

### NetworkInit: start and restart

`log` is the Network's event log as a set of rows with versions; `users[h]`
counts the user events of block `h` in the store (so that a repetition shows);
`boot` is what this process was given. `Boot` chooses `START_BLOCK_HEIGHT` and
the parent's checkpoint afresh. `Align`, `AlignByRollback` and `RefuseToAlign`
are `alignToExternalCheckpoint`; `RefuseMismatch`, `Start`, `Ask` are the
branches of `determineStartHeight` (its values are `StartFrom`, `NeedsReset`);
`Confirm`, `Decline` are the operator; `Clear` is the reset, whose event runs
the handler again. `AddBatch` and `Reorganise` produce, between two boots, the
logs the pipeline can leave (a batch is one row that carries the height of its
last block, which the checkpoint rollback depends on). `Exit` is the end of the
process, by a crash or because the handler threw.

`Window` is what a Network restored from the log still holds. The factory creates
it with `maxSize` (line 17 of `network-model-factory.service.ts`, here
`MaxSize`), so a batch pushes the lowest blocks out; a reorganisation takes
blocks away from above and brings none back below, while the deletion of rows
does, because fewer are replayed. `Reorganise` can only walk back to a block of
this window.

A *deployment* fixes which checkpoints a parent may give, and how long batches
are: standalone with batches, child with batches of one block, child with
batches, and a crawler of single blocks that is started now with a parent and
now without. The third is the one whose checkpoints can fall inside a batch
(`MaySplitBatches`).

`IndexedRange` is the abstract specification: the heights that user models have
events of, as a range without gaps that is extended right above its last height,
or cut from above. `NetworkInit` implements it under `indexed <- Indexed` over
all boots (`ImplementsIndexedRange`): starts, questions, exits and crashes are
stutters, `AddBatch` is `Extend`, and each rollback, the alignment and the reset
are `Cut`. Where checkpoints may split batches the mapping gives the empty range,
so nothing is claimed.

### CompiledModel: declarative models

One declarative model and its instances: `descriptor` is what the operator
registers, `object` the state object inside it (if it has one), `inst` the
instance of the running command and that of a query, `rows` the stored events,
`job` the progress through `processBlock` or `mempoolTick`. `Normalize` accepts
or refuses the descriptor, `StartBatch`/`StartTick` restore it, `Enter` and
`Call` walk through the four phases one handler call at a time, `NextBlock`,
`Save`, `Fail`, `HandlerThrows` and `Reorganise` are the commands around it,
`Query`/`Answer` are GetModels at any moment. The user code is the usual one of
a wallet: outputs created and spent are counted. It reads the height from
`ctx.block`, as the examples do, so a tick that calls its `vout` throws.

### MempoolCycle: the mempool

| variable | in the code |
|---|---|
| `mempool` | the stored Mempool: transactions of the last snapshot, those loaded, and the height its provider gave |
| `height` | the stored Network's height |
| `rows` | the stored events of one user model, fed by ticks and by blocks, each at a height |
| `apart` | a tick has stored events at another height than the Network's (history) |
| `loader`, `bus` | `MempoolLoaderService`: started, locked; published events |
| `refresh`, `sync`, `block` | the running RefreshMempool, SyncMempool, AddBlocksBatch |
| `network` | how far the InitNetwork of `mempool-initialized` has come |
| `pc` | off, up, or dying: an event handler has failed, the crash comes a turn later |

`InitMempool` refuses a truthy `START_BLOCK_HEIGHT`; `OnInitialized`,
`Snapshot`, `Refresh`, `StartSync`, `LoadTransactions`, `Tick`, `SaveSync`,
`OnSynchronized` are the loop, one action per await that matters. A failing
RefreshMempool goes back to the loader, a failing SyncMempool to the event
handler that called it, which crashes the process. AddBlocksBatch works on the
same model: `StartBlock` restores it, `SaveBlock` adds a batch and moves the
Network up, `ReorganiseBlocks` is the rollback of lines 76–101, which deletes
every row above the height the Network walks back to, those of ticks included,
and `BlockFails` any other error. Ticks store at the height of the Mempool, blocks
at the Network's, so the rows a rollback deletes need not be the last ones. Which
blocks the node has, and why it has others now, is in BlockIngestion. What the
library decides is
left open or assumed: whether commands may overlap (`exclusive`, both), whether
`Mempool.init` forgets the last snapshot (both), that the loader unlocks when
its own command is rejected (assumed).

### NetworkReads, NetworkQueries, MempoolQueries: what is answered

The read services have no state of their own: a query restores the Network or
the Mempool from the stored rows and reads from it. `NetworkReads` translates
the reading itself: the last blocks with their defaults, ranges (`InRange` is
the filter), single blocks, the last one. `NetworkQueries` composes it with `NetworkInit`: a client may ask
at any moment, and gets its answer from the log as boots, batches,
reorganisations, alignments and resets have left it. `QueriesMatchEvents`
compares the answers with those of the blocks whose events the user models have
that the window still holds.
`MempoolQueries` does the same on `MempoolCycle`: the check of a transaction,
with `feeRateFromMetadata` and what `??`, `typeof` and `Number` do to absent,
textual and NaN fields.

### The wallets: BaseWalletWatcher, AddressUtxoWatcher, AdvancedWalletWatcher

Each is one class model of the examples as operators: the events of a block
(`ProcessBlock`), the reducers (`OnWalletCredited`, `OnTxSeen`, ...), `Restore`,
and the getters of the queries. The two that keep balances have no mempool;
`AdvancedWalletWatcher` follows a transaction through `MempoolTick` and
`ProcessBlock`, on an instance that reduces each event when it is applied.
`WalletCrawler` runs all three on one crawler:

| variable | in the code |
|---|---|
| `chain` | the blocks AddBlocksBatch has indexed |
| `mempool` | the stored Mempool: loaded transactions, and the height its provider gave |
| `baseRows`, `utxoRows`, `rows` | the stored events of the three models |
| `ahead` | a tick has run with a height above the Network's (history) |

`AddBlocksBatch`, `Reorganise`, `Refresh` and `SyncMempool` are the commands of
the crawler as far as a model sees them; that they fail, overlap and are
retried is the business of the other modules. Transactions have inputs and
outputs, and blocks are only accepted if they spend what there is.

### Startup: one process from start to end

| variable | in the code |
|---|---|
| `platform`, `channel`, `tokens`, `expected` | what the process is: server, test or browser; its IPC channel; whether a user Provider has the token `'ModelFactoryService'`; `testing.handlerEventsToWait` |
| `pc` | where `bootstrap()` is; `rejected` is an error before its `try`, `failed` one inside |
| `transports`, `outbox` | what `TransportConfig` gives to the transport module |
| `open`, `services`, `answer` | the transports listen; `servicesRef.value` is set; what the last query of a factory handler met |
| `onSignal`, `signals`, `closing`, `exit` | handlers of SIGINT and SIGTERM, signals sent, running calls of `close()`, how the process ended |
| `subscribed`, `seen`, `completed` | the waiters of a test, what they counted, what really completed |

`Configure` chooses an environment and refuses or uses it; the operators above
it are the transforms and getters of both `TransportConfig` classes, on classes
of strings. `OpenTransports` is external: nothing orders a transport's start
before or after the rest of the initialisation, so queries may come from then
on. `CreateContext`, `Prepare`, `InitContext`, `FillServices`, `StartApp`,
`StartClosing`, `Closed` are `bootstrap()` of Node await by await,
`CreateContextInBrowser`, `FillServicesInBrowser` and `ServicesMissing` where
the browser's differs. `HandlerCompletes`, `Query`, `Crash`, `Signal` and
`Shutdown` come at any moment.

### The others

The `MC…` modules hold the finite instances. `BlockIngestionProofs`,
`NetworkInitProofs`, `MempoolCycleProofs`, `StartupProofs`, `CompiledModelProofs`
and `WalletProofs` hold the theorems, `Folding` and `Filtering` the facts about
folds, flattened and filtered sequences that they rest on (section 4). Operators marked *Mutant* in the
modules are plausible mistakes in the code (a rollback height read too early, a
reset forgotten); each is used to show that a property would notice it, none is
part of a specification.

## 3. The runs

| run | question | result |
|---|---|---|
| `ingestion` | Do store, queue and handler stay consistent whatever the node, failures and a crash do, and does the crawler reach the node's tip? | holds, 98,920 states |
| `network_init` | Do restarts, configuration changes, checkpoints and resets keep the events without gap and repetition, and do queries answer what the models were given? | holds, 95,680 states |
| `compiled_model` | Is a declarative model's state the replay of its events, whoever restores it and whatever failed before? | holds, 4,545 states |
| `mempool_cycle` | Does the mempool loop keep its lock and finish, do ticks, batches and rollbacks number the events they share without repeating any, and are the models told everything? | holds, 1,127,279 states |
| `wallets` | Do the wallets of the examples agree with the indexed chain, over ticks, batches, reorganisations and restores? | holds, 237,627 states |
| `startup` | Do configuration, start order, waiters and signals fit together on every platform? | holds, 391,038 states |
| `checkpoint_mid_batch` | Is a store ahead of the checkpoint always rolled back *to* it? | violated, see below |
| `checkpoint_empty_store` | Is a store behind the checkpoint always refused? | violated, see below |
| `shared_state` | Does `compiled_model` also hold for a state written as an object? | violated, see below |
| `mempool_tick` | Does a tick call the mempool handlers? | violated, see below |
| `fee_rate` | Does the documented example have a fee rate? | violated, see below |
| `credit_seen` | Is a payment in the mempool announced when it is first seen? | violated, see below |

`ingestion` checks that each model has exactly one event per indexed
block it reacts to (`ExactlyOnce`), that the stored chain is hash-linked
(`ChainLinked`), that the queue never skips or repeats a height
(`QueueContiguous`), that a confirmation names the batch in flight
(`ConfirmMatchesBatch`), that the queue is locked exactly as long as the command
runs on its batch or the answer is on the way (`InFlightOwned`), that the
database is an implementation of the abstract index (`ImplementsChainIndex`,
which includes that a stream is numbered upwards without holes), that the
crawler reaches the node's tip (`Converges`), and that each batch is answered
(`InFlightAnswered`). `network_init` checks `NoGapNoRepeat`, that a store is at
the parent's checkpoint, or empty, behind the alignment (`AlignedUnlessSplit`),
that the crawler then goes on from it (`ResumesAtCheckpoint`), that a reset leaves
nothing the handler, run again, would align, refuse or ask about (`ResetSettles`)
and completes (`ResetCompletes`), the refinement `ImplementsIndexedRange`, and
that at any moment of any boot queries are answered from the last blocks the
models have events of, as many as the window holds, and from none below
(`QueriesMatchEvents`). `compiled_model` checks that the
state of each instance is the replay of what it was restored from and has
emitted (`RestoredIsReplay`), that a block may spend its own outputs
(`NeverOverspent`), the documented order of the locals (`LocalsComplete`), and
that only whole batches leave events (`RowsAreChain`). `mempool_cycle` checks
`LockHasOwner`, `SynchronizedComplete`, `VersionsStrict`, `ReportedOnce`, and the
liveness of `LockReleased` and `PoolReported`. `wallets` checks that both wallets
with balances answer with what the chain pays and has not spent
(`BalanceIsUnspent`), that a transaction is confirmed exactly where the chain has
it (`StatusMatchesChain`), that it is seen once (`SeenOnce`), and that an address
lists its confirmed transactions (`ConfirmedListed`). `startup` checks that a
process is never both ends of an IPC channel, and that an outbox kind that needs
no other setting has its transport (`TransportsAgree`), that no query reaches a factory handler without services on Node
(`FactoryHasServices`), that a test's wait ends when all its events are handled,
and not before, no waiter missing one (`WaitersExact`, `WaitersResolve`), and that a signal ends the
process (`SignalEnds`).

`ConfirmedListed` is stated for histories in which no tick ran with a height
above the Network's. Otherwise it fails in five steps: a tick with height 1
stores `TxSeen` of a transaction at 1; a block at 0 confirms it, and since it is
known, only `TxConfirmed` is stored; one more block, and a rollback to 0 deletes
the `TxSeen` but not the `TxConfirmed`. The restored model then knows a confirmed
transaction that touches no address. No text of the repository promises
otherwise, so this is a precondition here and not a violated run, and no property
catches it: `StatusMatchesChain` stays true in this history.

`VersionsStrict` says two things of the events of a user model. No two have the
same version, whatever ticks, batches and rollbacks came before. And no version is
missing, as long as every tick stored at the Network's height (`~apart`): then
heights rise with the versions, and a rollback cuts off the last ones. Without
that condition there are holes, by the history of `ConfirmedListed`: the `TxSeen`
of version 1 is stored at height 1, the `TxConfirmed` of version 2 at 0, and the
rollback to 0 deletes version 1 and keeps version 2. What was stored after a hole
still gets a version of its own, because a restored model goes on from the last.

`VersionsStrict` is stated for commands that do not overlap. Without that
condition TLC finds AddBlocksBatch and SyncMempool restored from the same
version and storing two events with it: the code relies on the command bus of
`@easylayer/common` to run one command at a time, and neither it nor the event
store can be read here.

**Bounds.** Chains have two to five blocks with forks at heights 1 and 2 above
one genesis block, so a fork can lie inside the window (`MaxSize` 2), at its
edge, and below it; two models, of which one reacts to some blocks only; batches
of one or two out of a queue of three, so a batch can be a part of the queue and
a fork can lie between batches or inside one; three moves of the node, two
failures and a crash, enough for a reorganisation that is itself interrupted and
then repeated on another branch. For `network_init`: heights to 3, three boots
(so a reset can follow an alignment and be followed by another configuration),
one reorganisation, and a window of two blocks, so that three indexed ones do not
fit and a batch of two can empty it of all others. For `compiled_model`: three blocks, one of which spends its
own output and one two outputs at once, batches of two, descriptors with
different sources, one failure and two reorganisations. For `mempool_cycle`: two
transactions loaded one at a time (so a sync takes several rounds), two
AddBlocksBatch, each of one or two blocks or a rollback to any height, a provider
that reports the height 1, so that ticks store above, at and below the Network's,
one change of the node's mempool, one failure, one spontaneous crash, and the
start heights 0 (accepted) and 1 (refused). Queries
to the network ask for heights and counts from −1 to 4, on both sides of what is
indexed, with a default of 2 so that it cuts. For `wallets`: two addresses, four
transactions of which two conflict and one spends without paying to a wallet,
blocks that spend their own outputs, three heights, two refreshes, two ticks and
a reorganisation (so a transaction can be seen, confirmed, rolled back, seen
again and confirmed elsewhere). For `fee_rate`: one transaction with the
modified fee and one as documented. For
`startup`: every combination of one value of each class that the code tells
apart, two event classes awaited up to twice each (so one may be done before the
other, and count beyond what is awaited), two signals. Deadlock is not checked,
since the bounds let the systems stop.

**Fairness.** `FairSpec` of BlockIngestion assumes weak fairness of the restart
(the comment in `read-state-exeption-handler.service.ts` relies on docker), and
of the loader, the command handler and the event handlers: tasks of one event
loop that does not starve a ready task. Nothing makes the node move, a command
fail or the process crash. `FairSpec` of NetworkInit assumes weak fairness of
the handler's own steps only, as one asynchronous function; the operator need
not answer. `FairSpec` of MempoolCycle assumes weak fairness of the restart, of
the crash of a dying process, of the loader's timer and of the mempool's tasks.
A running AddBlocksBatch ends (by a save, a rollback or an error), but nothing
makes one start. `FairSpec` of Startup assumes weak fairness of the steps of
`bootstrap()` and of `close()`, which are asynchronous functions whose awaits are
assumed to end; nothing makes a handler complete, or a query or signal come. All
liveness properties count failures as bounded: a provider that fails for ever is
not expected to converge.

**What `Converges` leaves out.** If the node forks below everything the window
holds, or the very first batches come from a branch that is then abandoned
while nothing is indexed, the walk back finds no common block, fails, and the
same batch is rejected for ever: this is what the code does (line 82 with an
exhausted window), and `Recoverable` excludes it by name. With the real window
of at least 1000 blocks the first case needs a reorganisation of that depth.

### What the violated runs show

* **A checkpoint inside a batch** (`checkpoint_mid_batch`). The comment above
  `alignToExternalCheckpoint` (lines 102–106) calls a store ahead of the
  checkpoint recoverable, to be rolled back "down to the external checkpoint".
  The rollback deletes the rows above the checkpoint; a batch is one row of the
  Network and carries the height of its last block, so a checkpoint inside it
  removes the whole batch and the store ends *below* the checkpoint. This boot
  throws at line 196, and later boots at line 171. With batches of one block it
  cannot happen, and `network_init` checks the rest for that deployment.
* **An empty store under a checkpoint** (`checkpoint_empty_store`). Rule 3 of
  the same comment refuses a store behind the checkpoint, since it may be the
  wrong volume. An empty store has height −1 and is let through (line 131); the
  crawler goes on from the checkpoint (line 189).
* **A state that is an object** (`shared_state`). The descriptor of the quick
  start and of the examples holds its state as an object, and the comment in
  `state-model-compiler.ts:96` allows it. `asFactory` hands this object to every
  instance, so each restore replays on top of the last one's state, and what a
  failed command did stays in it. With a function as state
  (`compiled_model`) everything holds.
* **Mempool handlers** (`mempool_tick`). The comment above `mempoolTick` and the
  types offer `sources.mempool` and `sources.mempoolTx`; the code calls `vout`,
  `vin`, `tx` and `block` instead and never these.
* **The fee rate** (`fee_rate`). `(typeof x === 'number' && x) ?? next` never goes
  on to `next`, because `false` is not nullish; only `modifiedfee` counts, and
  the documented response with `{fee, vsize}` has no rate.
* **A payment in the mempool** (`credit_seen`). The comment above `mempoolTick` of
  the advanced wallet announces `WalletCreditSeen` for new touches. `applyEvent`
  runs the reducer of `TxSeen` at once, so the touches are no longer new when
  they are compared with what is known, and the event never comes.

Noticed while reading; no property rests on it:

* The comment at `init-network.command-handler.ts:71-72` says the Cleared event
  is not saved, but line 78 saves it, and the e2e test `clear-network-table-flow` expects it as the first
  row. `NetworkInit` stores it.
* `browser/bootstrap.ts:95` looks up the string `'ModelFactoryService'`, while the
  module provides the class of that name. Nest 10 (`package/package.json`) finds
  providers by the identity of their token, so this throws, and the crawler does
  not start in a browser unless a user Provider registers the string. The
  container is external here; `ServicesMissing` is the action.
* The descriptions at `node/config/transport.config.ts:15` and `:106` say that
  HTTP and WS are disabled without a host; the code only looks at the port.
* `DOCS.md:299` sets `TRANSPORT_IPC_TYPE=electron-ipc`, which the validation at
  line 285 refuses; the `'electron-ipc-main'` that line 403 tests for cannot pass
  it either. Electron's transport is enabled by the outbox kind alone.
* `node/app.module.ts:133-152` spreads two objects with the key `extra`, so
  `EVENTSTORE_PG_IDLE_TIMEOUT` discards the pool's sizes; a connection timeout
  without an idle timeout, and a minimum without a maximum, are ignored.
  `EVENTSTORE_DB_SYNCHRONIZE` (`DOCS.md:915`), `EVENTSTORE_SNAPSHOT_INTERVAL` and
  `EVENTSTORE_INSERT_BATCH_SIZE` are read but never passed on.
* The advanced wallet's `TxReplacedByRbf` and `DoubleSpendDetected` are never
  emitted when a conflict is first seen, for the same reason as
  `WalletCreditSeen`; if both transactions are still in the mempool at a later
  tick, they are emitted in whichever direction the two happen to be listed.
* The handler in `examples/system/class-model/src/query.ts:18` and its copies read
  the length of `addresses` without asking whether there are any.

## 4. The proofs

All theorems are of the form `Spec => ...`, for every value of the constants that
the named assumptions allow; TLC evaluates these assumptions in its runs.

| module | theorems | assumes |
|---|---|---|
| `BlockIngestionProofs` | `InductiveInvariant`, `TypeCorrect`, `ExactlyOnceHolds`, `ReplayOrderHolds`, `ChainLinkedHolds`, `QueueContiguousHolds`, `ConfirmMatchesBatchHolds`, `InFlightOwnedHolds`, `ImplementsChainIndexHolds` | `ChainsAssumption`, `BoundsAssumption`: blocks of a chain are numbered from 0, bounds are naturals |
| `NetworkInitProofs` | `TypeCorrect`, `NoGapNoRepeatHolds`, `WindowHoldsLastHolds`, `ResumesAtCheckpointHolds`, `AlignedUnlessSplitHolds`, `ResetSettlesHolds`, `ImplementsIndexedRangeHolds`, `QueriesMatchEventsHolds` | `ConfigAssumption`: configuration values are integers or absent, batches and the window are not empty; for queries `QueryAssumption`: the default count is positive, clients ask for integers |
| `MempoolCycleProofs` | `TypeCorrect`, `LockHasOwnerHolds`, `SynchronizedCompleteHolds`, `VersionsStrictHolds`, `ReportedOnceHolds` | `MempoolAssumption`: finitely many transactions, which are not the pairs that stand for blocks; start heights are naturals or absent, the provider's heights integers, loads and batches not empty |
| `StartupProofs` | `TypeCorrect`, `TransportsAgreeHolds`, `FactoryHasServicesHolds`, `WaitersExactHolds`, `SignalHeldHolds` | `StartupAssumption`: finitely many event classes |
| `CompiledModelProofs` | `TypeOKHolds`, `RowsAreChainHolds`, `LocalsCompleteHolds`, `RestoredIsReplayHolds`, `NeverOverspentHolds` | `DescriptorsAssumption`, `BlocksAssumption`: known sources, blocks are sequences of transactions; `ChainAssumption`: what is spent was created, once and earlier, as the node guarantees |
| `WalletProofs` | `TypeOKHolds`, `BalanceIsUnspentHolds`, `StatusMatchesChainHolds`, `SeenOnceHolds`, `ConfirmedListedHolds` | `TxAssumption`, `WalletAssumption`: finitely many transactions, with inputs and outputs of natural value; bounds are naturals |

`RestoredIsReplayHolds` and `NeverOverspentHolds` have one more hypothesis, that
no descriptor writes its state as an object: with one they are false
(`shared_state`).

None of the deep properties is inductive by itself. Each module names an
inductive invariant `IInv`, proves that `Init` establishes it and that each
action keeps it (one lemma per action), and derives the theorems.

**BlockIngestion.** That `Save` keeps `ExactlyOnce` depends on what the handler
has in memory (`HandlerInv`: after `cursor - 1` blocks the models hold the events
of the stored chain and of those blocks, and `networkModel` is the stored chain
extended by the batch); that the batch is still the one in flight when `Save`
runs depends on the queue (`QueueInv`: its blocks are consecutive and, while a
command runs, begin right after the stored height); and that depends on the
events still on the bus (`EventInv`: at most one, and what it says agrees with
the store). `IInv` is the conjunction of `TypeOK`, `StoreInv`, `QueueInv`,
`EventInv` and `HandlerInv`. Facts about the operators (`Continues`, `AddBlocks`,
`Truncate`, `Apply`, `UpTo`, `LastVersion`) are lemmas of their own; that what a
rollback leaves of a stream is again an initial interval of versions
(`InitialInterval`) rests on `<` being well-founded on the naturals, from the
library. `InFlightOwned` is the safety core of the liveness property
`InFlightAnswered`: given `EventInv`, each command that ends leaves an event or
unlocks, and each event handler unlocks (`CommandOwned`, `EventsOwned`,
`ProcessOwned`).

**The refinement.** `ChainIndex` has only the chain and the streams that chain
produces, numbered by counting. `VersionCounts` shows that the version of a
stored row is the number of blocks up to its own that the model reacts to, so
the stored streams are those of the abstract index (`StreamIsStream`); then
`Save` is `Extend`, `Rollback` is `Rewind`, and no other step can be seen in the
store.

**NetworkInit.** The log is a set of rows, of which any part may be deleted;
`HasLast` says that each part that is left still has a last row, so the restored
height is always defined. `Agree` relates the log with the events of the models:
the blocks that no later row takes away (`Kept`) are exactly the heights that have
events, none twice, without gaps (`Dense`), and no row is of a lower height than its
blocks (`RowsReach`).
Under a parent, each row moreover has one block only (`RowsSingle`), so that a
rollback to any height at or above the window's lowest block ends *at* that
height (`Cuttable`): this is what the alignment needs, and what fails for a
checkpoint inside a batch. `Agree`, and the properties, are therefore stated for
`~MaySplitBatches`. `ResumesAtCheckpoint`, an action property, follows from the
action alone with the type of the log.

`AlignedUnlessSplit` and `ResetSettles` need to know more of the log, which
`BootInv` adds on top of `IInv`: no two rows have one version (`OneVersion`), so a
rollback to a height at or above the last row leaves this row the last; and,
under a parent, a rollback to any height at or below the store's ends *at* it,
or at nothing (`CutsAt`). Both are kept by each event that is stored and by each
further rollback (`NewerCutsAt`, `CutCutsAt`).

**The window.** What the Network holds is the part of `Kept` that no batch has
pushed out (`WindowIsKept`). `Bounded` says that the last height is always held if
anything is indexed: after a batch because its last block is (`BatchIsHeld`), after
a reorganisation because it goes to a held block (`MarkIsHeld`), after a deletion
of rows because fewer batches push (`CutIsHeld`, `CutOffIsHeld`). With heights that
are no higher than their rows, whatever is above a held block is held
(`WindowIsUpperPart`), and at most `MaxSize` of them are (`WindowHoldsLastHolds`).

**The range of a crawler.** A step that stores a batch extends `Indexed` right
above the last height because it is dense and ends at the height of the log
(`BatchExtends`). A rollback cuts it from above, even if the height it is given is
not indexed but lies below the first block (`CutToBlock`, `RollbackCuts`). Everything else leaves it alone
(`RangeSteps`).

**Queries.** A restored Network answers from a sequence, which `Upwards` makes of
the window. The window is an interval of integers, the upper end of the indexed
range (`WindowIsRange`), so this
sequence is `Span(lo, hi)` (`UpwardsIsSpan`), whose last entries and whose entries
in a range are spans again (`SpanTail`, `FilteredSpan`, by way of `Filtering`);
what remains is arithmetic on the ends, for every argument of a query
(`LastBlocksAnswered`, `HeightsAnswered`).

**MempoolCycle.** `LockInv` says that either nobody works for the loader
(`Quiet`), or the loader is locked and exactly one of the bus, the refresh and
the sync works for it, or a dying process has dropped it (`Owned`). `SyncInv`
follows what a sync has loaded: once a turn has loaded nothing more, nothing of
the snapshot is missing. `RowsInv` says that a sync in memory knows every
transaction its model has reported (even if another command has stored or deleted
rows meanwhile), and that the blocks of a batch are new. `VersionsInv` adds, for
commands that do not overlap, that each works on all stored rows, and, as long as
no tick has stored apart, that below each version there is every other (`Gapless`)
and that heights rise with the versions (`Rising`): so a rollback by height cuts
off the last versions, which is why no hole remains. That new events are numbered
upwards from the last version (`NumberedRows`, `RowsContinue`) needs the largest
version of a finite set (`LargestExists`) and an enumeration of the transactions
(`EnumerationExists`), both proved.

**Startup.** `WaitersCount` bounds what a waiter has counted by what has
completed, and says that a waiter listens exactly as long as it has not seen
enough; `TransportsFit` is a case analysis over the kinds of outbox
(`NodeTransports`, `BrowserTransports`). That no waiter misses a handler needs
`NoneMissed`: nothing completes before the waiters subscribe, and from then on
each has counted all that has completed until it needs no more. `SignalHeld`, a
process that runs on after a signal has a `close()` under way, is the safety core
of `SignalEnds`, as `WaitersExact` is of `WaitersResolve`.

**Folds and filters.** The models restore their state with `FoldLeft`, put the
events of a batch together with `FlattenSeq`, and drop those above a height with
a filter. `Folding` proves what a fold does on an empty, an extended and a
concatenated sequence, and that it keeps an invariant that may depend on how far
it has come (`FoldInvariant`), for an operator constant `op`; `Filtering` is
built on it for a test. A module of proofs instantiates them with its own
operator (`FB == INSTANCE Folding WITH op <- BaseStep`): that replaces the
induction theorems with operator parameters, which the provers cannot use. The
inductions themselves are over sets of naturals (`SetInduction`) and sets of
sequences (`SeqInduction`).

**CompiledModel.** `JobInv` ties a running command to its block and to what it
has still to call; `LocalsInv` says that what a handler has been called with and
what is left in its bag make up all that was collected for it; `EventsInv` that
the stored rows are the events of the indexed blocks (`Chain`), and what an
instance has seen is an initial part of these, with those of the running block
so far (`SoFar`); and `Replayed` that every live instance's state is the replay
of the events it has seen. `Save` and `Reorganise` carry this on, the latter
because the blocks' events are ordered by height (`UpToChain`). `NeverOverspent`
follows from the inductive invariant by counting the chain's outputs block by
block (`ChainCounts`, `RunningBlock`), where the valid chain enters.

**The wallets.** The rows of the two balance models are exactly the blocks'
events one after the other (`BaseRows`, `UtxoRows`), which a batch extends and a
fork cuts (`BaseRowsConcat`, `BaseRowsCut`); so what they restore is a function of
the chain alone. `BaseRestored` computes it along the chain: a valid block spends
only what there is, so the unspent outputs are those received less those spent,
and no balance is ever capped at zero. A balance is a sum over a set of outputs
in an order nobody knows; `SumsAnyOrder` shows that the order makes no
difference, and `ValueUnion` and `ValueDifference` that crediting and debiting
add and subtract. Nothing like this holds for the third model, whose rows depend
on the ticks: its instances are characterised by the set of their events
(`Summary`: what is known of a transaction are its `TxSeen` and `TxConfirmed`).
`Stored` says of these events that a transaction is first seen once, that each
`TxConfirmed` names a block of the chain and the place there (`Placed`), and that
no transaction of the chain that pays to a wallet lacks one (`Complete`). As long
as no tick was ahead of the chain, moreover, each `TxConfirmed` has a `TxSeen` of
no greater height (`SeenFirst`), which a fork then never separates: without that
condition the history of section 3 does. `Later` and `InBlock` follow an instance
through the inputs of a transaction, a tick, a block and a batch.

Only model-checked: liveness (`Converges`, `InFlightAnswered`, `ResetCompletes`,
`LockReleased`, `PoolReported`, `WaitersResolve`, `SignalEnds`), which is out of
the prover's reach under fairness. Every safety property the passing runs check
is a theorem.

## 5. Not modelled, and why

* Queries about blocks below the Network's window. It holds at most
  `max(BLOCKS_QUEUE_LOADER_PRELOADER_BASE_COUNT, 1000)` blocks, and a query for one
  below it is answered as if there were none, although the user models have its
  events. No text of the code promises more; `QueriesMatchEvents` says how far the
  answers reach, and that what is missing is below all that is answered.
* That the `Network` and the `Mempool` behave as assumed: when a full window drops
  blocks, that a rollback by height deletes what is above, that a restored model
  goes on from its last version. These are the libraries', read from their use.
* A confirmation that is delivered twice: the bus of BlockIngestion delivers an
  event at most once, since how the event store redelivers cannot be read here.
* The event store's outbox and redelivery, snapshots and pruning: external.
  Snapshots only shorten a replay; the models restore from the rows.
* The content of blocks: the pipeline's properties only need identity, height
  and link. In the wallets a transaction has its inputs, outputs and the signal
  that it may be replaced; how an address is taken from a script, and the last
  activity of an address, are left out.
* Tests, the clients and parents among the examples, the wiring of dependency
  injection: no state of their own. The declarative example is an instance of
  CompiledModel with a state written as an object (`shared_state`).
* Hosts, paths, message sizes, timeouts, CORS and TLS files of transports: passed
  through to the library.
* Selectors, snapshots of user states, memory statistics and iterators of the
  read services: passed through to the library or the user.
* The other configuration classes: single values that are validated or given a
  default, and passed to the libraries.

Of the implementation's lines most belong to third-party code that is checked
in: the SQLite build for WebAssembly under
`examples/system/browser-worker/public/sqlite` (some 51,600 lines) and yarn under
`.yarn`. They are not the crawler's, and nothing here models them. Of
`package/src` about two fifths of the lines are modelled.

## 6. Plan

Done: everything above. Left, in this order:

1. **NetworkInit with the mempool**: InitNetwork called from
   `mempool-initialized`, whose rejection is a crash and not an exit, and a reset
   that clears user models while SyncMempool has them in memory.
2. **User models inside the pipeline**: BlockIngestion with the wallets as its
   models instead of abstract streams, and `ctx.network` as they see it in the
   middle of a batch.
3. **Proofs**: a safety core of `Converges`: while the node stands still on a
   chain that is `Recoverable`, a walk back never runs out of blocks. It needs a
   history variable, for the node may move between two of its requests.
   `InFlightOwned` is such a core of `InFlightAnswered`, and `LockHasOwner` one of
   `LockReleased`.

## 7. Running it

```
tlc -config ingestion.cfg MCBlockIngestion.tla              # one to two minutes
tlc -config network_init.cfg MCNetworkInit.tla              # one to two minutes
tlc -config checkpoint_mid_batch.cfg MCNetworkInit.tla      # reports a violation
tlc -config checkpoint_empty_store.cfg MCNetworkInit.tla    # reports a violation
tlc -config compiled_model.cfg MCCompiledModel.tla
tlc -config shared_state.cfg MCCompiledModel.tla            # reports a violation
tlc -config mempool_tick.cfg MCCompiledModel.tla            # reports a violation
tlc -config mempool_cycle.cfg MCMempoolCycle.tla            # one to two minutes
tlc -config fee_rate.cfg MCMempoolCycle.tla                 # reports a violation
tlc -config wallets.cfg MCWalletCrawler.tla                 # one to two minutes
tlc -config credit_seen.cfg MCWalletCrawler.tla             # reports a violation
tlc -config startup.cfg MCStartup.tla                       # about a minute
tlapm Folding.tla
tlapm Filtering.tla
tlapm BlockIngestionProofs.tla                              # two minutes
tlapm NetworkInitProofs.tla                                 # two minutes
tlapm MempoolCycleProofs.tla                                # one to two minutes
tlapm StartupProofs.tla
tlapm CompiledModelProofs.tla                               # about 5 minutes
tlapm WalletProofs.tla                                      # about 15 minutes
```
