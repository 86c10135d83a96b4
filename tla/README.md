# Verification of the ASI-Chain indexer

TLA+ modules for the Python indexer in `src/`: a single asyncio process that follows an
ASI-Chain (RChain/Casper) node over gRPC, writes blocks, deployments and transfers into
PostgreSQL, and tells an operator through a webhook when it stops making progress.
Line numbers below are those of the repository (`block_indexer.py` is
`src/src/block_indexer.py`, and so on). `PROJECT.json` maps each definition to the lines it
models and lists the runs, the hazards and the theorems.

## 1. The system

| part | state it keeps | operations | talks to |
|---|---|---|---|
| **Batch progress** `sync_progress.py` | heights seen and failed of one batch, whether a height could not be placed | `mark_seen`, `mark_failed`, `last_completed_height` | called by the sync loop |
| **Block synchronisation** `_sync_blocks`, cursor of `database.py` | cursor `indexer_state.last_indexed_block`; locals of one cycle: cursor and tip as read, range, summaries, progress | read cursor, read last finalized block, ask for a range of heights, process each block, move the cursor | node client, database, progress, cycle monitoring |
| **Block writer** `_process_block`, `_process_deployment_enhanced`, the count trigger | one open transaction; tables blocks, deployments, transfers, validator_bonds, balance_states, block_validators | insert block, upsert its deploys, extract transfers, genesis rows, commit; block_validators in a second transaction | database |
| **Cycle monitoring** `_record_cycle_failure`, `_close_cycle`, `_track_*` | consecutive failed cycles, cycles without the node, the height the cursor is stuck at and for how long, a window of lags | one update per way a step of the cycle can end | alert service |
| **Alert service** `alerts.py`, `AlertThrottleStore` | per kind: last delivery, suppressed repeats, a lock; rows `alert_last_sent_*` | notify, notify_and_wait, load, deliver, save | webhook, its own database connection |
| **Service lifecycle** `main.py` | `running`, shutdown event, the tasks of indexer and monitor | start, signals, death of the sync loop, stop, exit code | all of the above |
| **Periodic steps** `_update_validator_states`, `_check_epoch_transitions`, `_update_network_stats`, `_verify_main_chain` | tables validators, epoch_transitions, network_stats; in memory the cursor heights of the last epoch, statistics and main-chain step | one call per cycle each | node client, database |
| **Pending deploys** `_sync_pending_deploys` | table pending_deploys, the total the node reported | replace the snapshot in one transaction | node client, database |
| **Node client** `grpc_node_client.py` | a channel | RPCs whose errors become empty answers | node |
| **Database access** `database.py` | engine and pool | sessions: commit on success, rollback on an exception | PostgreSQL |
| **Schema functions** migration 000 | `network_metrics_buckets`, counts kept by a trigger | metrics refresh, ancestor queries | database |
| **Transfer extraction** `_extract_transfers` | none | regular expressions over Rholang terms | block writer |
| **Genesis extraction** `_extract_genesis_data` | cache of the bonds of block 0 | bonds of the block, else of the node's last block; deployments and balances made of them | block writer, node client |
| **Monitoring server** `monitoring.py` | none of its own | read-only HTTP | database |
| **Resilience, cache** `resilience.py`, `cache.py` | circuit breaker, bulkhead, caches | no other file uses them | - |
| **Addresses, models, settings, scripts** | none | encoding, declarations, set-up | - |

The process has one sync loop. A *cycle* is a call of `_sync_blocks` followed by the other
steps; each step catches its own exceptions and only notes them, and `_close_cycle` decides
at the end whether the cycle failed. Alerts raised in a cycle are separate asyncio tasks
that run while the loop goes on. The container is restarted whenever the process exits
(`docker-compose.yml:79`); only the database survives.

### What is hard about it, and what makes each part correct

* *Completeness below the cursor.* The node's DAG has sibling blocks. The cursor says that
  all siblings of every lower height are indexed, and everything that can go wrong on the
  way (a sibling that fails, a summary outside the range, a crash between the commit of
  a block and the write of the cursor, values read two awaits ago) must not let it pass a
  block that is not there. Nor may one bad block hold back more than its height and those
  above it.
* *Whole blocks.* Statements of one block fail one by one and some failures are swallowed,
  while PostgreSQL aborts the transaction behind the session's back. What is committed must
  be the whole block, and what the loop takes for done must be committed. Siblings share
  deploys, which are upserted, and counted by a trigger.
* *Silence.* Five counters, each with its own resets, decide when a human is told. Cycles
  mix a silent node, a failing database and failing blocks; no mix may stay silent, and
  normal work may not raise an alarm.
* *One message per window.* Alerts of a kind overlap, the store and the webhook answer late
  or not at all, tasks are cancelled and processes restarted.
* *Life and death.* A signal, the end of the sync task, its done callback, the alert about
  it and the closing of the pool come in any order, and two alert services may speak for
  one process. The exit status decides whether the container comes back.
* *Cursor and tip.* The periodic steps mix the height of the cursor with answers about the
  node's tip, and several answers of one step belong to different moments.
* *Aggregates.* Metric buckets are filled once, while rows with timestamps before, in and
  after them are still to come.

`PROJECT.json` lists these and the smaller hazards at their lines, each with the properties
that cover it or the reason none does.

## 2. Modules

| module | models | kind |
|---|---|---|
| `BatchProgress` | `BlockBatchProgress` as operators on a record | pure operators |
| `BatchProgressCalls` | any sequence of calls on one progress, and the loop of the source as a recursive function | state machine |
| `MCBatchProgress` | the batch 2..5 | instance |
| `Facts_proofs` | sums over finite sets, least and greatest elements, and that the closed form is well defined | proofs, EXTENDed by the others that need it |
| `IndexedChain` | what a reader of the database is promised | abstract specification |
| `BlockSync` | `_sync_blocks` await by await, the cursor, node, crash and restart | state machine, EXTENDS `BatchProgress`, refines `IndexedChain` |
| `BlockSyncClaims` | `BlockSync` with the blocks it takes for done as a history | refines `BlockWriter` |
| `MCBlockSync` | seven blocks on five heights | instance |
| `BlockSync_proofs` | what any calls leave completed, and that the closed form is the loop; type correctness, completeness, monotone cursor, both refinements | proofs |
| `GenesisRows` | the bonds of block 0 and the rows made of them | pure operators |
| `TransferExtraction` | `_extract_transfers` over abstract terms, and what a plain term says | pure operators |
| `BlockWriter` | what `_process_block` promises to the loop that calls it | abstract specification |
| `BlockTxn`, `MCBlockTxn` | one `_process_block` statement by statement | state machine, EXTENDS `GenesisRows` and `TransferExtraction`, refines `BlockWriter` |
| `BlockTxn_proofs` | type correctness, the four safety properties of the writer, its refinement, and the reading of plain terms | proofs |
| `CycleAlerts` | the sync loop seen by its counters | state machine |
| `CycleAlerts_proofs` | type correctness, and when the two alerts of runs are raised | proofs |
| `AlertThrottle`, `MCAlertThrottle` | the alert service and its store | state machine, instance |
| `AlertThrottle_proofs` | type correctness with the locks, and the three action properties | proofs |
| `ServiceLifecycle` | `main.py` with `start` and `stop` of the indexer, one process after the other | state machine |
| `ServiceLifecycle_proofs` | type correctness, what an exit status tells | proofs |
| `CycleView` | what the later steps of a cycle share: tip, cursor, the heights of a batch, validators by height | variables and helpers |
| `PendingDeploys`, `ValidatorStates`, `EpochTransitions`, `NetworkStats`, `MainChainCheck` | one step of the cycle each, call by call | state machines, EXTEND `CycleView` |
| `CycleSteps`, `MCCycleSteps` | the five steps | composition, instance |
| `CycleSteps_proofs` | type correctness and the safety of three steps | proofs |
| `NetworkMetrics`, `MCNetworkMetrics` | the metrics functions of the schema beside the indexer | state machine, instance |
| `NetworkMetrics_proofs` | type correctness, nothing counted twice, fast within slow | proofs |

### How state and actions correspond to the code

**BatchProgress.** A progress is the dataclass as a record; heights that are `None`, no
integer or out of range are "not contained" and set `unmapped`. `last_completed_height` is a
loop; `IsLastCompleted` says in closed form what it leaves in `completed_height`, so that
it can be reasoned about without recursion, and `Loop` in `BatchProgressCalls` is the loop itself,
as a function of the height completed so far.

**BlockSync.** `pc` names the await the coroutine is at:

| `pc` | next action(s) | code |
|---|---|---|
| `rest` | `ReadCursor` | `get_last_indexed_block`, 325-327 |
| `tip` | `ReadTip` (returns if there is nothing to do) | `get_last_finalized_block`, 329-347 |
| `count` | `CountBlocks`: range of the batch, fresh progress | 349-370, 388 |
| `fetch` | `Fetch`: the answer, with blocks out of the range possible | `get_blocks_by_height`, 372-388 |
| `loop` | `TakeBlock` (`mark_seen`), `FinishBatch` (cursor) | 390-443 |
| `block` | `SkipIndexed`, `CommitBlock`, `CommitRollsBack`, `RefuseBlock`, `FailBlock` | `_process_block`, 539-602 |
| `justify` | `WriteValidators`, `RefuseBlock`, `FailBlock` | 604-618 |
| `down` | `Restart` | process exit and container restart |

`Abandon` is an exception, or a missing answer, at an await outside a block (the cursor is
written only if `completed_height >= start`); `Crash` strikes
anywhere. The progress record is created with the range at `CountBlocks`, where its start and
end are computed, although the object is made after the fetch: nothing reads it in between.
The node is the environment: `Appear` adds a block whose parent height is present, also
below the finalized height, `Finalize` moves the tip. The finalized height never goes back;
a block the node has it keeps. Both are the node's protocol, not the indexer's.
Summaries of a batch are processed in any order (`todo` is a set): the node orders them, and
no property depends on it. The constants name what data would decide: `Justified`,
`Rejected` (a row the database never accepts), `LateReject` (a block whose *last* statement
before the commit is a refused upsert: the one case in which `_process_block` can go on past
a rollback it does not notice; a later statement of an aborted transaction would raise).

**BlockTxn** opens up what `CommitBlock` and `CommitRollsBack` summarise. `work` is the
database as the open transaction sees it, `txn` the state of transaction and session
(`aborted`: the server refuses statements until the end and turns COMMIT into ROLLBACK;
`inactive`: a flush failed and the session itself refuses), `unflushed` whether objects wait
for the next flush. `cache` is `_genesis_data_cache`, which lives in the process and outlasts a
rollback. A table is the set of things it has a row for. One block is processed
at a time, as in the loop. `Fail` covers any exception and the death of the process.
Blocks of different heights can be processed in any order, which allows more than the loop
does; no property needs the order. The transfers of a deploy are what `Extracted` makes of its
term and signer.

**BlockWriter** is the seam between the two: `_process_block` as `BlockSync` sees it. Its actions
`SkipIndexed`, `CommitBlock`, `CommitRollsBack` and `WriteValidators` have the names and the guards
they have there (but for `Rejected`, which only says which blocks never get that far), and `GiveUp` is what `RefuseBlock`, `FailBlock` and `Crash` do to the block.
`BlockTxn` implements it with `stored` as the blocks that are in the database *with all their rows*,
and with a `LateReject` that is defined by the data (`LateReject` of `BlockTxn`: a refusable deploy
above genesis after which no deploy has transfers), where `BlockSync` has it as a constant. `BlockSyncClaims` adds
to `BlockSync` the history of the blocks `_process_block` returned from, and is proved to take only
steps of `BlockWriter` with a block. It is what the run and the theorems use to put the two together;
`Begun` says that a block found in the database is not begun.

**GenesisRows** is `_extract_genesis_data`: the cache, the block's positive bonds, or those of
the last finalized block. `AddGenesisRows` in `BlockTxn` writes a deployment and a balance for
each, and the balance of the contract. The allocations the code also loops over are always
empty, and left out.

**TransferExtraction** takes a term as the sequence of statements the regular expressions look
for. What matters of a string is whether it starts with 1111 and on which side of the
lengths 52 and 57 it lies, since the patterns and the checks after them draw the line
differently. Bindings are resolved over the whole term, pattern by pattern, as `re.findall`
does: the place of a statement in the term counts only within its pattern. Whitespace is
one flag of a match (`exact`), as one pattern allows none.

**CycleAlerts** takes each way `_sync_blocks` can end as one action (`CursorUnreadable`,
`NoFinalizedBlock`, `UpToDate`, `CountFails`, `NoSummaries`, `BatchDone`,
`CursorUnwritten`), because the counters are written by straight-line code between awaits
and read by nothing else; `BlockSync` has the awaits. `StepFails` is a later step that fails
and notes it, `CloseCycle` is `_close_cycle`. `raised` is what the current cycle has
notified. Counters stop at their thresholds: they are only compared with `>=`. The kind
"node" of `classify_failure` cannot reach a step, since the client turns every RPC and
HTTP error into an empty answer; the kinds are `database` and `unnamed`.

**AlertThrottle** has one state per await of `AlertService._process`: waiting for the lock of
the kind (`lock`), querying the store (`query`, `rows`: the rows are read, the connection is
still open), delivering, saving. `LoadFails`, `DeliveryFails` and `SaveFails` are exceptions
and timeouts; `Cancel` is `notify_and_wait` giving up, or the event loop closing. A service
without a webhook does nothing and is left out. `sentBy`, `here`, `untold` and the fields
`reports` and `blind` of a task are history: what was really posted, to compare with what
the service believes.

**ServiceLifecycle** has two coroutines: `main` is what `IndexerService.start` awaits, `task`
what `BlockIndexer.start` awaits. A task that raised is `ended` until the event loop calls
`_on_indexer_task_done`, and a signal can come in between. `Escape` is an exception that leaves
`asyncio.run`, after which `main()` alerts with a service of its own (`LastCall`). An alert is
one step here (suppressed, posted, or lost), with a window that is open or not in place of the
clock of `AlertThrottle`. What a service remembers does not appear: it speaks of a kind at
most once here, so only the row can suppress. `posted` holds the kinds a message was posted on
in the window that is open, `window` those of them the row tells of; the row can be lost, and a
row that cannot be read suppresses nothing. `WindowEnds` may come at any time.
`--reset` is an interactive command and left out.

**CycleSteps.** Each of the five steps is a chain of actions, one per call to the node or
statement that others can see the effect of; `phase` says which answer it has. The node goes
on between them (`Finalize`, `BuffersChange`, `Propose`, `Switch`) and the cursor moves between
steps (`Sync...`, by what `_sync_blocks` may do: batches start at `BatchStart`, which in a fresh
database is `start_from_block`, and end below the first height not done). No step reads what another writes, beyond the cursor, so a behaviour of all
five is one behaviour of each: `watched` picks the one this behaviour is about, which keeps
the state space a sum instead of a product. `Restart...` clears what lives in the process,
and the action that fails (`...Fails`, `No...`) is a missing answer, an exception or a crash.

| step | actions | code |
|---|---|---|
| pending deploys | `AskPending`, `DeleteAll`, `InsertAll`, `CommitPending` | 449-526 |
| validators | `AskBonds`, `UpdateValidators`; `ProcessValidators` is the writer in each block | 759-810, 992-1025 |
| epochs | `CheckEpoch`, `RecordEpoch` | 816-876 |
| statistics | `CheckStats`, `AskLfb`, `AskStakes`, `RecordStats` | 882-908, node client 242-277 |
| main chain | `FetchBatch`, `IndexBlock`, `PassHeights`; `AskChain`, `Compare` | 349-443; 932-986 |

The check of the main chain depends on what a batch left out, so that step has the batch in three
parts: `FetchBatch` takes what the node has at this moment (`shown`), blocks are stored one by
one while the node goes on, and `PassHeights` moves the cursor over heights that were shown and are
stored whole. A block that is stored may fail all the same when it is asked for again, and the
cursor may fail to be written: any subset of the `Complete` heights may be done. Batches read
the tip where they use it; since the finalized height only grows and what was shown bounds what
is complete, an earlier read allows no other step. Stray summaries are left to `BlockSync`.

Histories: `missed` (blocks that were not in the answer to the batch that passed their height),
`compared` (what the last check looked at).

**NetworkMetrics.** `ReadRange` and `FillBuckets` are the statements of one
`refresh_network_metrics_buckets` call, which see different snapshots under READ COMMITTED;
`Metrics` is `get_network_metrics` with its fast and slow path. The unit of time is the second
by which `range_end` lies beyond the latest timestamp. Calls do not overlap: cron starts one
every three minutes and one call ends well before.

## 3. Runs

| run | properties | what it shows |
|---|---|---|
| `batch_progress` | `CompletesBelowLowestObstacle`, `ClosedFormIsLoop`, `FailureHoldsCursor` | in every order of reports and failures a batch completes exactly what lies below the lowest height that is missing or failed; closed form and loop agree |
| `block_sync` | `TypeOK`, `CursorComplete`, `CursorNeverBack`, `ImplementsChain`, `ImplementsWriter`, `CatchesUp` | completeness, monotone cursor and the refinements of `IndexedChain` and `BlockWriter` under all faults; after the last one the cursor passes every finalized height below the first block that is never accepted |
| `block_txn` | `TypeOK`, `ClaimedIsStored`, `BlockIsWhole`, `CountsAddUp`, `TransferOncePerHeight`, `PlainTermsAreRead`, `ImplementsWriter` | swallowed refusals leave neither half a block nor a claim without a block; shared deploys and a genesis tried twice keep counts and transfers consistent; plain terms are read as they are meant; the statements together are the steps `BlockSync` takes them for |
| `cycle_alerts` | `TypeOK`, `FailedRunIsNamed`, `StuckMeansPinned`, `SpikeIsNoStall`, `NoSilentStall`, `DeepStallIsReported` | alerts come when, and only when, promised, one spike of the lag decides nothing, and a stalled loop is not silent |
| `alert_throttle` | `OncePerWindow`, `RepeatsAreTold`, `ThrottleNeverBack`, `AlertsSettle` | one message per kind and window, no repeat lost, every alert ends |
| `service_lifecycle` | `TypeOK`, `ExitIsToldOnce`, `NoZombie`, `ComesBack`, `CrashLoopIsHeard` | in every order of signal, death, callback, alert and failing shutdown: no process stays up with a dead loop, an exit is told once and has the right status, the service comes back, and one that keeps failing is heard of |
| `cycle_steps` | `TotalTellsOfTruncation`, `ShareOfOneAnswer`, `NoFalseReorg`, `VerifiedMeansCompared`, `StakesConverge` | what the steps write agrees with one answer of the node, or is off by an amount that is known; only blocks a batch was not shown are taken for a reorganisation |
| `network_metrics` | `TypeOK`, `NothingCountedTwice`, `FastWithinSlow`, `HydratedToTheEnd` | rows in any order are never counted twice, and the buckets reach the end of the data |
| `validators_with_block` | `ValidatorsWithBlock` | violated: finding 1 |
| `deployment_count` | `CountIsOfBlock` | violated: finding 2 |
| `epoch_start` | `EpochStartsAtItsFirstBlock` | violated: finding 3 |
| `bucket_counts` | `BucketsAreUpdated` | violated: finding 4 |

Run them with `tlc -config <cfg> <module>`. No run uses symmetry or a state constraint:
every model is finite, the bounded variables are bounded in guards. The runs of `MCBlockSync` take
`BlockSyncClaims`, whose history restricts no step of `BlockSync`. The type invariants of `AlertThrottle`
and `CycleSteps` are theorems and are not checked by a run.

### Bounds, and why they are enough

* `MCBatchProgress`: a batch of four heights has an inner part and both ends, and heights are
  reported just below, just above and without a number. The object keeps two sets and a flag,
  so a longer batch adds no new case.
* `MCBlockSync`: heights 0-4 with siblings at 2 and 3 and batches of two heights. In
  `block_sync` a start at 1 (above genesis, so the fresh-database case differs from
  `cursor + 1`) makes the batches 1-2 and 3-4, with a batch that starts over in the middle.
  The only block that is never accepted is at height 4, so `CatchesUp` asks for heights 1, 2
  and 3: through the first batch, its siblings, and into the second, which has to end
  below the bad block. There are full and short batches, a failing sibling next to one that
  succeeds, a late sibling before, during and after its batch, in both batches, a stray
  summary (`b2`), and silent rollbacks (`b1`, `c1`). A progress of the cursor that works
  in the first batch only is a counterexample here. `validators_with_block` starts at 0, with
  no block that is never accepted.
* `MCBlockTxn`: a genesis with a deploy, two siblings that share `d1`, and a block above that
  carries it again; each deploy may be refused, first, middle or last; two transfers in
  one deploy, none in another. The genesis has no bonds, or one that counts beside one of
  stake 0, and the node answers none or two. `PlainTermsAreRead` goes through all terms of up
  to three statements out of twenty-six: three are enough for a binding, its use and one
  statement that could come between them.
* `MCCycleAlerts`: the thresholds of the counters are 2, the least at which "one short of the
  threshold" and "reset in between" differ, `MaxTip` 2 with `StartFrom` 1 and batches of 2. The
  window of lags has five entries, halves of two and three: the median of the older is the mean
  of two, that of the recent one the middle of three, which a spike does not move. With the
  peak in place of the median `SpikeIsNoStall` fails. The premises of
  the two liveness properties are met by behaviours of this instance: with a counter that only
  notes a cycle the first fails, with a flat lag taken for recovery the second.
* `MCAlertThrottle`: two kinds (the store is loaded once for all kinds), two tasks (one waits
  while one holds the lock, or two kinds at once), a window of 2 ticks and a clock to 2, so a
  delivery can be inside and just at the end of a window. The count of repeats stops at 1:
  told or lost are the two cases. Restarts and failures are not bounded.
* `ServiceLifecycle`: two kinds of alert, and one more than allowed is counted (`MaxRaised`, 2;
  the theorems hold for any cap above 1). Restarts, signals, failures and windows are not bounded.
* `MCCycleSteps`: four heights, batches of two and epochs of two, batches start at
  height 1, so that height 0 lies under the cursor without a row; the lag is anything from 0 to 4 and an answer can belong to the epoch after the cursor's. Of four validators one
  loses stake, one is unbonded, one joins and one stays; the active set is not always part of the
  bonds in hand. Two deploys in two buffers make four entries for a node that returns three;
  one deploy is unsigned. Two branches per height, a main chain of two blocks and a check every
  two heights: the node can be ahead of the cursor by more than the answer is long.
* `MCNetworkMetrics`: two blocks, a deploy and a transfer at times 0-5, buckets of 2, a lookback
  of 3 that is no multiple of them, and a range of 5 in 2 divisions, whose bound is no bound of
  a bucket. Once the rows are used up and counted the system stops, so this run does not check
  for deadlock.

Bounds that appear in guards or cut a value: `MaxTip` and the thresholds in `CycleAlerts`
(`failures`, `nodeOut`, `stuck`, and the length of the history sequences), `MaxTime` and
`MaxSuppressed` in `AlertThrottle`, `MaxRaised` in `ServiceLifecycle`, `MaxTip` in
`CycleView`, `MaxTime` in `NetworkMetrics`.

### Fairness

* `BlockSync`: `WF(Indexer)` and `WF(Restart)`. The sync task is the only task that computes;
  asyncio resumes it when its await is done, RPCs end after `node_timeout`. The container
  restarts the process (`restart: unless-stopped`). Statements on the main engine have no
  timeout; that PostgreSQL answers or drops the connection is an assumption about the
  environment, listed as a hazard at `database.py:36`. Nothing is assumed of the node:
  `Appear` and `Finalize` are not fair, nor is any fault excluded except in the premise of
  `CatchesUp`, "from some time on no fault". A batch that ends without moving the cursor has
  the effect of one that was abandoned; the premise counts such a step as the indexer's own
  (`Fault => Indexer`), so that a cursor that is stuck without a fault is a counterexample.
  The premise also excludes stray summaries from some time on (`StrayAnswer`): one that came in
  every answer would pin the cursor, by intent of `mark_seen`.
* `CycleAlerts`: `WF` on `_sync_blocks` as a whole and on `_close_cycle`: every call ends, in
  whichever way, and the loop goes on after its sleep. Which way is free: `NoSilentStall`
  and `DeepStallIsReported` hold for a node and a database that choose adversarially.
* `AlertThrottle`: `WF` on the end of each await past the lock, because store and webhook have
  timeouts, and `SF` on `Acquire`, because `asyncio.Lock` wakes its waiters in order: a task
  cannot be overtaken for ever.
* `ServiceLifecycle`: `WF` on the two coroutines, as what they await ends (the alerts have a
  timeout), on the restart, and on the end of a window, as time goes by. `NoZombie` needs the
  first two; `ComesBack` has the end of faults, signals and node outages as its premise.
  `CrashLoopIsHeard` has two: the process exits with status 1 again and again, and from some time on no
  message outside a window is lost. Nothing is said about what the processes die of, nor
  which of the three places that alert does.
* `CycleSteps`: `WF` on a `_sync_blocks` that goes through, as in `CatchesUp`. That updates of the
  validators go through again and again is the premise of `StakesConverge`, since nothing
  but the node and the database decide it.
* `NetworkMetrics`: `WF` on the start of a call and `SF` on its second half: cron goes on, and not
  every call loses its connection.

### What the liveness premises say

`NoSilentStall` excludes behaviours in which the cursor goes on moving or the process goes on
restarting (the counters live in the process), and *one* mixture: cycles in which the node is
silent alternate for ever with batches whose cursor cannot be written. Then the answered
batch resets the node counter, and the cycle without data, whose steps all end quietly, resets
the failure counter. TLC finds that mixture if `AnswerDropped` is taken out of the premise.
`DeepStallIsReported` covers it when the cursor is deeper than `LAG_ALERT_BLOCKS`, as long as
the node still tells its finalized height.

## 4. Findings

1. **block_validators outside the block's transaction** (`block_indexer.py:606`).
   ARCHITECTURE.md:288 promises one transaction per block. The rows are written in a second
   session after the commit; if it fails, the retry finds the block and returns early, so the
   rows are missing for good. `CursorComplete` is about `blocks` only and still holds.
2. **deployment_count** (migration 000:303-324). The trigger counts inserts and deletes; a
   deploy found again in a sibling is an update of `block_hash`. The first block keeps its
   count, the second is never counted. The *sum* of the counts is right (`CountsAddUp`).
3. **First block of an epoch** (`block_indexer.py:852`). The height it is reckoned from is that of
   the cursor, the distance to the next epoch that of the node's tip. With a lag the start is too
   early by it, or even negative, and a row that exists is never corrected; GRAPHQL_SCHEMA.md:186
   calls `start_block` the first block of the epoch. In the run the tip is at 2 and the cursor at 1,
   and epoch 1, which starts at 2, is recorded to start at 1.
4. **Last bucket of a refresh** (migration 000:629-634). `generate_series` includes the floor of the
   quotient, so the last bucket reaches beyond the rows there are, and the next call starts at
   its end: rows that fall into it meanwhile are never counted, although GRAPHQL_SCHEMA.md:247
   says that updated buckets are upserted.

What else a reader of the code or the docs should know, and the models show:

* The cursor is said to be the height "whose complete sibling set was indexed"
  (`database.py:93`). It is the set the node reported when it was asked: a sibling that arrives
  later, be it while the batch is still at work, is never requested. `CursorComplete` is the exact
  statement that does hold, and `NoFalseReorg` says that only such blocks can be reported as a
  reorganisation. A late sibling on the main chain is reported although nothing was reorganised.
* The alert for a lag that stopped shrinking (`block_indexer.py:287-315`) compares medians of two
  half windows with a fixed ratio, as DEPLOYMENT.md:492 and 513 say. A single spike
  decides nothing (`SpikeIsNoStall`). A backlog that is more than
  about ten times what half a window removes raises it although it shrinks in every cycle.
* GRAPHQL_SCHEMA.md:181 and 424 say that the indexer does not fill `epoch_transitions` at all;
  `block_indexer.py:859` does.
* GRAPHQL_SCHEMA.md:173 gives the initial cursor as '0'; the migration inserts '-1', which is what
  the models start from. With '0' a fresh database would never ask for the genesis block.
* Heights below `start_from_block` lie under the cursor once it has moved, without a row. The check of the
  main chain looks at them but compares them with nothing. `VerifiedMeansCompared` says so.
* The status of an active validator is lost at each update (`block_indexer.py:779`).
  `get_active_validators` returns dictionaries (`grpc_node_client.py:112-115`), so
  `validator_key in active_validators` is never true, and 'active', as written with the blocks,
  becomes 'bonded'. `IsActive` has it; one call shows it, so no run is spent on it.
* `first_seen_block` and `last_seen_block` of a validator written by the periodic step are the
  cursor, not the height of the answer.
* A pending deploy without signature is dropped but counted in the total, so that it looks like
  truncation; `TotalTellsOfTruncation` has the term for it.
* A direct match in a term ends the search: other transfers of the same term are not found
  (excluded from `Plain`). Identical transfers of one deploy collapse into one (line 748).
* The fast path of `get_network_metrics` shows no bucket that straddles two divisions;
  `FastWithinSlow` is an inequality for that reason, so it would not notice if it showed still less.

## 5. Proofs

Every invariant, action property and refinement of the passing runs but `SpikeIsNoStall` is a theorem,
for all values of the constants; that one and liveness are left to TLC (below). Each module proves an inductive
invariant `IndInv` (`Init => IndInv`, one lemma per action or group of actions, `NextIndInv`) and
takes the properties from it. Every `IndInv` was checked by TLC on the instance of its run before it
was proved.

`Facts_proofs`: **LastCompletedWellDefined**. For every progress the set of heights that satisfy
`IsLastCompleted` is not empty, so the `CHOOSE` in `LastCompletedHeight` is one of them, and the
only one. The loop stops at the lowest height that did not succeed or lies past the end; that
there is a lowest one is the well-foundedness of `<` on `Nat` (`LeastOf`). The lemmas on
`Sum` say what `MapThenSumSet` computes: the recursion it is defined by exists and is unique
(`SumsUpExists`, `SumsAgree`), any element may be taken out (`SumWithout`), and the counts of parts
that do not overlap add up to no more than the whole (`SumOfApart`). As theorems with a predicate
for a parameter cannot be used, they argue by the smallest counterexample (`SmallestOf`).

`BlockSync_proofs`, first part, about `BatchProgressCalls`: **CompletesBelowObstacle**,
**FailureTakesBack**, **LoopIsClosedForm**. The invariant is that the record holds just the calls, as
far as they are of the batch; the rest is what `IsLastCompleted` says before and after a call. For
the loop one has to show that the recursive function exists on the heights of the batch and that
where it stops satisfies the closed form (`RemainingCompletes`); as induction over a predicate
cannot be cited, the argument is the one of a least counterexample, over how much of the batch
is left.

The rest of `BlockSync_proofs`, for all blocks, heights, batch sizes and start heights:

* **Invariance**: `Spec => []IndInv`. `CursorComplete` alone is not inductive: when
  `FinishBatch` moves the cursor one has to know what "seen and not failed" meant. `IndInv`
  adds
  - `ReadsHold`: what the cycle read (cursor, tip) is still true, as nobody else writes the
    cursor and the tip only grows;
  - `BatchIsOpen`: the batch starts right after the cursor, or at `StartFrom`;
  - `Accounted`: every block the node ever reported inside the batch is stored, still to
    do, in process, or at a height marked failed;
  - `SeenIsHeld`: a height counts as seen because a block of it is stored or in process;
  - `recorded \subseteq stored`, `returned \subseteq dag`, `CurrentBlock` and `TypeOK`.
* **TypeCorrect**, **CursorIsComplete**: the conjuncts `TypeOK` and `CursorComplete`.
* **CursorMonotone**: `CursorNeverBack`; only `FinishBatch` writes the cursor, to a height at
  least the start of the batch, which lies above the cursor.
* **Refinement**: `Spec => Chain!Spec` with `known <- returned`, `indexed <- stored`. `Fetch` is
  `Learn` (the range lies above the cursor), `CommitBlock` is `Index`, a `FinishBatch` that
  moves the cursor is `Advance`, all else stutters.
* **LoopAndWriter**: `ClaimsSpec => Writer!Spec`. Nothing is needed but that the block in process is
  one (`InProcess`), so it holds without `LateJustified`. Together with `BlockTxn!Refinement` it
  says that the two models of `_process_block` fit: what the loop supposes is what the statements
  do. **DoneIsStored** (what the loop takes for done is stored, under `LateJustified`) then needs
  `BlockWriter` only.

`BlockTxn_proofs`, for all blocks, deploys, transfers and bonds. What is stored is whole because
the open transaction is on the way there (`WorkIsWhole`: it has the bonds and all deploys handled
so far, and nothing of the blocks before is lost to a sibling) *as long as the server takes
statements*. When it has aborted, nothing more is promised of `work`, and the block must not be
claimed: `RefusedIsLast` says that a transaction can only be aborted without the session's
knowledge if no statement followed the refused one.

* **TypeCorrect**, **IndexedWhole**, **CountsMatch**, **RecordedOnce**: `TypeOK`, `BlockIsWhole`,
  `CountsAddUp`, `TransferOncePerHeight`. For the counts, `Counted` relates the sum over all blocks
  to the number of deployments both of the database and of an active transaction; for the genesis
  rows, `BondsKnown` and `GenesisLast` tie the cache to the bonds of block 0 over several attempts.
* **ReturnedIsStored**: `ClaimedIsStored` under `LateJustified`, in the words of `BlockSync`
  (`LateReject \subseteq Justified`), where `LateReject` is now a statement about the deploys. The
  foreign key of `block_validators` then refuses the block that is not there.
* **Refinement**: `Spec => ImplementsWriter`, without `LateJustified`. Statements inside a
  transaction stutter (`StatementIsHidden`), `Commit` is `CommitBlock` because the work of an active
  transaction is whole when the last deploy is done, and a commit that rolls back is one of
  `LateReject` because nothing was sent after the refused upsert (`RolledBackIsLate`). That the mapping
  of `stored` is right needs that no later block breaks an earlier one (`AllWhole`): the
  upsert of a shared deploy takes the row from a sibling, but to a block that has the deploy too.
* **TermsAreRead**: `PlainTermsAreRead` for terms of any length. In a plain term a name has one
  binder, so the last of a pattern and the one before the use are the same statement
  (`BoundOnce`, `CallsResolve`); what the two passes of the code then find is what a reader finds
  statement by statement (`DirectIsHeaders`, `CallsAreSaid`).

`CycleAlerts_proofs`, for all thresholds: **TypeCorrect**, **RunIsNamed**, **StuckIsPinned**. The
properties speak of histories (the last cycles, the last batches), the code has counters:
`FailuresAreTheRun` and `StuckIsTheRun` say that a counter is the length of the run its history ends
with, across the resets each counter has of its own, and at its cap. `Window` is the lemma on
keeping the last n entries of a sequence.

`AlertThrottle_proofs`, for any numbers of kinds and tasks and any window and clock:

* **TypeCorrect**: with `TypeOK` the locks, held by just the tasks past `Acquire`.
* **NeverRewinds**, **DeliversOncePerWindow**. A load writes the state of every kind, whoever holds
  its lock, so mutual exclusion per kind is not enough. `RowsAreOld` orders what the copies of a
  time can be (rows read, store, last delivery, clock), `LoadIsComplete` says that a service that
  has loaded knows all the store has and that a task with rows in hand has the store's or its
  process has saved since, `OwnIsKnown` that a process knows its own deliveries, `MayDeliver` that a
  task on its way to the webhook was right to decide so *and still is*.
* **TellsEveryRepeat**: the counter of the service is the number of repeats untold.

`ServiceLifecycle_proofs`: **TypeCorrect**, **ToldOnce**, for any cap of the history. `ExitIsToldOnce` is about the last state of a process, while the alerts are raised by two
coroutines before it. `IndInv` therefore says for each state which alerts are out: the task's just if
it ended with an `AlertedError` (`TaskAlert`); the service's from the moment it begins to stop, if the
loop died of something else (`ServiceAlert`). The two exclude each other because a loop that died is
done (`Asked`), so what it died of can no longer change while the service acts on it.

`CycleSteps_proofs`, from `FairSpec`: **TypeCorrect**, **TotalIsOfTheRows**, **ShareStaysAShare**,
**ReorgIsReal**, **CountedCheckCompared**. The invariant says of the step
that is watched what its proof needs and of the others that they have not begun.
`PendingInv` finds the answer behind the rows of the table (it need not be the last one). For the main
chain, everything passed from the start on is either stored or was not shown: `PassedIsStored`
relates the stored blocks, the cursor and `missed`, and is kept by a batch because the cursor
goes no further than the heights done (`CursorMoves`), of which all that was shown is stored. That the
main chain goes through known blocks (`DagIsWhole`) makes the height of the cursor part of an
answer that reaches below it (`AnswerReaches`), so a check that counts has looked at it.
The lemmas on `\div` and on sums of stakes carry the arithmetic.

`NetworkMetrics_proofs`, from `FairSpec`: **TypeCorrect**, **CountedOnce**, **FastIsWithinSlow**.
That buckets do not overlap needs that a refresh in progress begins where all of them have ended
(`RangeInv`). The counts of a bucket are bounded by the rows that lie in it now, as rows only
come. For block times it is not enough to look at buckets one by one: the first difference of
a slot reaches back to a block of an earlier slot. `GapsInv` therefore gives each bucket the stretch of
time its sum is of, with no two of them overlapping, and sums are then compared by `SumOfApart`.
The number of rows, buckets and divisions is not bounded, nor need rows be finitely many.

### What is assumed

Constants have the types of their `ASSUME`s, which TLC evaluates in every run. Beyond types and
positive thresholds the theorems use that the sets of blocks, deploys, bonds, validators and
unsigned deploys are finite (the code has them in lists and tables), that there is some kind of
alert and some branch, and that marks for "nothing" are none of the values they stand beside
(`None \notin Int` and the like). `StringAssumption` says what tells the strings of a term apart: an
identifier is no address, and a string of fewer than 52 characters none of 52 or more.

`LateJustified`, `LateReject \subseteq Justified`, is the one hypothesis that is no type. It is needed: a block without justifications whose last deploy
the database refuses is rolled back without an exception and `_process_block` returns as if it
were done. A Casper block above genesis has justifications, and genesis flushes further rows after
its deploys, which raises; so the hypothesis holds on the chain this code reads, by the data and
not by the code. The same restriction is built into the constants of `MCBlockSync` and
`MCBlockTxn`, and of the theorems on `BlockTxn` only **ReturnedIsStored** needs it.

### Left to TLC

* Liveness (`CatchesUp`, `NoSilentStall`, `DeepStallIsReported`, `AlertsSettle`, `NoZombie`,
  `ComesBack`, `CrashLoopIsHeard`, `StakesConverge`, `HydratedToTheEnd`): it needs fairness and ENABLED, which the
  prover does not handle.
* `SpikeIsNoStall`, an invariant about medians. The prover has no theory of sorted sequences, and
  the order statistics of a window of any length would need induction over it.
* That modules other than `BlockSync` and `BlockTxn`, which meet in `BlockWriter`, fit together: an
  alert is one step in `ServiceLifecycle`, a call of `_sync_blocks` one in `CycleAlerts`, and that this
  is what `AlertThrottle` and `BlockSync` come to is argued in section 2.

## 6. Not modelled

* `monitoring.py`: read-only HTTP endpoints. They answer from the database and from flags of the
  indexer and change neither.
* `resilience.py` (retry, circuit breaker, bulkhead) and `cache.py`: no other file imports them, so
  no execution of the indexer reaches them. A model would be of code that never runs.
* `addr.py`, `models.py`, `config.py`: encoding, declarations, settings. A key `addr.py` refuses is a
  failure of the block in `BlockTxn`; settings are constants of the modules.
* Of `grpc_node_client.py` the protobuf conversion and `get_deploy_info`, which nothing calls. What
  `get_block_details` answers is taken for the block; that it answers nothing
  (`block_indexer.py:405`) is one of the ways of `FailBlock`; of the schema the ancestor and descendant queries and the views, which read only.
* Columns written once and never refreshed (`finalization_status`), and the wording, lengths and
  types of other columns. In `TransferExtraction`, strings beyond 57 characters and the
  characters of a pattern other than those named above.
* `--reset`, Hasura set-up, seed data, load test and containers. Of the latter only the restart
  policy and the cron job appear, as `Restart` and as the refresh of `NetworkMetrics`.

## 7. Plan

Order of work: first what every reader of the database relies on, then what tells the
operator, then the tables derived from the node's answers, then the helpers.

1. Done: `BatchProgress`, `IndexedChain`, `BlockSync`; `BlockTxn` with `GenesisRows` and
   `TransferExtraction`; `CycleAlerts`; `AlertThrottle`; `ServiceLifecycle`; `CycleSteps` with its
   five steps; `NetworkMetrics`.
2. Done: the theorems of section 5. Of the safety properties only `SpikeIsNoStall` is left without one; liveness is out of
   the prover's reach.
3. Done: `BlockWriter`, of which `BlockTxn` and `BlockSyncClaims` are refinements.
4. What the lemmas on `\div`, sums and windows have in common with each other, moved to
   `Facts_proofs` where more than one module cites it.
5. `resilience.py`, if the code starts to use it.
