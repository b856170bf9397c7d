# invs: a TLA+ development

invs is a local, single-operator investment research system: Go collectors turn
provider responses into immutable raw objects, manifest-backed Parquet partitions and
a PostgreSQL catalog; Python derives features, runs backtests and operates paper
accounts; a daily cycle script drives all of it.  This directory holds TLA+ models of
its core, TLC configurations that check them on small instances, and proofs that TLAPS
checks for every value of the constants.

Paths below are relative to the repository root.

## 1. Inventory

### Parts, their state and their operations

| Part | Source | State | Operations |
|---|---|---|---|
| Run catalog | `internal/metadata/postgres.go`, `migrations/000001`, `000002` | `ingestion_runs` rows by source and run key; latest-only `market_price_snapshots` and `macro_observation_snapshots` | `StartRun`, `FinalizeRun`, `LookupRun`, `CancelRun`, `SyncCatalog` |
| Raw store | `internal/storage/raw.go` | content-addressed objects with metadata files; one manifest per run | `Put`, `Get`, `PublishRawManifest`, `LoadAndVerifyRawManifest` |
| Normalized store | `internal/normalize/*.go` | per partition a directory of immutable parts and one `manifest.json` | `ValidateExisting`, `WritePrices`, `WritePricesQuarantining`, `WriteFundamentals`, `WriteFilings`, `WriteEconomics`, `WriteFX` |
| Collector | `cmd/collector/main.go` | the locals of one collect function: responses, evidence list, counters, errors, snapshot candidates | fifteen collect functions around `start`, `storeRaw`, a write and `finish`; `cancelOrphanRun` |
| Providers, HTTP | `internal/providers/*`, `internal/httpx` | none but a rate limiter | fetch, bounded retry, parse |
| Daily cycle | `scripts/daily_cycle.py` | the cycle report file; an exclusive `flock` | `build_plan`, `_load_existing_report`, `run_cycle` |
| Paper ledger | `python/research/paper.py` (`LedgerStore`) | `account.json`, numbered event files, `ledger-manifest.json`, targets, decisions, reports | `initialize`, `append_event`, `events`, `rebuild_state` |
| Paper session | `paper.py`, `portfolio.py`, `risk.py`, `paper_cli.py` | derived from the ledger: cash, holdings, pending orders, halts | `run_paper_session`, corporate actions, settlement, valuation, decision, approval, report |
| Backtest | `python/research/backtest.py`, `backtest_inputs.py`, `strategies.py` | a run's cash, holdings, orders, fills and ledger in memory; one checkpoint file per session | `load_backtest_inputs`, `simulate_backtest` (actions, orders, marks, targets), checkpoint, resume |
| Results | `backtest_results.py`, `backtest_acceptance.py` | one directory of documents per run | `publish_backtest_result`, `read_backtest_result` |
| Historical truth | `internal/metadata/historical.go`, `migrations/000006`, `000007`; readers in `historical.py`, `fx.py` | bitemporal identifiers, calendars, memberships, listings, corporate actions | append with supersession; as-of reads |
| Research catalog | `catalog.py` | views over the parts that were committed at registration | register, `point_in_time_inputs`, `research_snapshot`, filings, exchange rates |
| Adjusted series | `adjustments.py` | one directory per decision, prices and selected actions | select actions, adjust, publish, read |
| Research workspace | `internal/metadata/research*.go`, `cmd/research`, `documents.py`, `evidence.py`, `events.py`, `workflow.py` | append-only revisions, reviews, hypotheses; content-addressed files | record, review, publish |
| Features | `features.py`, `market_momentum.py`, `fundamental_growth.py`, `macro_state.py`, `derived_artifacts.py`, `batches.py`, `cmd/feature-catalog` | one directory per artifact and per batch, their catalog rows | publish an artifact or a batch, read it back, register it |
| Experiments | `experiments.py`, `internal/metadata/backtest.go` | `spec.json` per experiment; experiment and result records | normalize, write, register |
| Forward record | `forward_record.py` | record of forward evidence | append, verify |
| Reconciliation | `internal/reconcile`, `cmd/reconcile` | none (read-only report) | compare runs, manifests and projections |
| Shell operations | `scripts/*.sh` | backups, locks | backup, restore, status, daily and market cycles |

### How they interact

```
        providers --HTTP--> collector --Put--> raw store
                               |  write           | manifest per run
                               v                  v
                      normalized store     FinalizeRun (hash of that manifest)
                               |                  |
                               v                  v
        research catalog, as-of readers       run catalog --> latest-only snapshots
              |                |
              v                v
   adjusted series     feature artifacts --> batches
              |                |
              v                v
   experiment spec + hash-pinned inputs --> backtest (checkpoints) --> result
                               |
                               v
           paper session --append_event--> paper ledger
   daily cycle: preflight, collection, reconcile, features, paper stages, backup, ...
```

No transaction spans two of the stores.  What keeps them together is an order: evidence
before rows, rows before the raw manifest, the raw manifest before the terminal run row,
and the projection in the same transaction as that row.  Within the file stores, order
and atomic renames stand in for transactions, and above them the only mutual exclusion
is the `flock` that the daily cycle takes: `make ingest`, `make paper-run` and
`paper_cli approve` take none, and `market-cycle.sh` takes another one.

### What is hard about it

* interleavings: two collectors on one run key or one partition, a finalization against
  an operator's cancellation, two paper commands on one ledger;
* crashes between any two file operations or between two stores, then a rerun;
* stale reads: a lookup before a cancellation, a manifest read before it is replaced,
  an event count taken before the event is written, a catalogue registered while
  collectors publish;
* time: what was true at a moment, what was known of it at a decision, and what was
  recorded when, in every read of the past;
* order: runs that finish in another order than they started, resumed daily cycles;
* data edges that steer control: rows whose file order is not their key order, an empty
  batch, equal timestamps, a fee above the proceeds of a sale.

`PROJECT.json` lists every hazard at its line with the properties that would catch it.

### What makes each part correct

| Part | Properties |
|---|---|
| Run catalog | one process per run key; terminal rows are final; the projection is the newest committed candidate and moves only with its run; failed runs published nothing |
| Normalized store | committed rows stay readable, unique by natural key and durable; what a call reported is committed |
| Macro series | the rows of a date are exactly the history the provider served; the projected revision exists |
| Collector | every bar has evidence; the projection shows committed rows; finished runs can be replayed; succeeded runs are complete |
| Daily cycle | commands follow their dependencies; recorded stages stay done; `passed` tells the truth; reruns complete the cycle |
| Paper session | fills are authorized; nothing but the loss of a sale overdraws; nothing is credited that was not debited; a report closes its session |
| Paper ledger | an idempotency key takes effect once; the manifest never runs ahead of the files; acknowledged events stay |
| As-of readers | an answer depends on nothing that was not known at its decision; superseded assertions never answer; a catalogue is complete or refused; an adjusted series has no artificial jump |
| Backtest | interruption leaves no trace; no look-ahead; the ledger explains every balance; an order settles once; purchases are covered |
| Publications | a published manifest can be relied on and is written once; an artifact is reproduced by what it pins; a refusal has a reason; an interrupted document can be collected again |

## 2. Modules

| Module | Role |
|---|---|
| `RunCatalog` | the catalog, one action per PostgreSQL transaction |
| `RunCatalogTx` | `FinalizeRun` statement by statement with row locks; refines `RunCatalog` |
| `RunCatalogProofs` | theorems about the two, and about `PriceCollection`, which implements `RunCatalog` |
| `CommittedTable` | abstract: an append-only table with unique keys and acknowledged rows |
| `NormalizedStore` | one partition, one action per file operation; refines `CommittedTable` |
| `NormalizedStoreProofs` | theorems about it under the lock |
| `MacroSeries` | revision numbering of `WriteEconomics` and the projection of its result |
| `MacroSeriesProofs` | theorems about it |
| `PriceCollection` | `collectPrices`, composed with `RunCatalog` (EXTENDS), the raw store and the table |
| `DailyCycle` | the runner, its report file, the commands' effects, crashes |
| `DailyCycleProofs` | theorems about it |
| `EventLog` | abstract: a log that only grows, with unique keys and acknowledged events |
| `PaperLedger` | `append_event`, one action per file operation; refines `EventLog` |
| `PaperLedgerProofs` | theorems about it under the lock |
| `PaperAccount` | sessions, orders, charges, approvals and reports over a ledger of events |
| `PaperAccountProofs` | theorems about it |
| `Historical` | the resolvers of `historical.py`: revisions, families, intervals, sessions |
| `MarketReads` | the queries of `catalog.py`, the fixings of `fx.py`, the factors of `adjustments.py` |
| `PointInTime` | readers that register and ask while collectors publish; EXTENDS `MarketReads` |
| `FeatureSets` | the four feature sets: selection, values, lineage, identity, manifest |
| `WriteOnce` | abstract: a registry of manifests, each written once and never altered |
| `Publications` | the publishers on one disk; EXTENDS `PointInTime` and `FeatureSets`; refines `WriteOnce` |
| `PublicationsProofs` | theorems about the readers and the publications |
| `ExperimentSpec` | what `normalize_experiment_spec` accepts |
| `BacktestInputs` | the loaded inputs and the point-in-time reads of the engine |
| `Backtest` | one session of the engine as an operator on the state of a run |
| `BacktestRuns` | commands, checkpoints, deaths, resumption and replaced inputs over `Backtest` |
| `BacktestProofs` | theorems about it |
| `MC*` | instances for TLC |

Operators whose comment begins with "Faulty variant" are never part of a specification:
each is what the definition after it would be with a plausible mistake, and is there to
show that the properties notice it.

### RunCatalog

`status` and `errorMessage` are the columns of one source's `ingestion_runs`, indexed by
run key (`"absent"`: no row); `snapshot` is the latest-only row per entity; `finalized`
is history.  `client` is the run a live collector process holds, `operator` the row a
person has looked up.  `StartRun` is the insert of `startRunSQL` with its `ON CONFLICT`
branch; `FinalizeRun` is the whole transaction: collapse to one candidate per entity,
guarded upserts, guarded UPDATE; `FinalizeRunFails` is every way it ends without a
commit, including the death of the process; `LookupRun` and `CancelRun` are two steps,
as in `cancelOrphanRun`.  `classify` is the function of that name.  A candidate is
reduced to its precedence fields, with times in microseconds, the precision both sides
keep.  The order of `CollapsesTo` is stated as a relation (a candidate none is newer
than) because the code's loop computes exactly that for a strict total order.

### RunCatalogTx

`tx` is the open transaction of each collector: the candidates, the rows upserted so far
and their new contents.  A row another transaction has written is waited for, which is
how PostgreSQL evaluates the WHERE of `ON CONFLICT DO UPDATE` on the committed row under
READ COMMITTED.  Two transactions can wait for each other; the database then fails one,
which is `Rollback`.  `CancelRunTx` and `StartRunTx` wait for the run row.  Nobody reads
uncommitted rows, so all of `RunCatalog`'s variables change at `Commit`.

### NormalizedStore

`disk` is the directory every process sees, `durable` the one a power loss is sure to
leave; `writer` is the write each process is in.  A write is: read the committed rows and
stage the new ones in a temporary file (`BeginWrite`), rename the part (`InstallPart`),
sync it and the directory (`SyncPart`), read the manifest again (`ReadPrevious`), write
and rename the new manifest (`InstallManifest`), sync the directory and return
(`SyncManifest`).  `StopWriter` is a dead process or an I/O error at any point;
`PowerLoss` makes the visible directory any directory between the durable and the visible
one.  A part is identified with its set of rows, since its name is the hash of its bytes;
every row carries the attempt that wrote it, since its `ingested_at` does.
`Serialized` says whether the collectors share a lock.  `validateManifest`'s comparison
of `row_count` with the parts is a guard of `InstallManifest`.

### MacroSeries

`parts` is the sequence of published parts of a series, `served` what the provider has
been saying (history).  `WriteEconomics` compares each observation with the latest
committed revision of its date, assigns the effective revision and publishes;
`WriteEconomicsRefused` is the error path when nothing is new and the committed rows do
not read back in key order.  Keys are compared as the text `economicKey` builds, so 10
comes before 9 (`TextBefore`).  `FinalizeRun` projects the batch; `StopRun` loses it.

### PriceCollection

`work` holds the locals of `collectPrices`, `raw` the stored responses, `table` the
committed bars, `manifest` the raw manifests.  One action per security and phase:
`CollectFails`, `StoreRaw`, `WritePrices` or `WritePricesFails`; then
`PublishRawManifest`, `Finish` (the `FinalizeRun` of `RunCatalog`, or its failure), and
`Die` at any time.  `Signal` cancels the context, after which every request and every Put
fails while `finish` still runs under `context.WithoutCancel`.

### DailyCycle

`report` is the file, `runner` the live process with its in-memory copy, its position and
whether it waits for a command.  `StartCycle`, `Resume`, `Skip`, `StartCommand`,
`FinishCommand` and `FinishCycle` follow the branches of `run_cycle`; `Crash` may
interrupt any of them, and the command that was running then had its effect or not.  The
only command whose effect matters to the cycle itself is the collection, which runs under
a pinned run key (`Collection`).

### PaperLedger

`files` are the numbered event files, `manifest` the ledger manifest, `process` the append
each paper command is in.  `AskForEvent` is the idempotency lookup, `NumberEvent` the
second reading that counts the events, `CheckPath` and `InstallEvent` the two halves of
`_write_immutable`, `ReadManifest` and `ListEvent` the manifest's replacement.  `Stop` is
a process that dies or raises.  An event stands for its id and hash.  `events()` is one
action although it reads many files: under the lock nobody else writes meanwhile, and
without it a torn reading raises, which `Stop` covers.

### PaperAccount

`ledger` is the sequence of events, `cash` and `held` the sums `rebuild_state` takes over
it, `targets` and `reports` the files of those names, `command` the live command: creating
the account, or a session with the orders it has read (their places in the ledger) and the
events it is about to append.  A session goes through `ApplyAction`, `ReadOrders`, `SettleOrder`,
`AppendValuation`, `Decide` and `PublishReport`; each computes its events as the code
does, before the first is written, and `AppendNext` writes one of them, finds it already
there, or raises because it differs.  An event is found again by its key alone (`SameKey`:
kind, session, bundle and security), which is what lets a rerun skip a conversion that was
begun with other amounts.  An order of quantity 0 is not booked, and a session whose value
is not positive raises.  A valuation is noted `"overdrawn"` when its `cash_base` is below
zero: `_validate_event` refuses such an event at every later reading (`Legible`), so the
command that wrote it raises and none begins after it.  `Halt` is the `except` branch for missing data,
`Raise` every other exception: the session ends without a report and can be run again.
`ApproveDecision` takes no part in this order: the operator may answer at any time.
`Die` ends a command between any two events.

What a strategy computes is the parameter `Plans`; of the rules of `assess_target` the
cash reserve is modelled, since it is the one that promises to pay for the orders, and the
others are the parameter `Refused`.  `Gaps` says which data an input bundle lacks, which
is what makes a session halt.  Exchange rates are 1 and slippage is 0, so amounts are
whole; the currency of every amount is kept.  `PaperLedger` shows what one append may
assume; here it is one step, and sessions are run one at a time (section 3, "Where the lock
ends").

### Historical and MarketReads

A row stands for an assertion or an observation with its instant of availability, its
revision and the instant it was recorded.  `CollapseRevisions` keeps, per family, the
rows nothing known outranks (`SelectLatest`), and refuses when they disagree; only then
are intervals compared with the moment asked about, so that a correction that ends an
interval silences what it corrects.  A query's `ORDER BY ... DESC` is a tuple compared
lexicographically, and `Qualify` is `QUALIFY row_number() OVER (PARTITION BY ...) = 1`.
Prices and factors are exact fractions.

### PointInTime

`manifests` are the committed parts by dataset; `view` is a catalogue that is being
registered, one dataset per step and in the order of `_DATASETS`: whether a dataset has a
manifest is looked at when its turn comes, and one without gets empty views.  The parts are
verified when all manifests are read.
`asked` is one question with its answer and what was known.  `Publish` lets a collector
commit a batch at any time, also one that became available long ago; `LosePart` and
`TearManifest` damage a file from outside, which registration must notice.  A behaviour
is about one `theme`: the datasets a question reads are what matters to it, and the
themes keep the others out of the state.

### FeatureSets and Publications

`FeatureSets` has, per family, what `select` takes, the values, the hash-pinned lineage and
the identity made of them.  A part is named by its content.  `disk` has directories, files
(`Torn` between creation and the end of the write) and temporary files; `pub` is the
command of each publisher.  A batch takes the partitions in order (`SelectPartition`,
`SkipPartition`), publishes each child like any artifact, reads it back (`AcceptChild`) and
installs its own manifest (`InstallBatch`).  Feature artifacts, batches and adjusted series
open a directory nobody else may have and write with `open("xb")` (`CreateFile`,
`FillFile`); documents and results link a temporary file (`WriteTemporary`, `LinkFile`,
`UnlinkTemporary`); a specification is written in place (`Overwrite`).  `Crash` and
`DiskError` may come between any two of these steps.

### ExperimentSpec, BacktestInputs, Backtest and BacktestRuns

`Session(spec, in, k, st)` is the body of the loop of `simulate_backtest`: `ApplyActions`,
`ExecuteOrders`, `Mark`, and unless it is the last, `Decide`.  Exceptions are reasons in
`halt`.  The reads (`PriceRow`, `MembershipState`, `FxRate`) look at the row's
availability as the code does.  `BacktestRuns` lets two commands run one experiment over
one checkpoint root: `Start` without checkpoints, `Resume` from the latest, `RunSession`,
`WriteCheckpoint`, `Finish`, a death between any two steps, and someone who replaces an
input file, which its hash then refuses.

## 3. Runs

| Run | Shows | Distinct states |
|---|---|---|
| `run_catalog_tx` | one owner per key, final terminal rows, the projection against interleaved finalizations, refinement of `RunCatalog` | 57,000 (with symmetry) |
| `normalized_store` | safety, durability and the abstract table under the lock | 8,000 (with symmetry) |
| `macro_series` | revisions, projection | 29,000 (with symmetry) |
| `price_collection` | evidence, projection, replay, completeness | 2.0 million |
| `daily_cycle` | dependencies, recorded stages, and liveness: reruns complete the cycle | 252,000 |
| `paper_ledger` | idempotency, the abstract log | 900 |
| `paper_account` | authorization, funds, debits before credits and closed sessions under crashes and late answers | 397,000 |
| `backtest` | transparent interruption, no look-ahead, the ledger, orders, funds, attribution | 38,000 (with symmetry) |
| `publications` | point-in-time answers and registration, adjusted series, and every publisher under crashes and disk errors | 899,000 (with symmetry) |

The other three runs each check one statement of the documentation that the code does not
meet; their counterexamples are the findings below.

### Why these bounds

Two collectors are enough for every race over a run key, a row or a partition, since each
race is between one who decides and one who acts in between.  Candidates include a pair
for the fields of the precedence order.  `NormalizedStore` has four attempts and three
keys: one to start a partition, two that race, one that collects again.  `MacroSeries`
has two dates whose numbers differ in length, so that text order and time order disagree,
and five runs, enough for A, B, A histories with a lost projection in between.
`PriceCollection` has two securities, two sessions and two runs, the second of which may
bring a revised bar.  `DailyCycle` has one account (four of eleven stages) and two
crashes, so that a resumed cycle can be interrupted again; more accounts only repeat the
chain.  `PaperLedger` has three keys: two that collide on a number and one more.
`PaperAccount` has a local and a foreign security and three sessions, which is what it
takes to buy, to hold over a corporate action and to sell; prices and cash are chosen so
that a conversion is needed, so that one order can be paid and a second cannot, and so
that a sale meets a delisting; in the last session a unit of the foreign security sells
for less than its charges, which overdraws an account that has spent all its cash.  The
account approves automatically and the operator
answers the first decision, before, during or after the policy does; sessions are run in
any order, and one command may die anywhere.  In `paper_account_charges` all answers are
the operator's.  Both use one input bundle.

`Backtest` has two securities, one of them foreign, and five sessions, enough to decide,
fill, hold over an action and sell; each market differs from a base case in one respect
(late, missing and revised rows, splits, dividends, delistings, conflicting rates, a session
that closes after the next, too little cash), under each strategy.  Only the experiments in `Shared` are run by two commands at once, since
what two commands do to each other does not depend on the market.  Experiments with misplaced partitions are there
to be refused.

`Publications` has a theme per kind of question and of artifact: a ticker that changes
hands, a listing that moves, a membership that is reversed, a session revised to closed,
revised observations of every dataset, a split and a dividend that corrections let change
places before the dividend is cancelled; and batches of two
publishers over prices, batches over three collections in time, documents retrieved twice,
results, specifications, and adjusted series.  Each has at most five batches of rows and
four instants, so that a row can be observed, become available and be recorded at
different ones.  One fault is enough: after it, the other publisher and the rerun meet
what was left.

Bounds in the modules: `MaxRuns` (MacroSeries, the number of collections), `MaxCrashes`
(DailyCycle, PaperAccount, BacktestRuns), `Plans` and `Answered` (PaperAccount, the targets
and the sessions whose decisions are answered), `Shared` (BacktestRuns), `MaxTime`,
`MaxDamage` (PointInTime: the clock, the files damaged), `MaxCommands` and `MaxFaults`
(Publications).  Everything else is bounded by the constants, because run keys, attempts
and idempotency keys are used once.

`CHECK_DEADLOCK FALSE` is set where everything that can be done may have been done: all
run keys used, the ledger or partition full or refused, the cycle's report not accepted,
the run of an experiment finished or refused, all commands used.

### Fairness

Only `CycleCompletes` is a liveness property.  It assumes that the operator goes on
running the specification (weak fairness of `StartCycle`), that a live runner goes on
(weak fairness of its steps), and that of commands which are tried for ever not all fail
for ever (strong fairness of some success).  The first two are how the documentation
tells the operator to recover; the third is a matter of the commands and not of the
script, and it is why a collection run that ended under the pinned key is an alternative
in the property.  So is a report left by a dead runner that no runner accepts, which is
finding 2.  Crashes are possible until `MaxCrashes` is used up.

### Findings

1. `price_collection_rerun`: bars written by a run that died are known to the retry,
   which therefore never projects them.
2. `daily_cycle_resume`: a retried stage is saved as running with its old exit code; a
   crash there makes the report unacceptable for ever.
3. `paper_account_charges`: fill, fee and tax are three events, and an order with a fill
   is skipped; a crash after the fill leaves the charges unpaid, and the session is valued
   and reported without them.

`PROJECT.json` quotes the sentence of the documentation each of them contradicts.

### States from which a person must help

The models have these states, and no run denies them.

* A crash between the rename of the first part of a partition and its first manifest
  (`internal/normalize/parquet.go:1795`): `ValidateExisting` refuses the partition at every
  later start.
* A collection with nothing new fails when a revision or a late observation has left the
  committed rows out of key order (`WriteEconomicsRefused`).
* A crash between an event file and the ledger manifest makes the ledger unreadable
  (`Readable` in `PaperLedger`).
* A session interrupted between its decision and its last order is taken as decided, so
  that the other orders, and the automatic approval, are never written (`Decide`).
* A feature artifact, a batch or a result interrupted after its directory was created, and
  before its manifest, is refused by every rerun (`features.py:1229`,
  `backtest_results.py:294`), although `batches.py:711` says that the rerun reuses what
  is left: TLC refutes `InterruptedBatchesResume` on the instance of `publications`.  Only
  the children that were finished are reused.
* A child that could not be written because the disk failed is recorded in the manifest of
  the batch as one its inputs refuse (`batches.py:784`); a rerun that succeeds has other
  children and conflicts with that manifest.
* A rerun under another commit of the code conflicts with what the first one published.
* A result whose writer died between linking and unlinking a file keeps the temporary
  file, and `read_backtest_result` refuses the directory.
* A document fetched again conflicts with its manifest, because the instant of retrieval
  is part of it.
* A specification is written in place (`experiments.py:581`): a death in between leaves a
  torn file that every later write refuses, and two writers may truncate each other's.
* An adjusted series stops validating when the raw prices of its security are collected
  again (`adjustments.py:793`), since it pins the manifest that collection replaces.

Two readings of the past are as the code has them and may surprise.  A correction that
changes `valid_from` begins a family of its own and does not supersede
(`historical.py:147`).  A trading session revised to closed does not withdraw the open
assertion (`historical.py:331`), so an after-close decision can be given a session the
calendar no longer has; `docs/adr/0007` asks for the latest assertion.

### After a death between two events

`_settle_orders` pays for a purchase in another currency with two events, `fx` and
`fx-credit`, before the fill.  What is left when the command dies between them is not
always what the rerun expects, and two statements of `PaperAccount` that one would like to
have are not true:

* `ConversionsAreComplete`, every debit of a reported session has its credit
  (`paper.py:1170`).  The rerun asks whether the order needs a conversion by the cash there
  is then.  With the sessions `FourSessions`, one foreign security bought in `Growing`
  amounts, the dividend `LateDividend`, 12 of cash, a fee and a tax of 1 and one death, the
  next session is run first, the dividend makes up for the shortfall, and the rerun fills
  the order without the credit.
* `ForeignCashIsCovered`, foreign cash is never negative (`paper.py:1179`).  The two events
  are keyed by the order alone.  With `TwoSessions`, two input bundles that decide the same
  session, `OneUnit` ordered twice, the same cash and charges, answers of the operator and
  two deaths, the rerun of an order takes the conversion for done although the other order
  has spent its proceeds.

Both are in no run; TLC refutes them on those instances of `MCPaperAccount`.  They came out
of the proofs: the induction stops where `AppendNext` skips an event that is already
recorded.  What does hold is `CreditsAreDebited`, always, and `OnlyLossesOverdraw`, which
claims foreign cash only while no command has died.

### A sale below its charges

`validate_paper_account` takes any minimum fee (`paper.py:460-469`) and `_settle_orders`
sells without a look at the cash, so a sale of cheap shares can cost more than there is.
The session is then valued with a negative `cash_base`, which `_validate_event` refuses: the
ledger cannot be read any more, by no session, approval, rebuild or reconciliation.  TLC
refutes `LedgersStayLegible` on the instance of `paper_account`; the run checks, and TLAPS
proves, that nothing but the charges of such sales overdraws (`OnlyLossesOverdraw`).

### Where the lock ends

`NormalizedStore` and `PaperLedger` are checked and proved with `Serialized` and `Locked`
TRUE, that is, for what runs under the daily cycle's `flock`.  The constants are there
because not everything does.  With `Serialized = FALSE` TLC finds that `publish`, which
reads the manifest and replaces it, can drop a part that another run has reported
(`ReportedIsCommitted`); with `Locked = FALSE`, that two paper commands can append the
same idempotency key twice (`EffectsHappenOnce`), since the search for the key and the
count of the events are two readings.  Both are listed as hazards.

Likewise the dependencies of `build_plan` are weaker than the order its list has: `backup`
depends on `preflight` only, so a cycle that is resumed takes it as done and runs paper
stages after it.  `DailyCycle` has the dependencies of the code.

## 4. Proofs

All theorems hold for every value of the constants that satisfies the modules'
assumptions: model values such as `None` lie outside the sets they are added to, and
candidates are records of naturals.

**RunCatalogProofs.**  For `RunCatalog` the inductive invariant joins types, `OneOwner`,
`Claimed` (a held key has a row), `ProjectionIsNewest` and `FailedRunsPublishNothing`.
Neither is inductive alone: ownership needs that a held key has a row, and the projection
needs that the precedence is a strict weak order, which is a lemma about
`snapshotIsNewer`.  The two action properties follow from the invariant and one step.

For `RunCatalogTx` the invariant adds that locked rows have one holder and that the
contents an open transaction has computed are what `UpsertSnapshots` would compute now
(`LockedRowsAreCurrent`).  With it `Commit` maps to `FinalizeRun` and everything else to a
step of `RunCatalog` or a stutter.

For `PriceCollection`, every step is a transaction of `RunCatalog` or leaves the catalogue
alone (`StepsAreCatalogSteps`), so `CollectionSpec` implements `RunCatalog` and keeps its
theorems.  The properties relate three stores that no
transaction spans; what connects them is the memory of the live process, and the invariant
says what that memory stands for: what it has stored, accepted and published is in the
stores, and the table has no bar of its run beyond it (`WorkIsRecorded`), as long as the
run is the process's or was taken by an operator (`StillOwned`).

**NormalizedStoreProofs.**  Assuming `Serialized`, at most one write is in progress, and
the invariant says what each of its phases may rely on (`PhaseInv`): the base it read is
still the manifest, its new rows have new keys, and a part that will be listed is durable
before it is listed.  From it follow readability, durability, and the refinement of
`CommittedTable`.

**PaperLedgerProofs.**  Assuming `Locked`, the same shape: one append in progress, and per
phase how far the files are ahead of the manifest.  The difficult state is the one a crash
leaves, one file more than the manifest lists; the invariant keeps it because no append
can begin there.

**MacroSeriesProofs.**  The rows of a date are the positions of its history
(`RevisionsTellTheHistory`), so the row `latestEconomic` chooses is the last one and a
value is a change for the writer exactly when it is one for the history.  The projection
needs one more fact, about the run between its write and its finalization: what it holds
is the newest revision of its date (`InFlightIsNewest`), since nobody else writes
meanwhile.

**DailyCycleProofs.**  What a report records as passed has been done (`Sound`), the
runner's copy remembers all that the file records (`Remembers`), and a runner waits for a
command whose dependencies are done (`WaitsRightly`).  The plan itself is arithmetic over
the accounts: that every dependency of a stage stands before it is proved for any number
of accounts.

**PaperAccountProofs.**  The invariant has the ledger's part (the notes of its events, orders of
approved decisions only) and the live command's: the
events it is about to append fit together and belong to one order (`QueueFits`), the orders
it has read are approved (`OrdersAreApproved`), and its queue can be paid from the cash it
was computed with (`CanPay`), which still holds when it is appended because the only events
that come in between are the operator's answers.  The difficulty is `AppendNext`, which
skips what is recorded: `ConversionsInHand` says why, as long as no command has died, a
conversion found in the ledger is not of a settlement that begins.

`OnlyLossesOverdraw` assumes nothing of prices and charges.  `_settle_orders` compares the
cash with the cost of purchases only, so a sale may cost more than it brings in, and cash may
fall below zero; the property says by how much at most, the charges of such sales in the
ledger (`Uncovered`, per currency).  What is needed for it is a bound of the cash that counts
a losing sale from its fill on, although its charges come after: `BaseReserve` and
`ForeignReserve` are the cash with that allowance and never fall below zero (`ReservesHold`).
A settlement moves them down by no more than it may spend, a losing fill raises the
allowance by what its charges will take (`UncoveredGrows`), and the events that are no fills
leave it alone (`ReservesStay`).  The allowance is a number of places in the ledger, hence a
natural number (`UncoveredCounted`).

The types, `HistoryDoesNotDisplace`, `FailedRunsPublishNothing`, `LockedRowsAreCurrent`,
`CommittedIsKept`, `ListedEventsAreThere` and `PassedCycleRanEverything` are proved and part
of no run.

**PublicationsProofs.**  The readers are proved once, under `Next`, and again for the
publications, whose every step is a reader's step or leaves the readers alone
(`PublicationsImplementReaders`: `StartBatch`, which takes the registered catalogue over, is
a `GiveUp`).  A manifest tells the number of its rows; the invariant `ReaderInv` says that
this number is the rows of its parts and of the parts lost with it, and that no part is
empty (`CountsTell`), so a manifest whose count matches has lost nothing and the catalogue
that is registered from it is complete.  `ViewLosesNothing` carries this through a
registration that reads one manifest after the other while the collector goes on: what was
committed when it began is in the view or in a manifest still to be read.  That an answer
depends on known rows only is a lemma per kind of question (`SameAnswer`): the rows beyond
the decision change neither what is selected nor whether it is refused.
`SupersededNeverLeaks` needs no invariant, it holds of the resolvers over any rows.  The
assumption `BatchesAssumption` says that batches are finite and not empty and that their
rows have a key, a revision and the instant they became available, which are numbers: what
`Publish` of the Parquet store refuses otherwise, with a key that stands for the place of the
row in the order of the store.

On the disk, the invariant `PubInv` says that what each publisher is about to do fits its
job (`Fits`: the manifest is the last file, its directory is one of the family), and that a
publisher of a feature artifact, a batch or an adjusted series that is writing is alone in
its directory, which has no whole manifest yet (`DiskInv`).  Then every step gains at most
one manifest and alters none (`Gains`), which is `WriteOnce`; the delicate step is the
failed write of an adjusted series, which removes a directory, and the one of a file
created in place that another publisher meets.  Documents and results need no exclusion:
their files appear by a link and stay.  `SharedInv` says that a file of a document is named
by its content (`NamedByContent`), that who links a file has linked or found in place all
before it (`Progress`), and that a whole manifest has its files (`ManifestsHold`).

Artifacts, batches and adjusted series have one writer, and `OwnedInv` says what follows.
The publisher that made such a directory has laid the files before the one it is at and no
other file is there (`Laid`); a whole manifest has exactly its files and is what its readers
demand (`Sealed`).  Two things have to be known before the manifest is written.  The one of
an artifact is valid because the selection is not empty, looks at nothing after the decision
and pins the parts of its rows (`PinnedHolds`, `ManifestHolds`).  The one of a batch is valid
because the batch accounts for each partition of its request once, as to be done, accepted
or rejected (`OnceEach`): then its counts add up (`BatchManifestHolds`).  Its children stay
readable because an accepted child is whole (`ChildAt`) and no step touches a directory of one
writer but the step of that writer (`Touches`, `LeftAlone`); a publisher that found the child
published reads it before anybody could open the directory again (`Finished`, `Unwritten`).
Every step is an instance of `OwnedStep`.  The delicate ones are the failed write of a child,
which leaves a torn file in its directory and is taken for a rejection, and the cleaning up
of an adjusted series.

`ArtifactsAreReproducible` compares a manifest with a computation over other parts than the
publisher read, so `RootedInv` names the parts that count.  An artifact is `Founded` on the
parts it had rows of: its directory pins their names, and the selection over those parts
alone, the features and, with the commit, the manifest are those it has (`Rebuilt`).
That a selection stays the same when parts it has no rows of are left out is the lemma
`SelectedFewer`: the query keeps the first row of each key, and the first of a
finite set in a strict order is still the first of any subset that has it (`ExceedsIsStrict`,
`ExceedsIsTransitive`).  Names stand for parts because no two committed parts have a row of
one key (`NamesTell`), and a committed part stays one when its manifest is damaged, so
`RootedInv` outlives everything the store does (`RootedGrows`).  `ConflictsAreExplained`
follows for artifacts: two that are founded on parts of the same names are founded on the same
parts, so with one commit they have one manifest (`SameArtifact`).  A batch records its
request by its identity, and the number of its partitions is that of its children and
rejections (`SameBatch`).  In both cases the manifest that is found is readable, by
`OwnedInv`, so nothing is left to refuse.

`SnapshotsAgree` compares the two readers of the observations, whose queries order the
revisions of one observation by different keys: the snapshot by revision, then availability,
`point_in_time_inputs` by availability, then revision, then vintage.  The theorem holds
whenever `RevisionsInOrder` does: the macro rows are of the one series the query filters,
every further row of an observation has the next revision (`WriteEconomics`), revisions become
available in their order, and a vintage is not later than the availability (`bcb` and `fred`
set both to the instant of the download).  `MCPointInTime` has TLC evaluate it.  Then the keys
say the same of two rows of one observation (`SameOrder`), one row of each observation is kept
because what is committed is finite (`QualifiedAbove`, `CommittedOfTheme`), and the newest of
those kept is the newest of all (`NewestQualifies`).  That the fundamental row is one of the
inputs needs no hypothesis: a newer report of one period is a newer report
(`FundamentalAgrees`).

`SeriesAssumption` says what the order of the query needs: the vintage of a macro row is
absent or a number, and the rows of one fundamental series are of one concept and one fiscal
period, which the `PARTITION BY` of `catalog.py` lists.
`RequestsAssumption` and `ResultFilesAssumption` say that no requested bytes are the mark of
a torn file, that a batch is of a feature set the code knows and has finitely many instants
and securities, and that no result file is called like the manifest.

**BacktestProofs.**  `ResumeIsTransparent` says that what a command holds is what a run
without interruption would hold.  `After(e, k)` is that state, the fold of `Session` over the
first k sessions; the invariant `RunInv` says that a command that goes on after k sessions
holds `After(e, k)` and that checkpoint k is the document of it.  Three facts carry it.
A session is a fold of folds (actions, due orders, new orders), and what a fold computes is
induction over data: instead of the library's theorem, which takes an operator, each fold
gets a trace of its intermediate results from the well-foundedness of the naturals
(`NatInduct`, `FoldTraced`, and `AfterNext`, one more session).  A checkpoint leaves out the
reason of a halt, so restoring is exact only if the state has exactly the fields of a state
and has not halted: that is `IsState`, proved of every step of a session (`SessionShape`).
Last, two commands that reach the same session write the same document, so none meets a
conflict.

`OrdersSettleOnce` then is a property of `After(e, k)`.  `OrderInv` says it with the places
of the sessions: the orders of session j are due at session j + 1 and those that are proposed
are those of the last session (`Timely`), the others have one fill of their quantity or are
counted as rejected (`BookOK`).  The fold that executes the orders due keeps `BookOK` with a
set of proposed orders that shrinks (`ExecutionKeeps`), the fold of the decision lets it grow
(`DecidesKeeps`).  That places are dates needs a calendar with one row for a date, which
`Admitted` has checked of the files when a command began and `ParsedInv` remembers, and that
`Sorted` enumerates a set in order (`SortedEnumerates`).

`LedgerExplainsBalances` and `BuysNeverOverdraw` are properties of `After(e, k)` too.
`AccountOK` says of a state that has not halted that each balance and each holding is the sum
of the rows of the ledger for it (`Accounts`), that orders name a security, a currency and a
quantity, and that a balance is below zero only after a sale that cost more than it brought
in (`Solvent`).  One more row adds what it says to the sums it belongs to and nothing to the
others (`RowKeepsAccounts`, from `TotalMore` over the sums of the model); an action, a
conversion, a fill, a mark and a rejection change balances and holdings by what their rows
say (`ActionAccount`, `FundAccount`, `FillAccount`, `MarkAccount`, `RejectAccount`).  The
hard step is a fill: a conversion takes the quotient of an amount and a rate, so what it
leaves of the base currency and what it brings in have to be compared with what
`_max_affordable_quantity` found affordable (`FundedFor`).  Prices and rates have to be above
zero for that and an action must not appear twice; the parsers check both (`Sound`), and
`ParsedInv` remembers it.

`NoLookAhead` compares the run with another one, over the inputs of an earlier day.  Up to
that day the two read the same prices, memberships and rates (`MarketIsTheSame`), but they
do not read the same actions: one of the past that becomes available late is seen by the
first alone.  So the states are not equal, they are `Twins`: equal except for the list of
processed actions, in which they agree on the actions both know.  Each step of a session
takes twins to twins (`TwinsFill`, `TwinsMark`, `TwinsDecide`, and so on); the work is in
`TwinsActions`, where the two fold over sequences of different lengths.  The events both know
come in the same order in both (`EventsOrdered`), and the others change nothing but the
list, since `_apply_actions` stops the run over one for a security that is held
(`LateAction`, `Abreast`).
The day is the latest close so far (`LatestClose`), not the close of the session: TLC
refuted the latter with a calendar whose sessions overlap, which `_calendar_rows` accepts
(it checks that a session closes after it opens, and of two sessions only that their dates
differ).  The run
`backtest` keeps such a calendar (`Overlapping`).

`CostsAreAttributed` compares two ways of adding up.  `CostsOK` says that what a run has spent
is the sum of the costs of the dates of its sessions: a fill adds the same amount to both
(`Spends`), every other step of a session leaves both alone (`SameCosts`).  The report adds
up by partition.  Every session has one mark and every mark one partition, so the dates of
the partitions divide those of the run, and the fills, which are on its dates, are divided
with them (`PartsDivide`); a sum over the parts of a set that is divided is the sum over the
set (`TotalOfParts`).

The assumptions are that securities, currencies and inputs are finite, that dates,
instants, ids, prices, rates and charges are whole numbers, and that the currencies and securities a
document names are among `Currencies` and `Securities` (`SecuritiesAssumption`,
`CurrenciesAssumption`, `SpecsAssumption`): what an experiment and its inputs are as
documents.  What a parser may refuse, such as a price of zero, is not assumed.

Only model-checked: `AdjustedSeriesIsFlat` of the readers, which is about what a fold over
the actions of a security computes, and all liveness (the prover has no rule for fairness and
ENABLED).  No module has a RECURSIVE operator, so that all of them can be proved about.

## 5. What is abstracted or left out

* Values: decimals, dates, currencies and their validation.  A row is its key, its value
  and its attempt.  In `FeatureSets` and `MarketReads` values are exact fractions: the
  rounding of `Decimal` and the square root of the volatility are left out.
* In `Backtest` quantities and prices are whole numbers, splits are those with whole
  results, and the instances choose prices whose charges are exact.  The estimators of
  `_metrics` (Sharpe ratio, volatility, turnover ...) are left out; total cost, drawdown and
  attribution are there.
* The bars of the feature sets' windows are constants, the sessions of the momentum
  strategy's parameters; both are small here.
* DuckDB is what its queries return; hashing is equality of content.
* Directory durability above the partition: `MkdirAll` never syncs the parents it creates.
* `Put` and `Get` of the raw store; a Put is one step here.
* Statement failures of PostgreSQL are one action, `Rollback`, and so is a deadlock of two
  finalizations that lock rows in different orders.
* A failed write of an adjusted series removes its directory in one step, where the code
  unlinks file by file (`adjustments.py:737-739`); a death in between leaves what a death
  during the writing leaves.
* Years are of one length in the macro features (`PriorYearMacro`); the code matches the year
  and the month.
* A command of the daily cycle is one step; a killed runner's child is not followed.  A
  collection run that ended under the pinned key needs a new specification.
* Paper files are written without fsync: power loss is not modelled for the ledger.
  `initialize` interrupted after `account.json` leaves an account without a deposit, which
  `PaperAccount` has and nothing repairs.

### Not modelled

`PROJECT.json` names the parts without a module and the reason for each.  They are of
three kinds: conversions without state (providers, the market calendar, configuration),
reports that only read (reconciliation, data fitness, acceptance, forward record, quality),
and tables that PostgreSQL keeps append-only with one INSERT per command (historical truth,
research workspace, experiment, feature and account metadata), whose files are modelled.

## 6. Plan

1. `PaperAccount` with `PaperLedger`'s appends in place of its one-step ones, and a run of
   it with two input bundles.
2. The file operations of `Put` and `Get`, composed with `PriceCollection`.
3. Backup and restore against a concurrent ledger; the registration of accounts,
   experiments and features in PostgreSQL.
