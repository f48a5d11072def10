# Verification of the Deriv data pipeline

TLA+ models, TLC runs and TLAPS proofs for the pipeline in `src/`: daily files
and a change log from a source system become a Kimball star in PostgreSQL, in
three layers (`raw`, `staging`, `warehouse`) with a `quarantine` beside them,
run by Airflow.  The part that is hard to get right is the versioned client
dimension `warehouse.dim_client_risk_snapshot`: four loads written at different
times append to it, close, reopen and delete its rows, while the facts hold
foreign keys into it.  That part is modelled in most detail: row by row, then
statement by statement with the loads interleaved.  Around it stand models of a
feed from file to reconciliation and of the deployment from migration to daily
runs.

## The system

| Component | Code | State | Operations |
|---|---|---|---|
| Client risk history | `sql/01_dimensions.sql`, `sql/03_cdc_apply.sql`, `sql/04_backfill_reset.sql` | version rows per client, keyed by `(client_id, source_lsn)`; watermark per client | `apply_cdc_event`, `resolve_risk_snapshot_key`, `reset_client_for_reload` |
| CDC apply | `layer3_warehouse.py: scd2_apply` | none of its own; advisory lock per client | select staged rows above the watermark, apply them in file order |
| Baseline seed | `layer3_warehouse.py: scd2_baseline_seed` | none | lsn-0 row per known client, repoint facts off stopgaps and delete those |
| Fact load | `layer3_warehouse.py: fact_upsert` | `fact_deposits`, `fact_trades` | resolve keys at the event date, allocate a stopgap, upsert |
| Historical reload | `reload.py`, `cdc_historical_reload.py` | none | repoint facts, reset, replay, re-resolve, per client, in one transaction |
| Layer 1, layer 2 | `layer1_raw.py`, `layer2_staging.py` | `raw.*`, `staging.*` | upsert every row of every file; type, alias, flag |
| `dim_client` | `layer3_warehouse.py: dimension_upsert, _resolve_client_key` | one row per client, columns owned by two sources | owned-column upsert, inferred member |
| Orchestration | `dag_factory.py`, `bootstrap_warehouse.py` | DAG runs and task states (Airflow) | task chains, two sensors, retries |
| Data quality, reconciliation | `dq.py`, `reconcile.py` | check results, discrepancies | log, quarantine, replace a run's rows |
| Migrations | `migrate.py` | `schema_migrations` | apply what is missing, in order |
| Dimensions by value, configuration, connections | `dims/`, `config.py`, `db.py`, `common.py` | fixed rows; none | upserts; parsing; I/O |

They interact only through the database: each task opens a connection, runs one
load and commits or rolls back (`dag_factory.py`, `_run`).  The layers are
joined by upserts from one table to the next; the loads of layer 3 share the
history rows, the watermark and the facts' foreign keys, and take per-client
advisory locks that not all of them share.

What is hard, and what must hold in spite of it:

* *Order.*  A client's changes are applied in the order of the file, which is
  not that of their lsns.  The watermark alone decides.  Versions must still
  tile time and say what their events said.
* *Crashes and re-runs.*  Every daily run offers everything again.  An event
  must be applied once, and be recorded or quarantined, not lost.
* *Late knowledge.*  A fact may come before any version of its client, a
  baseline after stopgaps, a change after its successors were applied, a
  correction after its change was.  Foreign keys must follow.
* *Undoing history.*  A reload deletes versions facts refer to and rebuilds
  them.  It must lose nothing, leave other clients alone and be repeatable.
* *Concurrency.*  `scd2_apply` reads before it locks, the seed does not take
  its lock, the reload takes the same locks in another order.  What commits must
  be what some serial order could have committed, and nobody may wait for ever.
* *Redelivery.*  Vendor files come late, drifted, again and in any order; flags
  must stick, and reports must say what happened and correct themselves.
* *Liveness.*  The sensors must eventually let their DAGs run, and what is
  delivered must reach the warehouse through failed tasks and wrong orders.

`PROJECT.json` lists these hazards at their lines, with the properties that
cover each, and the components with what is left out of each.

## Modules

| Module | What it is |
|---|---|
| `SnapshotTable` | one client's history as a value: a function from `source_lsn` to the version row, and an operator for each SQL statement on it |
| `WarehouseLoads` | EXTENDS it: the loads as transactions over histories, watermark, quarantine and facts, one at a time; properties and the inductive invariant |
| `ClientTimeline` | the abstract specification: what each load may do to the timeline of versions, marks and pins, without rows or transactions |
| `WarehouseTimeline` | EXTENDS `WarehouseLoads`: INSTANCE of `ClientTimeline` with the committed tables as the mapping |
| `ConcurrentLoads` | EXTENDS `SnapshotTable`: the same loads as interleaved READ COMMITTED transactions with their locks |
| `VendorFeed` | the vendor's deposits: delivery, landing, staging, checks, facts, reconciliation |
| `Migrate` | concurrent calls of `run_migrations` |
| `Orchestration` | EXTENDS `Migrate`: deployment, bootstrap and two table DAGs with their sensors over `dim_client`, the derived dimensions and the kinds of versions a client has |
| `MCWarehouseLoads`, `MCConcurrentLoads`, `MCVendorFeed`, `MCDeployment` | the instances for TLC |
| `WarehouseInvariants` | EXTENDS `WarehouseTimeline`: the inductive invariants `LogInv` and `LoadsInv` of `WarehouseLoads` |
| `SnapshotTableProofs` | lemmas: what each operator on a history preserves |
| `WarehouseLoadsProofs` | types, `IInv`, and what follows from it |
| `WarehouseLogProofs` | `LogInv`: histories, watermarks and foreign keys against the log |
| `WarehouseStepProofs` | `LoadsInv`: what each committed load has done |
| `WarehouseTimelineProofs` | the refinement of `ClientTimeline` |
| `ConcurrentLoadsProofs` | types, locks, histories and facts of interleaved loads |
| `VendorFeedProofs`, `OrchestrationProofs` | the feed; the deployment and the migrations |

The four models divide the system by what has to be fine-grained.  A row of the
history is an object of `WarehouseLoads` and `ConcurrentLoads`; in
`Orchestration` a client merely has or has not a stopgap, a baseline and applied
changes, and a load is one step, which is what the other two show it may be
taken for except where `seed_race`, `stopgap_race` and `overlap` say otherwise.
`VendorFeed` knows of a fact's keys only whether one of them cannot be resolved.

## The loads, one at a time: `WarehouseLoads`

### Variables and code

| Variable | Code |
|---|---|
| `file`, `line` | `data/client_profile_changes.jsonl`: which changes it holds, in which revision and order |
| `raw`, `staged` | `raw.` and `staging.client_profile_changes`; a number is the revision of the image held |
| `profile`, `stagedFacts` | `staging.client_profile`, and the staging table of a fact source |
| `snap` | `warehouse.dim_client_risk_snapshot`, client by client |
| `wm` | `warehouse.cdc_watermark`; `NoWatermark` for no row |
| `quar` | `quarantine.rejected_rows`, counted per reason and event |
| `fact` | `risk_snapshot_key` of each loaded fact; the lsn stands for the surrogate key |
| `db` | the last four as committed |
| `job`, `todo`, `left`, `pending`, `client`, `temp`, `window` | which load runs and its local variables: fetched rows still to do, facts to load or re-resolve, clients to seed or reload, the client being reloaded, the placeholder (`created_temp_key`), the date range |

Each load begins with the `SELECT` that fixes its work list, handles one row per
step and ends in `Commit`, `Crash` or an exception.  `Crash` is enabled at every
step, so every prefix of every load is a rollback point.

| Action | Code |
|---|---|
| `Deliver`, `Redeliver`, `LandLayer1`, `StageLayer2`, `StageProfile`, `StageFact` | the source and the first two layers |
| `BeginApply`, `ApplyRow` | `scd2_apply`: semi-join filter, delete guard, `apply_cdc_event` |
| `BeginSeed`, `SeedClient`, `BeginOrphans`, `SeedOrphan` | `scd2_baseline_seed`: the profile clients, then the orphans |
| `BeginFacts`, `LoadFact`, `LoadFactOnStopgap`, `LoadFactRaises` | `fact_upsert` through `_resolve_risk_snapshot_key` |
| `BeginReload`, `ResetClient`, `ReplayRow`, `ReresolveFact`, `FinishClient` | `historical_reload`: repoint and reset, replay by lsn, re-resolve, delete the placeholder |
| `Commit`, `Undo`, `Crash` | `_run` and `_run_reload` |

### What is abstracted

* One transaction at a time, and the first two layers move only between
  transactions.  `ConcurrentLoads` lifts the first.
* Business columns are one value that says where they were copied from: which
  event and which revision of it, the profile, or the literals `'unknown'`.
  `account_status = 'deleted'` is `is_deleted`.
* `Facts` are the rows of one fact source; a fact's client and date are fixed.
  A reload moves the facts of all sources, which is what it does for one.
* A corrected redelivery changes the image, not op, client or commit time.
* Where SQL takes one of several rows without an `ORDER BY` (the version
  covering a date, the doomed row whose columns the placeholder copies, the
  order of staged facts and of seeded clients), the model takes any.
* Quarantine counts stop at two (`Many`); no other counter is bounded by a
  guard.  All else is finite because the change log is.

Assumptions on the constants are named in `WarehouseLoads`: lsns are positive
and finitely many, a log entry has a client, an op and a commit time before
`Forever`, and a client's changes commit in lsn order (`CommitOrderAssumption`).
The last one is used once (see Proofs), and no other assumption restricts arrival.

### The abstract specification

`ClientTimeline` knows of a client only which versions are recorded, up to which
lsn its changes have been taken in, and which version each fact is pinned to.
`Append`, `SeedBaselines`, `PinFacts` and `Rebuild` say what an apply, a seed, a
fact load and a reload may do, each for all clients in one step: an apply adds
above the mark only; a seed puts a baseline only where there are no changes; a
reload starts at a change, loses no version and touches no fact pinned below.
`ImplementsTimeline` maps `recorded`, `mark` and `pins` to the committed `db`, so
a transaction is a stutter until it commits, and a rollback one throughout.  It is
checked on an instance and proved for all.

## The loads, interleaved: `ConcurrentLoads`

Each of `Loads` is one transaction, run at most once.  `db` is what is committed;
`own[t]` the uncommitted rows, marks and pins of load `t`; `at[t]` its next
statement or how it ended; `job[t]` its cursors and local variables; `locks[t]`
the advisory locks and `FOR UPDATE` rows it holds besides what it has written.

A statement sees `db` overlaid with `own[t]` (READ COMMITTED).  `Wants(t)` is
what its next statement has to lock or would conflict with, `Holds(t)` what it
keeps others from, and a step is enabled when nobody else holds what it wants.
`BreakDeadlock` is PostgreSQL's own check, run by a waiter that finds itself in a
cycle.  Statements that nobody else's commit can come between to any effect are
one step.  Those that one can come between are steps of their own: a fact load's
check for real history (`LockStopgap`, under a lock that applies and seeds do not
take), its choice of an lsn (`AllocateStopgap`) and its insert.  A statement that
waits on rows is two, because its snapshot is taken before the wait and its effect
comes after: the reload's `DELETE` (`LockForReset` fixes the rows, `Reset` deletes
those and recovers from the rest) and the seed's (`InsertBaseline` reads the
stopgaps, `DeleteStopgaps` deletes these).

`apply_cdc_event`'s three statements are one step.  Applies and reloads of the
client are kept out by its lock, fact loads only add rows below; a seed, which
takes no lock, can commit its baseline between the end-dating and a tombstone's
copy.  The copy takes the newest row, which is the baseline's only if the client
had nothing but stopgaps: then the tombstone has the profile's columns in place
of `'unknown'`, and the two current rows are those of `seed_race`.

| Action | Code |
|---|---|
| `BeginApply`, `LockEvent`, `RejectStale`, `ApplyEvent` | `scd2_apply`: SELECT; lock, guard and `FOR UPDATE`; `apply_cdc_event` |
| `BeginReload`, `LockForReset`, `Reset`, then `LockEvent` ... | `historical_reload`, clients in order of id |
| `BeginSeed`, `CheckHistory`, `InsertBaseline`, `Repoint`, `DeleteStopgaps`, `BeginOrphans` | `scd2_baseline_seed` without an advisory lock |
| `BeginFacts`, `Resolve`, `LockStopgap`, `AllocateStopgap`, `InsertStopgap`, `PinFact` | `fact_upsert`: lookup; lock and check; `MIN(source_lsn) - 1`; insert and second lookup; the fact |
| `Commit`, `Crash`, `BreakDeadlock` | the end of a transaction |

The file may name a client's changes in any order (`Line`), and a reload may begin
at any of them (`ReloadFrom`).  Lsns of deleted stopgaps are used again, surrogate
keys are not: a key that a load has looked up is dropped from its `keys` when
another commits the deletion of its row (`KeysLeft`), and pinning a fact to it
fails on the foreign key.  Left out here, since `WarehouseLoads` has it: reloads of
clients with facts, and redelivery.  PostgreSQL (visibility,
row locks, deadlock check) is modelled from how the code relies on it and marked
external.

## A feed from file to report: `VendorFeed`

| Variable | Code |
|---|---|
| `source` | the CSV files in `data/`; a file's name holds its delivery date |
| `raw`, `staged`, `fact` | `raw.vendor_deposits` by file, `staging.vendor_deposits`, vendor rows of `fact_deposits` |
| `internal` | keys of the internal rows of `fact_deposits` |
| `uncovered` | deposits not yet loaded whose client has change history, and no version of their date |
| `task`, `again` | the DAG run's next task, and whether it repeats the last `run_id` |
| `log`, `quarantined` | `dq_check_results` of the last two run_ids, execution by execution, and what the last one put into quarantine |
| `reading`, `left`, `discrepancies`, `logged` | `run_reconciliation` between its two SELECTs, and its results |

A task is one step, as it is one transaction and no other DAG writes these
tables.  A reconciliation is two, for its two SELECTs see different commits.  A
row's date, status, amount and whether its header drifts are what is told apart:
staging keeps a deposit's first date and amount and takes a later status (its
update columns), late arrival is file date minus event date, flags are OR-ed,
checks count amounts.  `staged_at` is left out.  Great Expectations enters as
checks that count rows.

`fact_upsert` looks up a version for every staged row and raises for one that has
none while its client has change history (`layer3_warehouse.py:94`).  Which
deposits are exposed to that is a constant (`Exposed`); `ApplyFirstChange` is the
apply that exposes one, `Backfill` the decision that the error message asks for,
which nobody need take.  While a staged row is uncovered (`Blocked`) the task
raises every day (`LoadRaises`) and no other row gets through either.

## The deployment: `Migrate` and `Orchestration`

`Migrate` has a call's steps one by one (`CREATE TABLE IF NOT EXISTS`, the wait in
the catalogue behind another's uncommitted creation, the advisory lock, file
after file, commit or rollback) for any number of callers, over files that are
edited.  A file's checksum and text are read as one step.

`Orchestration` starts with it: `airflow-init` and a developer migrate, then the
scheduler goes live (`StartScheduler`; a bound: at a moment when no call is under
way and no file is edited, which nothing afterwards reads).  `todo` holds the
tasks a DAG's run still has to end; a task whose predecessors have succeeded is
tried, and fails with all downstream when its code would raise (`Raises`: no
file, no manager, an instrument without `asset_class`, one without a row, a date
without version) or its sensor would time out, or when its worker dies.  No task is
retried; the next run starts anew.

| Action | Code |
|---|---|
| `StageClientSignup` ... `UpsertClientProfileAndSeed` | the tasks of `bootstrap_warehouse` |
| `PassSensor` | `wait_for_dim_instrument`, `wait_for_scd2_baseline` |
| `LandLayer1`, `StageLayer2`, `LoadTrades`, `LoadChanges` | the tasks of `table__client_trades`, `table__client_profile_changes` |
| `Trigger`, `Fail`, `Die` | the scheduler; a raise or timeout; a lost worker |
| `Amend`, `Record` | the static files gain or amend a client, the feeds a line |
| `Configure` | an instrument gains its `asset_class` in `dim_instrument.yml` |

`build_dim_date`, `bootstrap_complete` and `run_dq_checks` change nothing that is
read here and are left out, so `load_layer3` follows `stage_layer2`.  A trade is
dated before its client's first change, or on the day of it, or is not (`early`):
an early trade needs a baseline or a stopgap, and raises for good where the client
has changes and neither (`Resolvable`).  The change log has no deletes here and
its file is in lsn order.  `table__client_signup` and `table__client_profile` have no
schedule and are not composed.

## Runs

| Run | Instance | Checks |
|---|---|---|
| `known_client` | one client, log update, delete, insert; a profile row; facts before and after; reload windows over the head and the tail of the log | `TypeOK`, `CurrentIsNewest`, `RealVersionsTile`, `VersionsMatchTheLog`, `WatermarkIsNewestVersion`, `ReloadNeverRaises`, `FactsHaveRows`, `ImplementsTimeline`, `NoVersionLost`, `WatermarkNeverBack`, `ReloadedFactsInEffect`, `LoadedFactsInEffect` |
| `two_clients` | two clients, one updated, deleted and registered again, the other registered by the log; the first change corrected later; a window that starts after the tombstone | `StaleQuarantinedOnce`, `SelectedIsAccountedFor`, `SeedClearsStopgaps`, `ReloadLeavesOthersAlone`, `ReloadRecordsTheLog`, `ReloadIsRepeatable` |
| `concurrent` | an apply, a reload, a seed and two fact loads, any three at a time, over three clients | `TypeOK`, `CommittedHistoriesSound`, `WatermarksNeverCollide`, `StopgapsNeverSwallowed`, `NothingMissed`, `CommittedFactsInEffect`, `EveryLoadEnds` |
| `vendor_feed` | two files, the later one delivered twice, two deposits, one of them with a CRITICAL failure and exposed to a missing version, two checks, runs and reconciliations without end | `TypeOK`, `NothingLoadedUnchecked`, `RegressionsAreReal`, `CountsMatchDiscrepancies`, `StagingIsOrderFree`, `LateStaysLate`, `EveryDeliveryLoaded`, `ReportsSelfCorrect` |
| `deployment` | two migrating callers; a client known before the log, one onboarded later who trades and is registered by the log in any order, the trade dated before the registration and in an instrument yet to be configured; one worker's death | `TypeOK`, `MigratedOnce`, `BaselineFirst`, `OwnedColumnsKept`, `EveryTradeLoaded`, `EveryChangeApplied`, `EveryClientCompleted` |
| `overlap`, `dropped`, `rerun`, `tombstone` | the instances of `WarehouseLoads`, without reloads except for the last | one statement of the documents each, which the code does not keep |
| `seed_race` | one client known before the log, an apply and a seed | `OneCurrentRow`, not kept |
| `stopgap_race` | one client without a baseline, whose first change has lsn 7, an apply and a fact load | `RealLsnsAreChanges`, not kept |
| `stuck_sensor` | as `deployment`, without trades, the later client's first change an update | `EveryChangeApplied`, not kept |

Every property of a passing run has a mutant in `PROJECT.json`, a plausible bug
in one mapped definition, that TLC finds violating it.  The mutants' operators
stand beside the definitions they replace.

*Bounds.*  Three changes of one client are the smallest log with a predecessor,
a middle and a successor: all six arrival orders, spread over any number of
runs, occur.  A delete in the middle gives a tombstone that is closed again,
one at the end a tombstone that stays, an update first a client that may have a
baseline, an insert first one that may not.  Facts are dated before the first
change (stopgap, baseline or raise), at or after a later one.  Two windows give
a reset that leaves nothing and one that leaves a row.  Two clients are enough
for every property about not disturbing another.  `Forever` only has to exceed
every commit time.

In `concurrent` the file names client 2 before client 1 and the reload goes by
client id, so that each can hold what the other waits for; client 2 has three
changes and no watermark, so that first applies meet, the last two of them out of
lsn order in the file, and a reload that begins at the second, so that every excuse
of `NothingMissed` occurs; the fact loads share an orphan client and a date, so that
stopgaps and their locks meet the seed.  Three loads at a time allow every cycle of
two and of three.  Loads run once: a second round begins from tables that a first
one, by `CommittedHistoriesSound`, leaves as serial loads would, and that is
`WarehouseLoads`.  Two files are enough for order,
lateness and redelivery, and the log keeps the two run_ids that the view compares.
Two clients in `deployment` are one of each kind the sensor tells apart, and one
death at every possible task shows each partial bootstrap and run.

Every run takes under four minutes on two cores; the largest has 1.1 million
distinct states.  Deadlock is checked in all of them but `concurrent`, `seed_race`
and `stopgap_race`, whose loads run once and stop.

### Fairness

* `ConcurrentLoads`: weak fairness of "some running load takes a step or a
  deadlock is broken".  A statement that can run returns; the database's check
  runs.  No load need start, none need crash, and no load is favoured.
* `VendorFeed`: weak fairness of starting a daily run and a reconciliation
  (`schedule="@daily"`), strong fairness of each task: tried day after day, a task
  succeeds on one of them.  Weak fairness would not do, as a failure ends the run
  and disables the task.  Weak fairness of `LoadRaises`: a load that raises ends its
  run.  Nothing need be delivered, and nobody need backfill.
* `Orchestration`: weak fairness of each DAG as a whole: the scheduler triggers
  it and runs its tasks one after the other, a failing one to its failure.  Worker
  deaths are bounded in number (`MaxDeaths`) in place of strong fairness.
  `bootstrap_warehouse` has no schedule: that an operator triggers it again from
  time to time is an assumption on the operation, not on the code, and
  `EveryTradeLoaded` and `EveryClientCompleted` rest on it.  Neither migrations
  nor the environment are fair: nobody need configure an instrument, and
  `EveryTradeLoaded` says that trades come through unless one is not configured
  (`AwaitsConfiguration`) or an early trade finds its client's insert applied
  before it (`Stranded`).

### What the documents say and the loads do not do

* `overlap`: a fact is loaded for a client whose first change is an insert and
  gets a stopgap; the insert, committed at or before that date, is applied
  later.  Two rows cover the date, and the lookup takes either.  ADR-2 asks for
  a test of "no overlapping validity windows".
* `dropped`: a change staged after a higher lsn of its client was applied is
  filtered out before `apply_cdc_event` could quarantine it
  (`part1_pipeline.md`: "nothing is silently dropped").  Within one run it is
  quarantined (`SelectedIsAccountedFor`).  A reload over it records it
  (`ReloadRecordsTheLog`).
* `rerun`: a delete quarantined for want of a row leaves the watermark where it
  was, so each run quarantines it again, or applies it when a row has appeared
  (`part1_pipeline.md`: "byte-identical warehouse state").
* `tombstone`: the reload's placeholder satisfies the guard that a first-event
  delete should fail, so the tombstone copies the columns of a later version
  (`reload.py`, comment at the guard).
* `seed_race`: the seed looks for change history, an apply commits, the seed
  inserts its baseline: two current rows.  The seed does not take the lock that
  apply and reload share (ADR-2: "<=1 current row per client").
* `stopgap_race`: a fact load finds no real history, the client's first change is
  committed, the fact load takes the lsn below the smallest, and that is positive
  now.  The stopgap then passes for a change wherever `source_lsn > 0` is asked, and
  no seed clears it (`layer3_warehouse.py:85`: "always negative here").
* `stuck_sensor`: `wait_for_scd2_baseline` looks at what earlier runs have staged,
  and its own run stages after it has passed.  The first update of a client
  onboarded after the last bootstrap is so applied without a baseline; the seed
  passes the client over from then on, the sensor waits for its baseline, and no
  client's change is applied any more (docstring of `_scd2_baseline_seeded`).

Two more are seen in properties that hold.  `EveryDeliveryLoaded` asks for every
delivered row, one that a CRITICAL check counts included, and in `vendor_feed` it
is such a row: the code logs the failure, quarantines a summary and loads the row,
where `part1_pipeline.md:188` says of the negative deposit "**not** loaded into
`fact_deposits`".  ADR-12 made that choice deliberately.  `RegressionsAreReal` is
about numbers of failed checks, as the view is, where `part1_pipeline.md:237-241`
defines a regression by the failed rows of one check ("jumps from 3 to 8").

One more, which `Migrate` contains but no run is spent on: `CREATE TABLE IF NOT
EXISTS` precedes the advisory lock, so the second of two first-ever migrations
can fail with the duplicate-object error that the comment in `run_migrations`
means to rule out.  It fails cleanly, and a repetition succeeds.

## Proofs

Every safety, action and refinement property that a passing run checks is also a
theorem: the run shows it on its instance, the theorem for every value of the
constants, so for every set of clients and facts, every finite change log, any
number of loads, callers, files, checks and deaths.  Each inductive invariant was
an INVARIANT of runs on several instances before it was proved.

| Module | Theorem | States `Spec =>` |
|---|---|---|
| `WarehouseLoadsProofs` | `TypeCorrect`, `CurrentVersion`, `Tiling` | `[]TypeOK`, `[]CurrentIsNewest`, `[]RealVersionsTile` |
| | `Invariant` | `[](TypeOK /\ IInv)` |
| `WarehouseLogProofs` | `VersionsTheorem`, `WatermarkTheorem` | `[]VersionsMatchTheLog`, `[]WatermarkIsNewestVersion` |
| | `ForeignKeys`, `ReloadTheorem` | `[]FactsHaveRows`, `[]ReloadNeverRaises` |
| | `VersionsKept`, `WatermarkForward` | `NoVersionLost`, `WatermarkNeverBack` |
| | `LogInvariant` | `[](TypeOK /\ IInv /\ LogInv)` |
| `WarehouseStepProofs` | `StaleTheorem`, `SelectedTheorem` | `[]StaleQuarantinedOnce`, `SelectedIsAccountedFor` |
| | `LoadedFactsTheorem`, `SeedTheorem` | `LoadedFactsInEffect`, `SeedClearsStopgaps` |
| | `ReloadedFactsTheorem`, `ReloadRecordsTheorem` | `ReloadedFactsInEffect`, `ReloadRecordsTheLog` |
| | `ReloadOthersTheorem`, `RepeatableTheorem` | `ReloadLeavesOthersAlone`, `ReloadIsRepeatable` |
| | `LoadsInvariant` | `[](TypeOK /\ IInv /\ LogInv /\ LoadsInv)` |
| `WarehouseTimelineProofs` | `Refinement` | `ImplementsTimeline` |
| `ConcurrentLoadsProofs` | `TypeCorrect`, `LocksHold` | `[]TypeOK`, `[](TypeInv /\ LockInv)` |
| | `WatermarksTheorem` | `[]WatermarksNeverCollide` |
| | `StopgapsTheorem` | `[]StopgapsNeverSwallowed`, if `FactsOfKnownClients` |
| | `HistoriesTheorem`, `NothingMissedTheorem` | `[]CommittedHistoriesSound`, `[]NothingMissed`, if `BaselinesComeFirst` and `FactsOfKnownClients` |
| | `FactsTheorem` | `[]CommittedFactsInEffect`, if `BaselinesComeFirst` and `FactsAreSettled` |
| `VendorFeedProofs` | `TypeCorrect`, `ChecksTheorem` | `[]TypeOK`, `[]NothingLoadedUnchecked` |
| | `CountsTheorem`, `RegressionsTheorem` | `[]CountsMatchDiscrepancies`, `[]RegressionsAreReal` |
| | `LateTheorem`, `StagingTheorem` | `LateStaysLate`, `StagingIsOrderFree` |
| `OrchestrationProofs` | `TypeCorrect`, `MigrationTheorem` | `[]TypeOK`, `[]MigratedOnce` |
| | `ColumnsTheorem` | `OwnedColumnsKept` |
| | `BaselineTheorem` | `[]BaselineFirst`, if `LateClientsAreInserted` |

### One load at a time

Three inductive invariants, each proved on top of the one before, with one lemma
per action.

`IInv` is what one history must be.  `RealVersionsTile` is not inductive: an
append after a lower lsn than some row would break it, and nothing in it says that
the watermark forbids that.  `IInv` adds, for the working tables and for the
committed ones a rollback returns to:

* `Tiled`: a current row is the newest and open; a closed real row ends where
  the next row begins;
* `RowsAreLogged`: rows above the baseline are changes of the client's log and
  not above its watermark, so an accepted event is above every row;
* `PlaceholderIsOldest`: a reload's placeholder, the one positive row that is no
  change of the log, is below all rows and not above the watermark, so deleting
  it leaves a tiled history.

The operators keep `Tiled` (`SnapshotTableProofs`), each load calls them where their
hypotheses hold, and the reset lowers the watermark together with the rows, which
is why replaying is again an append at the end.

`LogInv` relates the tables to the log.  Between two loads this is simple
(`TablesLogged`: a version has its event's columns, the mark is the newest row,
facts have rows), and false in the middle of a reload, whose client has lost rows
and whose mark has gone back.  So it says instead that what is missing is still to
come: a committed version is recorded or in `todo` (`NoneForgotten`), the mark is
the newest of both (`MarkSoFar`), and for each fact that waits on the row kept by
the reset, or on the placeholder, there is a version, recorded or to be recorded,
that is not younger than it (`WaitingFacts`).  A first delete is quarantined in the
replay as it was before (`WillRecord`).  `CommitOrderAssumption` is used here, and
nowhere else: after the replay the placeholder reaches to the commit of the oldest
version, which is not after that of the one the fact is younger than, so no fact
falls on the placeholder again.  Were a client's commits not in lsn order, one
could, and the reload would raise when it deletes the placeholder.

`LoadsInv` says of each load what it has done so far compared with `db`, such that
at the last row its action property follows (`ApplySoFar`, `SeedSoFar`,
`FactsSoFar`, `ReloadSoFar`, and `StaleInv` across runs).  For a reload: rows
below the reset point are as committed, rows replayed are as the log has them, no
other client has been touched, and facts are waiting or covered.

`ReloadIsRepeatable` compares row by row only where each tombstone has a row before
it (`Grounded`).  A tombstone that is a client's oldest row copies the reload's
placeholder, and this copies any of the rows the reset deletes (`reload.py`,
`doomed_keys[0]`), so a second reload may choose another.  The run `tombstone`
shows how such a tombstone comes about.

`Refinement`: `Init` maps to the abstract `Init`; `Commit` maps, by kind of load and
from `LoadsInv`, to `Append`, `SeedBaselines`, `PinFacts` or `Rebuild`; all other
steps leave `db` alone.

### Interleaved loads

`TypeInv` adds to `TypeOK` the shape of a load's lists by kind.  `LockInv` is what the
locks are taken for: an advisory lock has one holder, marks are written under
theirs and one read with `FOR UPDATE` is still valid when it is used, stopgaps
are written under theirs, no row is written by two loads.  From it, without
further hypothesis, follows `WatermarksNeverCollide`.

`StopgapsNeverSwallowed` needs one.  The stopgap lock keeps fact loads apart, so
that nobody else has a row at the lsn a load has chosen, if that is negative; but
`stopgap_race` shows that it need not be, and then a reload's or an apply's row may
be there.  `FactsOfKnownClients` says that facts of clients with changes are of
clients whose baseline is committed.  `KnownInv`: they keep it, so no fact load gets
past the check for them; the others have no row above lsn 0, and no load writes one.

`HistoryInv` says that the committed histories are sound (`SoundHistory`: tiled,
changes of the client up to the mark), that every load's view of them is so too
(`ViewSound`), also while others commit, because a client's rows change under its
lock only, and that whatever a mark has passed is on record or `Excused`, and
whatever it has not is still on the list of an apply (`WorkSound`).  Three things
excuse a change, and `NothingMissed` names them:

* `Overtaken`: the file names a later change of the client first, and the watermark
  then filters or rejects this one (ADR-10; run `dropped`).
* `NotReplayed`: a reload has begun after it.  Ahead of the first apply, such a
  reload records later changes only, and the watermark hides the earlier ones.
* a delete quarantined as `delete_with_no_baseline`.

So the theorems hold for a file in any order and reloads from any change.  Two
hypotheses remain, and without either the code does otherwise:

* `BaselinesComeFirst`: a profile client with changes has its baseline or gets
  none.  This is ADR-2's order, and the run `seed_race` violates it.
* `FactsOfKnownClients`: else facts get stopgaps beside changes (`overlap`), some of
  them with a change's lsn (`stopgap_race`).

`FactInv` is about clients that do not change, whose facts meet seeds and other fact
loads.  A fact is on a version that covers its date while a load looks for it,
holds it uncommitted, and has committed it.  What makes that true is that a seed
deletes a stopgap only once the baseline is there and no fact, committed or about
to be, is on it (`NothingOnDeleted`), and that a key which a fact load has looked
up and which is deleted meanwhile is no longer a key (`KeysLeft`), so that its
insert fails on the foreign key.  `FactsAreSettled` confines it to those clients:
a change applied after a fact was loaded, and committed at or before its date,
leaves the fact on a version that does not cover it any more, and only a reload
moves it.  All hypotheses hold in the instance of the run `concurrent`.

### The feed and the deployment

`StagingTheorem` is about a recursive function, `Upserted`, the row-by-row upsert in
the order of file names.  What it returns is proved for every set of files by
induction over finite sets, as the absence of a smallest counterexample: strict
inclusion is well-founded on them (`FS_StrictSubsetOrderingWellFounded`, `WFMin`).
`FeedInvariant` is the conjunction from which the other theorems follow, with
`LoadInv`: what `load_layer3` is about to take has been checked since it was staged.

`MigrateInv`: the recorded files are a prefix of the manifest, at most one call is
between lock and commit, and what that one has executed is the next stretch.
`RowsInv`: `dim_client` is never ahead of its sources, and inferred means that no
owner has loaded the row.  `BaselineInv` bridges the gap between the sensor and
the load of the same run: what a sensor that has passed saw stays true until the
load.  `LateClientsAreInserted` says that whoever is onboarded after go-live is
registered by the log; `stuck_sensor` is what happens otherwise, and `BaselineFirst`
fails there.

### Assumptions

| Assumption | Says |
|---|---|
| `ForeverAssumption` | the end of time is a number |
| `ClientsAssumption`, `LsnsAssumption`, `WalAssumption`, `OtherInputsAssumption` | types of the log, facts and windows; the log is finite; commits are before `Forever` |
| `CommitOrderAssumption` | a client's changes commit in lsn order |
| `LogAssumption`, `LoadsAssumption` | the same for `ConcurrentLoads`; a reload's reset point is a change of its client, which has no facts |
| `FeedAssumption`, `ChecksAssumption` | finitely many files and deposits; a file has each deposit once; types |
| `MigrateAssumption` | the manifest names each file once |
| `OrchestrationAssumption` | `airflow-init` is a caller; late clients have profiles; types |

TLC evaluates all of them.  Beside them stand the named hypotheses of five theorems:
`BaselinesComeFirst`, `FactsOfKnownClients`, `FactsAreSettled`,
`LateClientsAreInserted`.

### What is only model-checked

Liveness under fairness is out of the prover's reach, with ENABLED: `EveryLoadEnds`,
`EveryDeliveryLoaded`, `ReportsSelfCorrect`, `EveryTradeLoaded`, `EveryChangeApplied`
and `EveryClientCompleted` stay with TLC.  So do the counterexamples of the runs
that expect a violation.

## Plan

The models are complete as planned, and so are the proofs of what the runs check.
What could be proved beyond that:

1. Weaker hypotheses for `ConcurrentLoads`: `FactsTheorem` for facts of seeded
   clients dated before their first change, which only the baseline ever covers;
   stopgaps of clients whose changes come later.
2. That commits of `ConcurrentLoads` implement `ClientTimeline` under
   `BaselinesComeFirst` and `FactsOfKnownClients`, as those of `WarehouseLoads` do
   without them.
3. That at most one real version covers a date, from `Tiling` and
   `CommitOrderAssumption`.

## Not modelled

* `config.py`: it parses and validates YAML that does not change while the system
  runs.  There is no state, and no order of events matters.
* `reload.py`'s state dump and `verify.sh`: they read.  Of what the dump has, the real
  versions and each fact's `risk_snapshot_key`, `ReloadIsRepeatable` compares the
  versions, and the watermarks besides.  The model has no surrogate keys, of which
  a rebuilt row gets a new one, and says of displaced facts that they end on a
  version in effect (`ReloadedFactsInEffect`).  A fact on a row that a reload has kept
  and shortened is not displaced, and stays there until the next fact load.
* `db.py`, `common.py`: connections, catalogue queries.
* `dim_date`: a fixed calendar; the unscheduled sign-up and profile DAGs; the
  inside of Great Expectations and of Airflow; containers other than the order
  in which they start.
* A sensor's two orders: it calls a client's first change the first staged, the
  seed the one of lowest lsn.  With a file out of lsn order its outcome is that of
  `stuck_sensor`.
