----------------------------- MODULE VendorFeed -----------------------------
(***************************************************************************)
(* The vendor's daily deposit files, from delivery to reconciliation:       *)
(* layer1_raw.load and layer2_staging.stage for a source landed as jsonb    *)
(* payloads, dq.run_dq_checks, the copied columns of fact_upsert and        *)
(* reconcile.run_reconciliation.  A task is one transaction and one step,   *)
(* except that a reconciliation reads its two sides one after the other.    *)
(*                                                                          *)
(* A file's name carries its delivery date, so it stands for both: files    *)
(* are numbers, in the order of their names.  They may be delivered in any  *)
(* order, and again with other contents.                                    *)
(***************************************************************************)
EXTENDS Integers, Sequences, FiniteSets

CONSTANTS
    Files,      \* delivery dates
    Deposits,
    Contents,   \* file -> its versions, each a function from deposit to row
    Exposed,    \* deposits dated before the first change of their client
    Threshold,  \* late_arrival.threshold_days
    Checks,     \* the data quality checks of the staging table
    Critical,   \* those of severity CRITICAL
    BadAmounts, \* check -> the amounts of the rows it counts
    InternalKeys, \* what the internal system comes to record: <<date, amount>>
    Executions  \* bound: times a run is executed under one run_id

Rows == [date : Nat, status : STRING, amount : Int, drifted : BOOLEAN]

\* A table with rows of this kind, at most one of a deposit.
IsTable(table, Kind) == DOMAIN table \subseteq Deposits /\ table \in [DOMAIN table -> Kind]

ASSUME FeedAssumption ==
    /\ Files \subseteq Nat /\ IsFiniteSet(Files) /\ IsFiniteSet(Deposits)
    /\ Threshold \in Nat /\ Exposed \subseteq Deposits
    /\ DOMAIN Contents = Files
    /\ \A f \in Files :
          /\ Len(Contents[f]) \in Nat
          /\ \A v \in 1..Len(Contents[f]) : IsTable(Contents[f][v], Rows)
ASSUME ChecksAssumption ==
    /\ Critical \subseteq Checks /\ IsFiniteSet(Checks)
    /\ BadAmounts \in [Checks -> SUBSET Int]
    /\ InternalKeys \subseteq Nat \X Int /\ IsFiniteSet(InternalKeys)
    /\ Executions \in Nat \ {0}

VARIABLES
    source,      \* file -> the version in the data directory, 0 for none
    raw,         \* file -> its rows in raw.vendor_deposits
    staged,      \* deposit -> its row in staging.vendor_deposits
    fact,        \* deposit -> its row in fact_deposits
    internal,    \* keys of the internal rows of fact_deposits
    uncovered,   \* deposits whose client has changes, and no version of their date
    task,        \* next task of the DAG run, or idle
    again,       \* the run has the run_id of the last one logged
    log,         \* the last two runs with check results: failed checks of each execution
    quarantined, \* CRITICAL checks quarantined by the last execution
    reading,     \* a reconciliation has read its left side: no, new or again
    left,        \* the keys it read
    discrepancies, \* those stored for the last reconciliation's run_id
    logged       \* unexpected_count it logged last

pipeline == <<raw, staged, fact, task, again, log, quarantined>>
recon == <<reading, left, discrepancies, logged>>
world == <<source, internal, uncovered>>
vars == <<world, pipeline, recon>>

Tasks == {"idle", "land_layer1", "stage_layer2", "run_dq_checks", "load_layer3"}

StagedRows == [date : Nat, status : STRING, amount : Int, drift : BOOLEAN, late : BOOLEAN]
FactRows == [date : Nat, status : STRING, amount : Int, late : BOOLEAN]
Keys == Nat \X Int
Kinds == {"missing_left", "missing_right"}

\* Every table holds rows of its own columns, for known files and deposits.
TypeOK ==
    /\ source \in [Files -> Nat] /\ \A f \in Files : source[f] <= Len(Contents[f])
    /\ DOMAIN raw = Files /\ \A f \in Files : IsTable(raw[f], Rows)
    /\ IsTable(staged, StagedRows)
    /\ IsTable(fact, FactRows) /\ DOMAIN fact \subseteq DOMAIN staged
    /\ internal \subseteq InternalKeys /\ uncovered \subseteq Exposed
    /\ task \in Tasks /\ again \in BOOLEAN
    /\ log \in Seq(Seq(SUBSET Checks)) /\ Len(log) <= 2
    /\ \A r \in DOMAIN log : Len(log[r]) \in 1..Executions
    /\ quarantined \subseteq Critical
    /\ reading \in {"no", "new", "again"} /\ left \subseteq Keys
    /\ discrepancies \subseteq Keys \X Kinds /\ logged \in Nat

NoRows == [x \in {} |-> {}]

Init ==
    /\ source = [f \in Files |-> 0]
    /\ raw = [f \in Files |-> NoRows]
    /\ staged = NoRows /\ fact = NoRows /\ internal = {} /\ uncovered = {}
    /\ task = "idle" /\ again = FALSE /\ log = <<>> /\ quarantined = {}
    /\ reading = "no" /\ left = {} /\ discrepancies = {} /\ logged = 0

----------------------------------------------------------------------------
(* The environment.                                                        *)

Deliver(f) ==
    /\ source[f] < Len(Contents[f])
    /\ source' = [source EXCEPT ![f] = @ + 1]
    /\ UNCHANGED <<internal, uncovered, pipeline, recon>>

\* table__client_deposit loads a fact of the internal system.
RecordInternal(k) ==
    /\ internal' = internal \cup {k}
    /\ UNCHANGED <<source, uncovered, pipeline, recon>>

\* The client's first change is applied before the deposit is loaded, so that
\* no stopgap will be made for it.
ApplyFirstChange(d) ==
    /\ d \in Exposed \ DOMAIN fact
    /\ uncovered' = uncovered \cup {d}
    /\ UNCHANGED <<source, internal, pipeline, recon>>

\* The "real backfill/reconciliation decision" that fact_upsert asks for.
Backfill(d) ==
    /\ d \in uncovered /\ uncovered' = uncovered \ {d}
    /\ UNCHANGED <<source, internal, pipeline, recon>>

----------------------------------------------------------------------------
(* The DAG table__vendor_deposits.                                         *)

Present == {f \in Files : source[f] # 0}

Holding(d) == {f \in Files : d \in DOMAIN raw[f]}

Late(f, row) == f - row.date > Threshold

\* Mutant of Merged: the flags are those of the last delivery.
MergedWithoutOr(old, f, d) ==
    [old EXCEPT !.status = raw[f][d].status,
                !.drift = raw[f][d].drifted,
                !.late = Late(f, raw[f][d])]

\* ON CONFLICT: the update columns, and the sticky flags.
Merged(old, f, d) ==
    [old EXCEPT !.status = raw[f][d].status,
                !.drift = @ \/ raw[f][d].drifted,
                !.late = @ \/ Late(f, raw[f][d])]

\* Mutant of Fresh: the flags are only set on conflict.
FreshUnflagged(f, d) ==
    [date |-> raw[f][d].date, status |-> raw[f][d].status, amount |-> raw[f][d].amount]

Fresh(f, d) ==
    [date |-> raw[f][d].date, status |-> raw[f][d].status, amount |-> raw[f][d].amount,
     drift |-> raw[f][d].drifted, late |-> Late(f, raw[f][d])]

UpsertFile(table, f) ==
    [d \in DOMAIN table \cup DOMAIN raw[f] |->
        IF d \notin DOMAIN raw[f] THEN table[d]
        ELSE IF d \in DOMAIN table THEN Merged(table[d], f, d)
        ELSE Fresh(f, d)]

\* Mutant of LastStaged: the order in which the files arrived, say the newest
\* first.
FirstNamed(files) == CHOOSE f \in files : \A g \in files : f <= g

\* ORDER BY source_file.
LastStaged(files) == CHOOSE f \in files : \A g \in files : g <= f

\* What becomes of the staging table when the rows of these files are upserted.
Upserted[files \in SUBSET Files] ==
    IF files = {} THEN staged
    ELSE UpsertFile(Upserted[files \ {LastStaged(files)}], LastStaged(files))

\* Mutant of TaskAfter: the checks run last.
ChecksLast(t) ==
    CASE t = "land_layer1" -> "stage_layer2" [] t = "stage_layer2" -> "load_layer3"
      [] t = "load_layer3" -> "run_dq_checks" [] t = "run_dq_checks" -> "idle"

TaskAfter(t) ==
    CASE t = "land_layer1" -> "stage_layer2" [] t = "stage_layer2" -> "run_dq_checks"
      [] t = "run_dq_checks" -> "load_layer3" [] t = "load_layer3" -> "idle"

Succeed(t) == task = t /\ task' = TaskAfter(t)

\* A scheduled run, or one repeated for the same date and so with the same
\* run_id (airflow dags test).
StartRun ==
    /\ task = "idle"
    /\ task' = "land_layer1" /\ again' = FALSE
    /\ UNCHANGED <<world, raw, staged, fact, log, quarantined, recon>>

RepeatRun ==
    /\ task = "idle"
    /\ log # <<>> /\ Len(log[Len(log)]) < Executions
    /\ task' = "land_layer1" /\ again' = TRUE
    /\ UNCHANGED <<world, raw, staged, fact, log, quarantined, recon>>

\* A task fails, the rest of the run with it: the worker dies, or the glob
\* matches no file.
FailTask ==
    /\ task # "idle" /\ task' = "idle"
    /\ UNCHANGED <<world, raw, staged, fact, again, log, quarantined, recon>>

\* ON CONFLICT (source_file, key): the payload is replaced.
Replaced(old, new) ==
    [d \in DOMAIN old \cup DOMAIN new |-> IF d \in DOMAIN new THEN new[d] ELSE old[d]]

LandLayer1 ==
    /\ Succeed("land_layer1")
    /\ Present # {}
    /\ raw' = [f \in Files |-> IF f \in Present THEN Replaced(raw[f], Contents[f][source[f]]) ELSE raw[f]]
    /\ UNCHANGED <<world, staged, fact, again, log, quarantined, recon>>

StageLayer2 ==
    /\ Succeed("stage_layer2")
    /\ staged' = Upserted[{f \in Files : raw[f] # NoRows}]
    /\ UNCHANGED <<world, raw, fact, again, log, quarantined, recon>>

Failing(check) == {d \in DOMAIN staged : staged[d].amount \in BadAmounts[check]}

\* The results of a run with a new run_id, or more of the last one's.
RunChecks ==
    LET failed == {check \in Checks : Failing(check) # {}} IN
    /\ Succeed("run_dq_checks")
    /\ log' = IF again THEN [log EXCEPT ![Len(log)] = Append(@, failed)]
              ELSE IF Len(log) < 2 THEN Append(log, <<failed>>)
              ELSE <<log[Len(log)], <<failed>>>>
    /\ quarantined' = failed \cap Critical
    /\ UNCHANGED <<world, raw, staged, fact, again, recon>>

FactRow(row) == [date |-> row.date, status |-> row.status, amount |-> row.amount, late |-> row.late]

\* fact_upsert raises for a row whose date no version covers, and one raise
\* rolls the load of all of them back.
Blocked == DOMAIN staged \cap uncovered # {}

\* Mutant of LoadLayer3: ON CONFLICT DO NOTHING.
LoadNew ==
    /\ Succeed("load_layer3") /\ ~ Blocked
    /\ fact' = [d \in DOMAIN staged \cup DOMAIN fact |->
                   IF d \in DOMAIN fact THEN fact[d] ELSE FactRow(staged[d])]
    /\ UNCHANGED <<world, raw, staged, again, log, quarantined, recon>>

\* The other keys that fact_upsert resolves are the subject of WarehouseLoads.
LoadLayer3 ==
    /\ Succeed("load_layer3") /\ ~ Blocked
    /\ fact' = [d \in DOMAIN staged \cup DOMAIN fact |-> FactRow(staged[d])]
    /\ UNCHANGED <<world, raw, staged, again, log, quarantined, recon>>

LoadRaises ==
    /\ task = "load_layer3" /\ Blocked /\ task' = "idle"
    /\ UNCHANGED <<world, raw, staged, fact, again, log, quarantined, recon>>

----------------------------------------------------------------------------
(* dq_table_health.                                                        *)

\* COUNT(*) FILTER (WHERE NOT passed), of a run's results.
FailedChecks(executions) ==
    Cardinality({row \in (DOMAIN executions) \X Checks : row[2] \in executions[row[1]]})

\* Mutant of FailedBefore: COALESCE(LAG(failed_checks), 0).
FailedBeforeOrNone(r) == IF r = 1 THEN {0} ELSE {FailedChecks(log[r - 1])}

\* LAG(failed_checks) OVER (ORDER BY run_at); NULL for the first run.
FailedBefore(r) == IF r = 1 THEN {} ELSE {FailedChecks(log[r - 1])}

IsRegression(r) == \E before \in FailedBefore(r) : FailedChecks(log[r]) > before

----------------------------------------------------------------------------
(* The DAG reconcile_vendor_feed.                                          *)

VendorKeys == {<<fact[d].date, fact[d].amount>> : d \in DOMAIN fact}

\* Mutant of LeftKeys: a side read once is kept.
LeftKeysOnce == IF left # {} THEN left ELSE VendorKeys

LeftKeys == VendorKeys

\* Mutant of Stored: the rows of an earlier execution are not deleted.
StoredOnTop(new) == IF reading = "again" THEN discrepancies \cup new ELSE new

\* DELETE ... WHERE run_id = this run's, INSERT.
Stored(new) == new

BeginReconciliation(id) ==
    /\ reading = "no" /\ reading' = id
    /\ left' = LeftKeys
    /\ UNCHANGED <<world, pipeline, discrepancies, logged>>

FinishReconciliation ==
    LET new == ((left \ internal) \X {"missing_right"})
                   \cup ((internal \ left) \X {"missing_left"})
    IN
    /\ reading # "no" /\ reading' = "no"
    /\ discrepancies' = Stored(new)
    /\ logged' = Cardinality(new)
    /\ UNCHANGED <<world, pipeline, left>>

FailReconciliation ==
    /\ reading # "no" /\ reading' = "no"
    /\ UNCHANGED <<world, pipeline, left, discrepancies, logged>>

----------------------------------------------------------------------------
Next ==
    \/ \E f \in Files : Deliver(f)
    \/ \E k \in InternalKeys : RecordInternal(k)
    \/ \E d \in Exposed : ApplyFirstChange(d) \/ Backfill(d)
    \/ StartRun \/ RepeatRun \/ FailTask
    \/ LandLayer1 \/ StageLayer2 \/ RunChecks \/ LoadLayer3 \/ LoadRaises
    \/ BeginReconciliation("new") \/ BeginReconciliation("again")
    \/ FinishReconciliation \/ FailReconciliation

\* Both DAGs are scheduled daily, and a task that is tried on day after day
\* succeeds on one of them unless it raises.  Nothing need be delivered, and
\* nobody need backfill.
Fairness ==
    /\ WF_vars(StartRun) /\ WF_vars(LoadRaises)
    /\ SF_vars(LandLayer1) /\ SF_vars(StageLayer2) /\ SF_vars(RunChecks) /\ SF_vars(LoadLayer3)
    /\ WF_vars(BeginReconciliation("new")) /\ SF_vars(FinishReconciliation)

Spec == Init /\ [][Next]_vars /\ Fairness

----------------------------------------------------------------------------
(* Properties.                                                             *)

\* Whatever order files arrive in, a staged row has the status its
\* newest-named file gives it, and its flags say of every delivery so far,
\* one since overwritten included, whether any was late or drifted.
StagingIsOrderFree ==
    [][StageLayer2 =>
          \A d \in DOMAIN staged' :
              LET known == d \in DOMAIN staged IN
              /\ \A f \in Holding(d) : (\A g \in Holding(d) : g <= f) =>
                    staged'[d].status = raw[f][d].status
              /\ staged'[d].late <=>
                    (known /\ staged[d].late) \/ \E f \in Holding(d) : Late(f, raw[f][d])
              /\ staged'[d].drift <=>
                    (known /\ staged[d].drift) \/ \E f \in Holding(d) : raw[f][d].drifted]_vars

\* A flag once raised reaches the facts and is never taken back, also when the
\* file that raised it is delivered again without the cause.
LateStaysLate ==
    [][\A d \in DOMAIN fact : fact[d].late => fact'[d].late]_vars

\* A load is preceded by the checks of what it loads: a row that a CRITICAL
\* check counts is loaded (checks do not block) but with the failure in
\* quarantine.
NothingLoadedUnchecked ==
    \A check \in Critical :
        (\E d \in DOMAIN fact : fact[d].amount \in BadAmounts[check]) => check \in quarantined

\* dq_table_health calls a run that was executed once a regression only if
\* some check failed that passed in the run before it.
RegressionsAreReal ==
    \A r \in DOMAIN log : Len(log[r]) = 1 /\ IsRegression(r) =>
        r > 1 /\ \E check \in log[r][1] : \E e \in DOMAIN log[r - 1] : check \notin log[r - 1][e]

\* The discrepancies stored for a run_id are those its last execution logged,
\* however often it was repeated.
CountsMatchDiscrepancies == logged = Cardinality(discrepancies)

\* A delivered row reaches the facts, flagged if it was late, through failed
\* tasks and whatever the checks found (a row that a CRITICAL check counts is
\* loaded too), unless its file is replaced first; and only while no staged
\* row's date is uncovered, which holds up every other row with it.
EveryDeliveryLoaded ==
    []<>(\/ Blocked
         \/ \A f \in Present : \A d \in DOMAIN Contents[f][source[f]] :
               d \in DOMAIN fact /\ (Late(f, Contents[f][source[f]][d]) => fact[d].late))

\* ADR-13: a reconciliation that runs early, or between the loads of the two
\* sides, corrects itself: a key both sides come to hold is in the end no
\* longer reported.
ReportsSelfCorrect ==
    \A k \in InternalKeys :
        <>(k \in VendorKeys /\ k \in internal)
            => <>[](\A kind \in Kinds : <<k, kind>> \notin discrepancies)
=============================================================================
