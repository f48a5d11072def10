--------------------------- MODULE Orchestration ---------------------------
(***************************************************************************)
(* The deployment: airflow-init migrates the database, then the scheduler    *)
(* runs bootstrap_warehouse, table__client_trades and                       *)
(* table__client_profile_changes.  A DAG run is the set of its tasks still   *)
(* to end; every task is one transaction and one step.  build_dim_date,      *)
(* bootstrap_complete and run_dq_checks change nothing that is read here and *)
(* are left out.  The static files and the two feeds grow at any time after  *)
(* go-live.                                                                 *)
(*                                                                          *)
(* What loads do to one client's versions row by row is in WarehouseLoads    *)
(* and ConcurrentLoads: here a client has or has not stopgaps, a baseline    *)
(* and applied changes, and a trade is dated before the first change of its  *)
(* client or not.  Each of the early ones has a day of its own.              *)
(***************************************************************************)
EXTENDS Migrate

CONSTANTS
    AirflowInit,  \* the caller in docker-compose's airflow-init
    Clients,
    Signups,      \* client -> the managers its sign-up is assigned, in order
    Profiled,     \* clients with a profile
    Late,         \* those of them that are onboarded after go-live
    MaxDeaths,    \* bound: tasks whose worker dies
    ChangeLog,    \* lines of client_profile_changes.jsonl: [client, op]
    TradeLog,     \* records of client_trades.json: [client, instrument, early]
    Configured    \* instruments with an asset_class in dim_instrument.yml

ASSUME OrchestrationAssumption ==
    /\ AirflowInit \in Callers
    /\ Signups \in [Clients -> Seq(STRING) \ {<<>>}]
    /\ Late \subseteq Profiled /\ Profiled \subseteq Clients
    /\ MaxDeaths \in Nat
    /\ ChangeLog \in Seq([client : Clients, op : {"insert", "update"}])
    /\ TradeLog \in Seq([client : Clients, instrument : STRING, early : BOOLEAN])

VARIABLES
    phase,       \* migrating, migrated, or live: the scheduler runs
    todo,        \* DAG -> tasks of its run that have not ended
    deaths,      \* tasks whose worker died
    signups,     \* client -> its version in client_signup.json, 0 for none
    profiles,    \* clients in client_profile.json
    stagedSignups, \* client -> its version in staging.client_signup
    stagedProfiles, \* clients in staging.client_profile
    mapped,      \* instruments with an asset_class by now
    feed,        \* of trades and of changes: how many are in the file, in
                 \* raw, in staging, in the warehouse
    managers,    \* rows of dim_manager
    instruments, \* rows of dim_instrument
    dimClient,   \* rows of dim_client
    snapshots    \* client -> kinds of its rows in dim_client_risk_snapshot

files == <<signups, profiles, mapped>>
dims == <<managers, instruments, dimClient>>
pipeline == <<stagedSignups, stagedProfiles, feed, dims, snapshots>>
vars == <<migrateVars, phase, todo, deaths, files, pipeline>>

Dags == {"bootstrap_warehouse", "client_trades", "client_profile_changes"}

BootstrapTasks ==
    {"stage_client_signup", "build_dim_manager", "build_dim_instrument",
     "upsert_client_signup_dimension", "stage_client_profile",
     "upsert_client_profile_dimension_and_baseline_seed"}

TableTasks == {"wait", "land_layer1", "stage_layer2", "load_layer3"}

\* Mutant of BootstrapEdges: sign-ups are loaded before their managers.
ManagersLast ==
    {<<"stage_client_signup", "upsert_client_signup_dimension">>,
     <<"upsert_client_signup_dimension", "stage_client_profile">>,
     <<"stage_client_profile", "upsert_client_profile_dimension_and_baseline_seed">>,
     <<"upsert_client_profile_dimension_and_baseline_seed", "build_dim_manager">>}

BootstrapEdges ==
    {<<"stage_client_signup", "build_dim_manager">>,
     <<"build_dim_manager", "upsert_client_signup_dimension">>,
     <<"upsert_client_signup_dimension", "stage_client_profile">>,
     <<"stage_client_profile", "upsert_client_profile_dimension_and_baseline_seed">>}

TableEdges ==
    {<<"wait", "land_layer1">>, <<"land_layer1", "stage_layer2">>,
     <<"stage_layer2", "load_layer3">>}

Tasks(dag) == IF dag = "bootstrap_warehouse" THEN BootstrapTasks ELSE TableTasks
Edges(dag) == IF dag = "bootstrap_warehouse" THEN BootstrapEdges ELSE TableEdges

Instruments == {TradeLog[i].instrument : i \in DOMAIN TradeLog}

Feeds == {"client_trades", "client_profile_changes"}
FeedLog == [client_trades |-> TradeLog, client_profile_changes |-> ChangeLog]
Kinds == {"stopgap", "baseline", "change"}

\* Every row has its columns, every run its DAG's tasks, every table the rows
\* of known clients.
TypeOK ==
    /\ MigrateTypeOK
    /\ phase \in {"migrating", "migrated", "live"}
    /\ \A dag \in Dags : todo[dag] \subseteq Tasks(dag)
    /\ deaths \in 0..MaxDeaths
    /\ \A c \in Clients : {signups[c], stagedSignups[c]} \subseteq 0..Len(Signups[c])
    /\ profiles \subseteq Profiled /\ stagedProfiles \subseteq profiles
    /\ mapped \subseteq Configured \cup Instruments
    /\ \A t \in Feeds : feed[t] \in [file : 0..Len(FeedLog[t]), raw : 0..Len(FeedLog[t]),
                                     staged : 0..Len(FeedLog[t]), loaded : 0..Len(FeedLog[t])]
    /\ DOMAIN dimClient \subseteq Clients
    /\ \A c \in DOMAIN dimClient :
          dimClient[c] \in [inferred : BOOLEAN, signup : 0..Len(Signups[c]), profile : BOOLEAN]
    /\ snapshots \in [Clients -> SUBSET Kinds]

Init ==
    /\ MigrateInit
    /\ phase = "migrating" /\ todo = [dag \in Dags |-> {}] /\ deaths = 0
    /\ signups = [c \in Clients |-> IF c \in Late THEN 0 ELSE 1]
    /\ profiles = Profiled \ Late /\ mapped = Configured
    /\ stagedSignups = [c \in Clients |-> 0] /\ stagedProfiles = {}
    /\ feed = [t \in Feeds |-> [file |-> 0, raw |-> 0, staged |-> 0, loaded |-> 0]]
    /\ managers = {} /\ instruments = {} /\ dimClient = [c \in {} |-> {}]
    /\ snapshots = [c \in Clients |-> {}]

----------------------------------------------------------------------------
(* The environment.                                                        *)

\* The next version of a client in the static files, its first on onboarding.
Amend(c) ==
    /\ phase = "live" /\ signups[c] < Len(Signups[c])
    /\ signups' = [signups EXCEPT ![c] = @ + 1]
    /\ profiles' = profiles \cup ({c} \cap Profiled)
    /\ UNCHANGED <<migrateVars, phase, todo, deaths, mapped, pipeline>>

\* The operator gives a new instrument its asset_class.
Configure(i) ==
    /\ phase = "live"
    /\ mapped' = mapped \cup {i}
    /\ UNCHANGED <<migrateVars, phase, todo, deaths, signups, profiles, pipeline>>

\* A change by way of update is made to a client with a profile.
Record(t) ==
    /\ phase = "live" /\ feed[t].file < Len(FeedLog[t])
    /\ t = "client_profile_changes" =>
          LET line == ChangeLog[feed[t].file + 1] IN line.op = "insert" \/ line.client \in profiles
    /\ feed' = [feed EXCEPT ![t].file = @ + 1]
    /\ UNCHANGED <<migrateVars, phase, todo, deaths, files, stagedSignups, stagedProfiles, dims, snapshots>>

----------------------------------------------------------------------------
(* docker-compose: airflow-init, and a developer who migrates meanwhile.    *)

Migration ==
    /\ phase # "live"
    /\ \/ \E f \in ManifestFiles : Edit(f) /\ UNCHANGED phase
       \/ \E p \in Callers : MigrateStep(p) /\ UNCHANGED phase
       \/ \E p \in Callers : /\ CommitCall(p)
                             /\ phase' = IF p = AirflowInit THEN "migrated" ELSE phase
    /\ UNCHANGED <<todo, deaths, files, pipeline>>

\* service_completed_successfully.  (A bound: no call is under way and no file
\* edited, so that what follows is not multiplied by what it does not read.)
StartScheduler ==
    /\ phase = "migrated"
    /\ edited = {} /\ \A p \in Callers : call[p] = "idle"
    /\ phase' = "live"
    /\ UNCHANGED <<migrateVars, todo, deaths, files, pipeline>>

----------------------------------------------------------------------------
(* DAG runs.                                                               *)

\* A daily run, or the operator triggers bootstrap_warehouse.
Trigger(dag) ==
    /\ phase = "live" /\ todo[dag] = {}
    /\ todo' = [todo EXCEPT ![dag] = Tasks(dag)]
    /\ UNCHANGED <<migrateVars, phase, deaths, files, pipeline>>

Ready(dag, task) ==
    /\ task \in todo[dag]
    /\ \A e \in Edges(dag) : e[2] = task => e[1] \notin todo[dag]

Closed(dag, S) == \A e \in Edges(dag) : e[1] \in S => e[2] \in S

\* DAG -> task -> it and the tasks downstream of it: those in every set that
\* has it and that no edge leaves.
Downstream ==
    [dag \in Dags |-> [task \in Tasks(dag) |->
        {t \in Tasks(dag) : \A S \in SUBSET Tasks(dag) : task \in S /\ Closed(dag, S) => t \in S}]]

Skip(dag, task) ==
    /\ Ready(dag, task)
    /\ todo' = [todo EXCEPT ![dag] = @ \ Downstream[dag][task]]
    /\ UNCHANGED <<migrateVars, phase, files, pipeline>>

\* A worker dies: its task's transaction is rolled back and not retried, and
\* what is downstream does not run.
Die(dag, task) ==
    /\ deaths < MaxDeaths /\ deaths' = deaths + 1
    /\ Skip(dag, task)

----------------------------------------------------------------------------
(* What makes a task fail, whenever it is run.                              *)

ManagerOf(c) == Signups[c][stagedSignups[c]]

SignedUp == {c \in Clients : stagedSignups[c] > 0}

\* The first change of a client among the first n lines, if any, is an insert.
InsertFirst(c, n) ==
    \E i \in 1..n : /\ ChangeLog[i] = [client |-> c, op |-> "insert"]
                    /\ \A j \in 1..i - 1 : ChangeLog[j].client # c

\* Mutant of SomeBaseline: only the check per client.
NoFloor == TRUE

SomeBaseline == \E c \in Clients : "baseline" \in snapshots[c]

\* Mutant of BaselineSeeded: a client whose first change is an insert is waited
\* for too.
EveryoneSeeded ==
    /\ SomeBaseline
    /\ \A i \in 1..feed["client_profile_changes"].staged : "baseline" \in snapshots[ChangeLog[i].client]

\* _scd2_baseline_seeded.
BaselineSeeded ==
    /\ SomeBaseline
    /\ \A i \in 1..feed["client_profile_changes"].staged :
          LET c == ChangeLog[i].client IN
          InsertFirst(c, feed["client_profile_changes"].staged) \/ "baseline" \in snapshots[c]

StagedTrades == 1..feed["client_trades"].staged
Trading == {TradeLog[i].client : i \in StagedTrades}

\* The trade's date is covered, once it is loaded by what it is pinned to; or a
\* stopgap can be made, as only for a client without real history.
Resolvable(i) ==
    LET has == snapshots[TradeLog[i].client] IN
    TradeLog[i].early /\ "change" \in has =>
        "baseline" \in has \/ i <= feed["client_trades"].loaded

\* Mutant of DerivedFrom: source_table instead of raw_source_glob.
DerivedFromStaging == StagedTrades

DerivedFrom == 1..feed["client_trades"].file

DerivedInstruments == {TradeLog[i].instrument : i \in DerivedFrom}

NoFile(t) == feed[t].file = 0

\* A table's sensor that never finds its condition, and so times out.
TimesOut(t) == IF t = "client_trades" THEN instruments = {} ELSE ~BaselineSeeded

\* A glob without files, an instrument without asset_class, a missing manager
\* or instrument, a date that no version covers.
Raises(dag, task) ==
    \/ task = "wait" /\ TimesOut(dag)
    \/ task = "land_layer1" /\ NoFile(dag)
    \/ task = "build_dim_instrument" /\ (NoFile("client_trades") \/ ~(DerivedInstruments \subseteq mapped))
    \/ task = "upsert_client_signup_dimension" /\ ~({ManagerOf(c) : c \in SignedUp} \subseteq managers)
    \/ /\ dag = "client_trades" /\ task = "load_layer3"
       /\ \E i \in StagedTrades : TradeLog[i].instrument \notin instruments \/ ~Resolvable(i)

Fail(dag, task) == Raises(dag, task) /\ Skip(dag, task) /\ UNCHANGED deaths

Succeed(dag, task) ==
    /\ Ready(dag, task) /\ ~Raises(dag, task)
    /\ todo' = [todo EXCEPT ![dag] = @ \ {task}]
    /\ UNCHANGED <<migrateVars, phase, deaths, files>>

----------------------------------------------------------------------------
(* bootstrap_warehouse.                                                    *)

Bootstrap(task) == Succeed("bootstrap_warehouse", task)

StageClientSignup ==
    /\ Bootstrap("stage_client_signup")
    /\ stagedSignups' = signups
    /\ UNCHANGED <<stagedProfiles, feed, dims, snapshots>>

BuildDimManager ==
    /\ Bootstrap("build_dim_manager")
    /\ managers' = managers \cup {ManagerOf(c) : c \in SignedUp}
    /\ UNCHANGED <<stagedSignups, stagedProfiles, feed, instruments, dimClient, snapshots>>

BuildDimInstrument ==
    /\ Bootstrap("build_dim_instrument")
    /\ instruments' = instruments \cup DerivedInstruments
    /\ UNCHANGED <<stagedSignups, stagedProfiles, feed, managers, dimClient, snapshots>>

NoClient == [inferred |-> FALSE, signup |-> 0, profile |-> FALSE]
Known(c) == IF c \in DOMAIN dimClient THEN dimClient[c] ELSE NoClient

UpsertClientSignupDimension ==
    /\ Bootstrap("upsert_client_signup_dimension")
    /\ dimClient' = [c \in DOMAIN dimClient \cup SignedUp |->
                        IF c \in SignedUp
                        THEN [Known(c) EXCEPT !.signup = stagedSignups[c], !.inferred = FALSE]
                        ELSE dimClient[c]]
    /\ UNCHANGED <<stagedSignups, stagedProfiles, feed, managers, instruments, snapshots>>

StageClientProfile ==
    /\ Bootstrap("stage_client_profile")
    /\ stagedProfiles' = profiles
    /\ UNCHANGED <<stagedSignups, feed, dims, snapshots>>

\* Mutant of ProfileRow: the other owner's columns are overwritten too.
WholeProfileRow(c) == [NoClient EXCEPT !.profile = TRUE]

ProfileRow(c) == [Known(c) EXCEPT !.profile = TRUE, !.inferred = FALSE]

Seeded(c) ==
    /\ ~InsertFirst(c, feed["client_profile_changes"].file)
    /\ "change" \notin snapshots[c]
    /\ c \in stagedProfiles \/ "stopgap" \in snapshots[c]

\* One transaction: the profile columns, then scd2_baseline_seed.
UpsertClientProfileAndSeed ==
    /\ Bootstrap("upsert_client_profile_dimension_and_baseline_seed")
    /\ dimClient' = [c \in DOMAIN dimClient \cup stagedProfiles |->
                        IF c \in stagedProfiles THEN ProfileRow(c) ELSE dimClient[c]]
    /\ snapshots' = [c \in Clients |-> IF Seeded(c) THEN {"baseline"} ELSE snapshots[c]]
    /\ UNCHANGED <<stagedSignups, stagedProfiles, feed, managers, instruments>>

----------------------------------------------------------------------------
(* The table DAGs.                                                         *)

PassSensor(t) ==
    /\ Succeed(t, "wait")
    /\ UNCHANGED pipeline

LandLayer1(t) ==
    /\ Succeed(t, "land_layer1")
    /\ feed' = [feed EXCEPT ![t].raw = feed[t].file]
    /\ UNCHANGED <<stagedSignups, stagedProfiles, dims, snapshots>>

StageLayer2(t) ==
    /\ Succeed(t, "stage_layer2")
    /\ feed' = [feed EXCEPT ![t].staged = feed[t].raw]
    /\ UNCHANGED <<stagedSignups, stagedProfiles, dims, snapshots>>

\* Mutant of InferredRow: is_inferred is not given.
UnflaggedRow(c) == IF c \in DOMAIN dimClient THEN dimClient[c] ELSE [signup |-> 0, profile |-> FALSE]

\* INSERT ... ON CONFLICT DO NOTHING.
InferredRow(c) == IF c \in DOMAIN dimClient THEN dimClient[c] ELSE [NoClient EXCEPT !.inferred = TRUE]

\* fact_upsert, as far as it makes rows of other tables.
LoadTrades ==
    /\ Succeed("client_trades", "load_layer3")
    /\ dimClient' = [c \in DOMAIN dimClient \cup Trading |->
                        IF c \in Trading THEN InferredRow(c) ELSE dimClient[c]]
    /\ snapshots' = [c \in Clients |->
                        IF c \in Trading /\ snapshots[c] = {} THEN {"stopgap"} ELSE snapshots[c]]
    /\ feed' = [feed EXCEPT !["client_trades"].loaded = feed["client_trades"].staged]
    /\ UNCHANGED <<stagedSignups, stagedProfiles, managers, instruments>>

\* scd2_apply of what the watermarks have not passed.
LoadChanges ==
    LET t == "client_profile_changes" IN
    /\ Succeed(t, "load_layer3")
    /\ snapshots' = [c \in Clients |->
                        IF \E i \in feed[t].loaded + 1..feed[t].staged : ChangeLog[i].client = c
                        THEN snapshots[c] \cup {"change"} ELSE snapshots[c]]
    /\ feed' = [feed EXCEPT ![t].loaded = feed[t].staged]
    /\ UNCHANGED <<stagedSignups, stagedProfiles, dims>>

----------------------------------------------------------------------------
FailSome(dag) == \E task \in Tasks(dag) : Fail(dag, task)

RunBootstrap ==
    \/ Trigger("bootstrap_warehouse") \/ FailSome("bootstrap_warehouse")
    \/ StageClientSignup \/ BuildDimManager \/ BuildDimInstrument
    \/ UpsertClientSignupDimension \/ StageClientProfile \/ UpsertClientProfileAndSeed

RunTable(t) ==
    \/ Trigger(t) \/ FailSome(t)
    \/ PassSensor(t) \/ LandLayer1(t) \/ StageLayer2(t)
    \/ t = "client_trades" /\ LoadTrades
    \/ t = "client_profile_changes" /\ LoadChanges

Next ==
    \/ \E c \in Clients : Amend(c)
    \/ \E i \in Instruments : Configure(i)
    \/ \E t \in Feeds : Record(t) \/ RunTable(t)
    \/ RunBootstrap
    \/ Migration \/ StartScheduler
    \/ \E dag \in Dags : \E task \in Tasks(dag) : Die(dag, task)

\* The table DAGs run every day and the operator triggers the bootstrap again
\* from time to time.  The tasks of a run are run one after the other, a sensor
\* until its timeout at the latest.
Fairness ==
    /\ WF_vars(RunBootstrap)
    /\ \A t \in Feeds : WF_vars(RunTable(t))

Spec == Init /\ [][Next]_vars /\ Fairness

----------------------------------------------------------------------------
(* Properties.                                                             *)

\* ADR-2: no change is applied to a client that was there before the log
\* started until it has its baseline, on a fresh deploy too, where the sensor
\* passes before anything is staged.
BaselineFirst ==
    \A c \in Clients :
        "change" \in snapshots[c] /\ ~InsertFirst(c, feed["client_profile_changes"].loaded)
            => "baseline" \in snapshots[c]

\* Whatever order the loads come in, a row of dim_client keeps what its two
\* owners gave it, never becomes an inferred one again, and is inferred for as
\* long as neither owner has loaded it.
OwnedColumnsKept ==
    [][\A c \in DOMAIN dimClient :
          LET old == dimClient[c]
              new == dimClient'[c]
          IN /\ old.signup <= new.signup
             /\ old.profile => new.profile
             /\ new.inferred <=> (new.signup = 0 /\ ~new.profile)]_vars

\* The two things that hold a feed of trades up for good: an instrument nobody
\* configures, and a trade dated before the insert of its client, or on the
\* day of it, that is not loaded before that is applied.
AwaitsConfiguration == ~(DerivedInstruments \subseteq mapped)

Stranded ==
    \E i \in StagedTrades :
        ~Resolvable(i) /\ InsertFirst(TradeLog[i].client, feed["client_profile_changes"].loaded)

\* Under the scheduler a recorded trade reaches the facts unless one of these
\* two holds the feed up, though its instrument has first to be added by a
\* bootstrap and its client's row and versions may have to be made up.  (Nothing
\* recorded is taken back and the scheduler stays live, so that all is loaded
\* again and again says that each is loaded once recorded; likewise below.)
EveryTradeLoaded ==
    []<>(phase = "live" =>
            \/ feed["client_trades"].loaded = feed["client_trades"].file
            \/ AwaitsConfiguration \/ Stranded)

\* Under the scheduler a recorded change is applied.
EveryChangeApplied ==
    []<>(phase = "live" =>
            feed["client_profile_changes"].loaded = feed["client_profile_changes"].file)

\* A client's row, inferred from a trade or not, comes to hold both owners'
\* columns as they are in the files.
EveryClientCompleted ==
    []<>(phase = "live" =>
            \A c \in profiles :
                /\ c \in DOMAIN dimClient
                /\ dimClient[c] = [inferred |-> FALSE, signup |-> signups[c], profile |-> TRUE])
=============================================================================
