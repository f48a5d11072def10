------------------------- MODULE OrchestrationProofs -------------------------
(***************************************************************************)
(* Theorems about the deployment: the types, the migrations, the order of   *)
(* baselines and changes that ADR-2 promises, and the owned columns of      *)
(* dim_client.                                                              *)
(***************************************************************************)
EXTENDS Orchestration, TLAPS

(***************************************************************************)
(* The inductive invariants.                                                *)
(***************************************************************************)

\* What TypeOK leaves unsaid: the domains of the functions it looks into.
Shape ==
    /\ todo \in [Dags -> SUBSET (BootstrapTasks \cup TableTasks)]
    /\ feed \in [Feeds -> [file : Nat, raw : Nat, staged : Nat, loaded : Nat]]
    /\ signups \in [Clients -> Nat]

\* Only the holder of the advisory lock has executed anything that is not
\* committed: the files up to its position that were not recorded before.
MigrateInv ==
    /\ \E n \in 0..Len(Manifest) : recorded = UpTo(n)
    /\ \A p, q \in Callers : call[p] = "apply" /\ call[q] = "apply" => p = q
    /\ \A p \in Callers :
          mine[p] = IF call[p] = "apply" THEN UpTo(position[p] - 1) \ recorded ELSE {}

\* A row is inferred for as long as neither owner has loaded it, and no table
\* is ahead of what it is loaded from.
RowsInv ==
    /\ \A c \in Clients : stagedSignups[c] <= signups[c]
    /\ \A c \in DOMAIN dimClient :
          /\ dimClient[c].inferred <=> (dimClient[c].signup = 0 /\ ~dimClient[c].profile)
          /\ dimClient[c].signup <= stagedSignups[c]

Changes == feed["client_profile_changes"]

\* The clients that had a profile before the log started.
Founders == Profiled \ Late

\* What stands between a sensor that has passed and the load it was for.
BaselineInv ==
    /\ Changes.loaded <= Changes.staged
    /\ Changes.staged <= Changes.raw
    /\ Changes.raw <= Changes.file
    \* a change is recorded of a client with a profile, or after its insert
    /\ \A i \in 1..Changes.file :
          InsertFirst(ChangeLog[i].client, i) \/ ChangeLog[i].client \in profiles
    \* the changes of a history come from the log
    /\ \A c \in Clients : "change" \in snapshots[c] =>
          SomeBaseline /\ \E i \in 1..Changes.loaded : ChangeLog[i].client = c
    \* a load's sensor has seen a baseline
    /\ "load_layer3" \in todo["client_profile_changes"] =>
          TableTasks \subseteq todo["client_profile_changes"] \/ SomeBaseline
    \* a seed's run has staged the profiles, and those there before the log
    \* are among them
    /\ Founders \subseteq profiles
    /\ "upsert_client_profile_dimension_and_baseline_seed" \in todo["bootstrap_warehouse"] =>
          "stage_client_profile" \in todo["bootstrap_warehouse"] \/ Founders \subseteq stagedProfiles
    \* the first seed has seeded all of them
    /\ SomeBaseline => \A c \in Founders :
          InsertFirst(c, Changes.file) \/ "baseline" \in snapshots[c]

\* Whoever is onboarded after go-live is registered by the log: its first
\* change is an insert.  (Without this a change may be applied before its
\* client's baseline: the sensor looked before the change was staged.)
LateClientsAreInserted ==
    \A c \in Late : \A i \in DOMAIN ChangeLog :
        ChangeLog[i].client = c => InsertFirst(c, i)

----------------------------------------------------------------------------
(* Migrations.                                                             *)

\* One more file of the manifest.
LEMMA UpToNext ==
    ASSUME NEW n \in 0..Len(Manifest) - 1
    PROVE  UpTo(n + 1) = UpTo(n) \cup {Manifest[n + 1]}
<1>1. Len(Manifest) \in Nat
  BY MigrateAssumption
<1>2. 1..n + 1 = 1..n \cup {n + 1}
  BY <1>1
<1> QED BY <1>2 DEF UpTo

\* Nothing up to a position is outside the manifest.
LEMMA UpToFiles ==
    ASSUME NEW n \in 0..Len(Manifest)
    PROVE  UpTo(n) \subseteq UpTo(Len(Manifest)) /\ UpTo(n) \subseteq ManifestFiles
<1>1. Len(Manifest) \in Nat /\ DOMAIN Manifest = 1..Len(Manifest)
  BY MigrateAssumption
<1>2. 1..n \subseteq 1..Len(Manifest)
  BY <1>1
<1> QED BY <1>1, <1>2 DEF UpTo, ManifestFiles

\* What every end of a call does to the working state.
LEMMA EndedCall ==
    ASSUME MigrateTypeOK, MigrateInv, NEW p \in Callers, Ended(p), recorded' = recorded \/ call[p] = "apply"
    PROVE  /\ call' \in [Callers -> CallStates]
           /\ position' \in [Callers -> 1..Len(Manifest) + 1]
           /\ mine' \in [Callers -> SUBSET ManifestFiles]
           /\ creating' \in Callers \cup {NoCaller}
           /\ \A q, r \in Callers : call'[q] = "apply" /\ call'[r] = "apply" => q = r
           /\ \A q \in Callers :
                mine'[q] = IF call'[q] = "apply" THEN UpTo(position'[q] - 1) \ recorded' ELSE {}
<1>1. Len(Manifest) \in Nat
  BY MigrateAssumption
<1>2. /\ call' \in [Callers -> CallStates]
      /\ position' \in [Callers -> 1..Len(Manifest) + 1]
      /\ mine' \in [Callers -> SUBSET ManifestFiles]
      /\ creating' \in Callers \cup {NoCaller}
  BY <1>1 DEF Ended, MigrateTypeOK, CallStates
<1>3. /\ call'[p] = "idle" /\ mine'[p] = {}
      /\ \A q \in Callers : q # p =>
            call'[q] = call[q] /\ mine'[q] = mine[q] /\ position'[q] = position[q]
  BY DEF Ended, MigrateTypeOK
<1>4. \A q \in Callers : call'[q] = "apply" => q # p /\ recorded' = recorded
  BY <1>3 DEF MigrateInv
<1> QED BY <1>2, <1>3, <1>4, ZenonT(60) DEF MigrateInv

\* A step of a call, and its commit.
LEMMA MigrateStepInv ==
    ASSUME MigrateTypeOK, MigrateInv, NEW p \in Callers, MigrateStep(p) \/ CommitCall(p)
    PROVE  MigrateTypeOK' /\ MigrateInv'
<1>1. Len(Manifest) \in Nat /\ DOMAIN Manifest = 1..Len(Manifest)
  BY MigrateAssumption
<1>2. CASE StartCall(p) \/ CreateTable(p) \/ CreateAfterWait(p)
  <2>1. /\ UNCHANGED <<table, recorded, edited, position, mine>>
        /\ call[p] \in {"idle", "create", "wait"}
        /\ \E s \in {"create", "lock", "wait"} : call' = [call EXCEPT ![p] = s]
        /\ creating' \in {creating, p}
    BY <1>2 DEF StartCall, CreateTable, CreateAfterWait
  <2>2. MigrateTypeOK'
    BY <2>1 DEF MigrateTypeOK, CallStates
  <2>3. \A q \in Callers : call'[q] = "apply" <=> call[q] = "apply"
    BY <2>1 DEF MigrateTypeOK
  <2> QED BY <2>1, <2>2, <2>3 DEF MigrateInv, UpTo
<1>3. CASE Lock(p)
  <2>1. MigrateTypeOK'
    BY <1>1, <1>3 DEF Lock, MigrateTypeOK, CallStates
  <2>2. /\ mine' = mine /\ recorded' = recorded
        /\ call'[p] = "apply" /\ position'[p] = 1 /\ call[p] = "lock"
        /\ \A q \in Callers : call[q] # "apply"
        /\ \A q \in Callers : q # p => call'[q] = call[q]
    BY <1>3 DEF Lock, Locked, MigrateTypeOK
  <2>3. UpTo(position'[p] - 1) = {}
    BY <2>2 DEF UpTo
  <2> QED BY <2>1, <2>2, <2>3 DEF MigrateInv, UpTo
<1>4. CASE ApplyFile(p)
  <2> DEFINE n == position[p]
             f == Manifest[n]
  <2>1. n \in 1..Len(Manifest) /\ f \in ManifestFiles
    BY <1>1, <1>4 DEF ApplyFile, MigrateTypeOK, ManifestFiles
  <2>2. MigrateTypeOK'
    BY <1>1, <1>4, <2>1 DEF ApplyFile, MigrateTypeOK
  <2>3. UpTo(n) = UpTo(n - 1) \cup {f}
    <3>1. n - 1 \in 0..Len(Manifest) - 1 /\ n - 1 + 1 = n
      BY <1>1, <2>1
    <3> QED BY <3>1, UpToNext
  <2>4. /\ UNCHANGED <<call, recorded>>
        /\ call[p] = "apply" /\ position'[p] = n + 1
        /\ mine'[p] = IF f \in recorded THEN mine[p] ELSE mine[p] \cup {f}
        /\ \A q \in Callers : q # p => mine'[q] = mine[q] /\ position'[q] = position[q]
    BY <1>4 DEF ApplyFile, MigrateTypeOK
  <2>5. mine[p] = UpTo(n - 1) \ recorded
    BY <2>4 DEF MigrateInv
  <2>6. mine'[p] = UpTo(n) \ recorded /\ position'[p] - 1 = n
    BY <2>1, <2>3, <2>4, <2>5
  <2>7. \A q \in Callers : mine'[q] =
           IF call'[q] = "apply" THEN UpTo(position'[q] - 1) \ recorded' ELSE {}
    BY <2>4, <2>6 DEF MigrateInv
  <2> QED BY <2>2, <2>4, <2>7 DEF MigrateInv, UpTo
<1>5. CASE CommitCall(p)
  <2>1. /\ Ended(p) /\ call[p] = "apply" /\ position[p] = Len(Manifest) + 1
        /\ recorded' = recorded \cup mine[p] /\ table' = TRUE /\ edited' = edited
    BY <1>1, <1>5 DEF CommitCall, MigrateTypeOK
  <2>2. mine[p] = UpTo(Len(Manifest)) \ recorded
    <3>1. position[p] - 1 = Len(Manifest)
      BY <1>1, <2>1
    <3> QED BY <2>1, <3>1 DEF MigrateInv
  <2>3. PICK m \in 0..Len(Manifest) : recorded = UpTo(m)
    BY DEF MigrateInv
  <2>4. recorded' = UpTo(Len(Manifest)) /\ Len(Manifest) \in 0..Len(Manifest)
    BY <1>1, <2>1, <2>2, <2>3, UpToFiles
  <2>5. MigrateTypeOK'
    BY <2>1, <2>4, EndedCall, UpToFiles DEF MigrateTypeOK
  <2>6. \E n \in 0..Len(Manifest) : recorded' = UpTo(n)
    BY <2>4
  <2> QED BY <2>1, <2>5, <2>6, EndedCall DEF MigrateInv, UpTo
<1>6. CASE FailCall(p)
  <2>1. Ended(p) /\ recorded' = recorded /\ table' = table /\ edited' = edited \ mine[p]
    BY <1>6 DEF FailCall
  <2>2. MigrateTypeOK'
    BY <2>1, EndedCall DEF MigrateTypeOK
  <2> QED BY <2>1, <2>2, EndedCall, Zenon DEF MigrateInv, UpTo
<1> QED BY <1>2, <1>3, <1>4, <1>5, <1>6 DEF MigrateStep

\* Every step of the deployment.
LEMMA NextMigrateInv ==
    ASSUME MigrateTypeOK, MigrateInv, [Next]_vars
    PROVE  MigrateTypeOK' /\ MigrateInv'
<1>1. CASE UNCHANGED migrateVars
  BY <1>1 DEF migrateVars, MigrateTypeOK, MigrateInv, UpTo
<1>2. CASE Migration
  <2>1. CASE \E f \in ManifestFiles : Edit(f)
    BY <2>1 DEF Edit, MigrateTypeOK, MigrateInv, UpTo
  <2> QED BY <1>2, <2>1, MigrateStepInv DEF Migration
<1> QED BY <1>1, <1>2, Zenon DEF Next, vars, Amend, Configure, Record, RunTable, RunBootstrap, StartScheduler,
      Trigger, FailSome, Fail, Die, Skip, Succeed, Bootstrap, StageClientSignup, BuildDimManager,
      BuildDimInstrument, UpsertClientSignupDimension, StageClientProfile,
      UpsertClientProfileAndSeed, PassSensor, LandLayer1, StageLayer2, LoadTrades, LoadChanges

\* Before any call nothing is recorded and nobody holds the lock.
LEMMA InitMigrateInv ==
    ASSUME Init
    PROVE  MigrateTypeOK /\ MigrateInv
<1>1. Len(Manifest) \in Nat
  BY MigrateAssumption
<1>2. PICK n \in 0..Len(Manifest) : recorded = UpTo(n) /\ table = (n > 0)
  BY DEF Init, MigrateInit
<1>3. table \in BOOLEAN /\ recorded \subseteq ManifestFiles
  BY <1>2, UpToFiles
<1>4. UpTo(0) = {}
  BY DEF UpTo
<1> QED BY <1>1, <1>2, <1>3, <1>4 DEF Init, MigrateInit, MigrateTypeOK, MigrateInv, CallStates
----------------------------------------------------------------------------
(* Types.                                                                  *)

\* The logs and the sign-ups are finite.
LEMMA LogTypes ==
    /\ \A t \in Feeds : Len(FeedLog[t]) \in Nat
    /\ Len(ChangeLog) \in Nat /\ Len(TradeLog) \in Nat
    /\ \A c \in Clients : Len(Signups[c]) \in Nat \ {0}
    /\ \A i \in 1..Len(ChangeLog) :
          ChangeLog[i].client \in Clients /\ ChangeLog[i].op \in {"insert", "update"}
    /\ \A i \in 1..Len(TradeLog) : TradeLog[i].client \in Clients
<1>1. Len(ChangeLog) \in Nat /\ Len(TradeLog) \in Nat
  BY OrchestrationAssumption
<1>2. \A t \in Feeds : FeedLog[t] = TradeLog \/ FeedLog[t] = ChangeLog
  BY DEF Feeds, FeedLog
<1>3. ASSUME NEW c \in Clients PROVE Len(Signups[c]) \in Nat \ {0}
  <2>1. Signups[c] \in Seq(STRING) /\ Signups[c] # <<>>
    BY OrchestrationAssumption
  <2> QED BY <2>1
<1>4. \A i \in 1..Len(ChangeLog) :
          ChangeLog[i].client \in Clients /\ ChangeLog[i].op \in {"insert", "update"}
  <2> DEFINE Lines == [client : Clients, op : {"insert", "update"}]
  <2>1. \A x \in Lines : x.client \in Clients /\ x.op \in {"insert", "update"}
    OBVIOUS
  <2>2. ChangeLog \in Seq(Lines)
    BY OrchestrationAssumption
  <2> HIDE DEF Lines
  <2> QED BY <2>1, <2>2
<1>5. \A i \in 1..Len(TradeLog) : TradeLog[i].client \in Clients
  <2> DEFINE Trades == [client : Clients, instrument : STRING, early : BOOLEAN]
  <2>1. \A x \in Trades : x.client \in Clients
    OBVIOUS
  <2>2. TradeLog \in Seq(Trades)
    BY OrchestrationAssumption
  <2> HIDE DEF Trades
  <2> QED BY <2>1, <2>2
<1> QED BY <1>1, <1>2, <1>3, <1>4, <1>5

\* Whatever a step does to a run's tasks, it is a set of tasks of that DAG.
LEMMA TodoType ==
    ASSUME TypeOK, Shape, NEW dag \in Dags, NEW S, todo' = [todo EXCEPT ![dag] = S],
           S \subseteq Tasks(dag)
    PROVE  /\ todo' \in [Dags -> SUBSET (BootstrapTasks \cup TableTasks)]
           /\ \A d \in Dags : todo'[d] \subseteq Tasks(d)
BY DEF TypeOK, Shape, Tasks

\* The same of what a task's success or failure leaves.
LEMMA LessTodoType ==
    ASSUME TypeOK, Shape, NEW dag \in Dags, NEW S, todo' = [todo EXCEPT ![dag] = @ \ S]
    PROVE  /\ todo' \in [Dags -> SUBSET (BootstrapTasks \cup TableTasks)]
           /\ \A d \in Dags : todo'[d] \subseteq Tasks(d)
<1>1. todo[dag] \ S \subseteq Tasks(dag) /\ todo' = [todo EXCEPT ![dag] = todo[dag] \ S]
  BY DEF TypeOK, Shape
<1> QED BY <1>1, TodoType

\* A feed's counts after one of them has been set.
LEMMA FeedType ==
    ASSUME TypeOK, Shape, NEW t \in Feeds, NEW n \in 0..Len(FeedLog[t]),
           \/ feed' = [feed EXCEPT ![t].file = n] \/ feed' = [feed EXCEPT ![t].raw = n]
           \/ feed' = [feed EXCEPT ![t].staged = n] \/ feed' = [feed EXCEPT ![t].loaded = n]
    PROVE  /\ feed' \in [Feeds -> [file : Nat, raw : Nat, staged : Nat, loaded : Nat]]
           /\ \A u \in Feeds : feed'[u] \in
                 [file : 0..Len(FeedLog[u]), raw : 0..Len(FeedLog[u]),
                  staged : 0..Len(FeedLog[u]), loaded : 0..Len(FeedLog[u])]
<1>1. n \in Nat
  BY LogTypes
<1>2. feed[t] \in [file : 0..Len(FeedLog[t]), raw : 0..Len(FeedLog[t]),
                   staged : 0..Len(FeedLog[t]), loaded : 0..Len(FeedLog[t])]
  BY DEF TypeOK
<1> DEFINE counts == feed'[t]
<1>3. /\ counts \in [file : Nat, raw : Nat, staged : Nat, loaded : Nat]
      /\ counts \in [file : 0..Len(FeedLog[t]), raw : 0..Len(FeedLog[t]),
                     staged : 0..Len(FeedLog[t]), loaded : 0..Len(FeedLog[t])]
  <2>1. counts \in {[feed[t] EXCEPT !.file = n], [feed[t] EXCEPT !.raw = n],
                    [feed[t] EXCEPT !.staged = n], [feed[t] EXCEPT !.loaded = n]}
    BY DEF Shape
  <2>2. feed[t] \in [file : Nat, raw : Nat, staged : Nat, loaded : Nat]
    BY DEF Shape
  <2> HIDE DEF counts
  <2> QED BY <1>1, <1>2, <2>1, <2>2
<1>4. feed' = [feed EXCEPT ![t] = counts]
  BY DEF Shape
<1> HIDE DEF counts
<1> QED BY <1>3, <1>4 DEF TypeOK, Shape

\* The kinds of steps there are.
LEMMA StepKinds ==
    ASSUME [Next]_vars
    PROVE  \/ UNCHANGED <<todo, deaths, files, pipeline>>
           \/ \E c \in Clients : Amend(c)
           \/ \E i \in Instruments : Configure(i)
           \/ \E t \in Feeds : Record(t)
           \/ \E dag \in Dags : Trigger(dag)
           \/ \E dag \in Dags : \E task \in Tasks(dag) :
                 /\ Skip(dag, task)
                 /\ deaths' = deaths \/ (deaths < MaxDeaths /\ deaths' = deaths + 1)
           \/ StageClientSignup \/ BuildDimManager \/ BuildDimInstrument
           \/ UpsertClientSignupDimension \/ StageClientProfile \/ UpsertClientProfileAndSeed
           \/ \E t \in Feeds : PassSensor(t) \/ LandLayer1(t) \/ StageLayer2(t)
           \/ LoadTrades \/ LoadChanges
<1>1. Feeds \subseteq Dags /\ "bootstrap_warehouse" \in Dags
  BY DEF Feeds, Dags
<1>2. ASSUME NEW dag \in Dags, FailSome(dag)
      PROVE  \E task \in Tasks(dag) : Skip(dag, task) /\ deaths' = deaths
  BY <1>2 DEF FailSome, Fail
<1>3. ASSUME NEW dag \in Dags, NEW task \in Tasks(dag), Die(dag, task)
      PROVE  Skip(dag, task) /\ deaths < MaxDeaths /\ deaths' = deaths + 1
  BY <1>3 DEF Die
<1>4. UNCHANGED vars \/ Migration \/ StartScheduler => UNCHANGED <<todo, deaths, files, pipeline>>
  BY DEF vars, Migration, StartScheduler
<1>5. CASE RunBootstrap
  BY <1>1, <1>2, <1>5 DEF RunBootstrap
<1>6. CASE \E t \in Feeds : Record(t) \/ RunTable(t)
  <2>1. PICK t \in Feeds : Record(t) \/ RunTable(t)
    BY <1>6
  <2>2. t \in Dags
    BY <1>1
  <2>3. CASE FailSome(t)
    <3>1. \E task \in Tasks(t) : Skip(t, task) /\ deaths' = deaths
      BY <1>2, <2>2, <2>3
    <3> QED BY <2>2, <3>1
  <2> QED BY <2>1, <2>2, <2>3 DEF RunTable
<1>7. CASE \E dag \in Dags : \E task \in Tasks(dag) : Die(dag, task)
  <2>1. PICK dag \in Dags : \E task \in Tasks(dag) : Die(dag, task)
    BY <1>7
  <2>2. PICK task \in Tasks(dag) : Die(dag, task)
    BY <2>1
  <2>3. Skip(dag, task) /\ deaths < MaxDeaths /\ deaths' = deaths + 1
    BY <1>3, <2>2
  <2> QED BY <2>3
<1> QED BY <1>4, <1>5, <1>6, <1>7 DEF Next

\* Steps that change nothing but a run's tasks, or not even those.
LEMMA TaskStepType ==
    ASSUME TypeOK, Shape, MigrateTypeOK', phase' \in {"migrating", "migrated", "live"},
           UNCHANGED <<files, pipeline>>, deaths' \in 0..MaxDeaths,
           \/ UNCHANGED todo
           \/ \E dag \in Dags : Trigger(dag)
           \/ \E dag \in Dags : \E task \in Tasks(dag) : Skip(dag, task)
    PROVE  TypeOK' /\ Shape'
<1>1. /\ todo' \in [Dags -> SUBSET (BootstrapTasks \cup TableTasks)]
      /\ \A d \in Dags : todo'[d] \subseteq Tasks(d)
  BY TodoType, LessTodoType, Zenon DEF Trigger, Skip, TypeOK, Shape
<1> QED BY <1>1 DEF TypeOK, Shape, files, pipeline, dims

\* No step but the migrations' and the scheduler's start changes the phase.
LEMMA PhaseType ==
    ASSUME TypeOK, [Next]_vars
    PROVE  phase' \in {"migrating", "migrated", "live"}
<1>1. phase' \in {phase, "migrated", "live"}
  BY Zenon DEF Next, vars, Migration, Amend, Configure, Record, RunTable, RunBootstrap, StartScheduler,
      Trigger, FailSome, Fail, Die, Skip, Succeed, Bootstrap, StageClientSignup, BuildDimManager,
      BuildDimInstrument, UpsertClientSignupDimension, StageClientProfile,
      UpsertClientProfileAndSeed, PassSensor, LandLayer1, StageLayer2, LoadTrades, LoadChanges
<1> QED BY <1>1 DEF TypeOK

\* A task that succeeds is removed from its run and nothing else of the run's
\* control changes.
LEMMA SucceedType ==
    ASSUME TypeOK, Shape, NEW dag \in Dags, NEW task, Succeed(dag, task)
    PROVE  /\ todo' \in [Dags -> SUBSET (BootstrapTasks \cup TableTasks)]
           /\ \A d \in Dags : todo'[d] \subseteq Tasks(d)
           /\ MigrateTypeOK' /\ phase' = phase /\ deaths' = deaths
           /\ signups' = signups /\ profiles' = profiles /\ mapped' = mapped
<1>1. todo' = [todo EXCEPT ![dag] = @ \ {task}]
  BY DEF Succeed
<1>2. UNCHANGED <<migrateVars, phase, deaths, files>>
  BY DEF Succeed
<1>3. MigrateTypeOK'
  BY <1>2 DEF TypeOK, MigrateTypeOK, migrateVars
<1> QED BY <1>1, <1>2, <1>3, LessTodoType DEF files

\* The trades that are staged are of known clients.
LEMMA TradingType ==
    ASSUME TypeOK, Shape
    PROVE  Trading \subseteq Clients
<1>1. feed["client_trades"].staged \in 0..Len(TradeLog)
  <2>1. "client_trades" \in Feeds
    BY DEF Feeds
  <2>2. feed["client_trades"] \in
           [file : 0..Len(TradeLog), raw : 0..Len(TradeLog),
            staged : 0..Len(TradeLog), loaded : 0..Len(TradeLog)]
    BY <2>1 DEF TypeOK, FeedLog
  <2> QED BY <2>2
<1>2. \A i \in 1..feed["client_trades"].staged : i \in 1..Len(TradeLog)
  BY <1>1, LogTypes
<1> QED BY <1>2, LogTypes DEF Trading, StagedTrades

\* The static files, the configuration and the feeds grow.
LEMMA EnvironmentType ==
    ASSUME TypeOK, Shape, \/ \E c \in Clients : Amend(c)
                          \/ \E i \in Instruments : Configure(i)
                          \/ \E t \in Feeds : Record(t)
    PROVE  TypeOK' /\ Shape'
<1>1. ASSUME NEW c \in Clients, Amend(c) PROVE TypeOK' /\ Shape'
  <2>1. UNCHANGED <<migrateVars, phase, todo, deaths, mapped, pipeline>>
    BY <1>1 DEF Amend
  <2>2. signups' = [signups EXCEPT ![c] = @ + 1] /\ signups[c] < Len(Signups[c])
    BY <1>1 DEF Amend
  <2>3. signups' \in [Clients -> Nat] /\ \A d \in Clients : signups'[d] \in 0..Len(Signups[d])
    BY <2>2, LogTypes DEF Shape, TypeOK
  <2>4. profiles' \subseteq Profiled /\ profiles \subseteq profiles'
    BY <1>1 DEF Amend, TypeOK
  <2> QED BY <2>1, <2>3, <2>4 DEF TypeOK, MigrateTypeOK, migrateVars, Shape, pipeline, dims
<1>2. ASSUME NEW t \in Feeds, Record(t) PROVE TypeOK' /\ Shape'
  <2>1. /\ UNCHANGED <<migrateVars, phase, todo, deaths, files>>
        /\ UNCHANGED <<stagedSignups, stagedProfiles, dims, snapshots>>
    BY <1>2 DEF Record
  <2>2. feed' = [feed EXCEPT ![t].file = feed[t].file + 1] /\ feed[t].file < Len(FeedLog[t])
    BY <1>2 DEF Record, Shape
  <2>3. feed[t].file + 1 \in 0..Len(FeedLog[t])
    BY <2>2, LogTypes DEF Shape
  <2>4. /\ feed' \in [Feeds -> [file : Nat, raw : Nat, staged : Nat, loaded : Nat]]
        /\ \A u \in Feeds : feed'[u] \in
              [file : 0..Len(FeedLog[u]), raw : 0..Len(FeedLog[u]),
               staged : 0..Len(FeedLog[u]), loaded : 0..Len(FeedLog[u])]
    BY <2>2, <2>3, FeedType
  <2> QED BY <2>1, <2>4 DEF TypeOK, MigrateTypeOK, migrateVars, Shape, files, dims
<1>3. ASSUME NEW i \in Instruments, Configure(i) PROVE TypeOK' /\ Shape'
  <2>1. UNCHANGED <<migrateVars, phase, todo, deaths, signups, profiles, pipeline>>
    BY <1>3 DEF Configure
  <2>2. mapped' \subseteq Configured \cup Instruments
    BY <1>3 DEF Configure, TypeOK
  <2> QED BY <2>1, <2>2 DEF TypeOK, MigrateTypeOK, migrateVars, Shape, pipeline, dims
<1> QED BY <1>1, <1>2, <1>3

\* The tasks of bootstrap_warehouse.
LEMMA BootstrapType ==
    ASSUME TypeOK, Shape,
           \/ StageClientSignup \/ BuildDimManager \/ BuildDimInstrument
           \/ UpsertClientSignupDimension \/ StageClientProfile \/ UpsertClientProfileAndSeed
    PROVE  TypeOK' /\ Shape'
<1>1. PICK task : Bootstrap(task)
  BY DEF StageClientSignup, BuildDimManager, BuildDimInstrument, UpsertClientSignupDimension,
         StageClientProfile, UpsertClientProfileAndSeed
<1>2. /\ todo' \in [Dags -> SUBSET (BootstrapTasks \cup TableTasks)]
      /\ \A d \in Dags : todo'[d] \subseteq Tasks(d)
      /\ MigrateTypeOK' /\ phase' = phase /\ deaths' = deaths
      /\ signups' = signups /\ profiles' = profiles /\ mapped' = mapped
  BY <1>1, SucceedType DEF Bootstrap, Dags
<1>3. CASE StageClientSignup
  BY <1>2, <1>3 DEF StageClientSignup, TypeOK, Shape, dims
<1>4. CASE BuildDimManager
  BY <1>2, <1>4 DEF BuildDimManager, TypeOK, Shape
<1>5. CASE BuildDimInstrument
  BY <1>2, <1>5 DEF BuildDimInstrument, TypeOK, Shape
<1>6. CASE UpsertClientSignupDimension
  <2> DEFINE Row(c) == [Known(c) EXCEPT !.signup = stagedSignups[c], !.inferred = FALSE]
  <2>1. ASSUME NEW c \in SignedUp
        PROVE  Row(c) \in [inferred : BOOLEAN, signup : 0..Len(Signups[c]), profile : BOOLEAN]
    <3>1. c \in Clients /\ stagedSignups[c] \in 0..Len(Signups[c])
      BY DEF SignedUp, TypeOK
    <3>2. Known(c) \in [inferred : BOOLEAN, signup : 0..Len(Signups[c]), profile : BOOLEAN]
      BY <3>1, LogTypes DEF Known, NoClient, TypeOK
    <3> QED BY <3>1, <3>2
  <2>2. dimClient' = [c \in DOMAIN dimClient \cup SignedUp |->
                         IF c \in SignedUp THEN Row(c) ELSE dimClient[c]]
    BY <1>6 DEF UpsertClientSignupDimension
  <2> HIDE DEF Row
  <2>3. /\ DOMAIN dimClient' \subseteq Clients
        /\ \A c \in DOMAIN dimClient' : dimClient'[c] \in
              [inferred : BOOLEAN, signup : 0..Len(Signups[c]), profile : BOOLEAN]
    BY <2>1, <2>2 DEF TypeOK, SignedUp
  <2> QED BY <1>2, <1>6, <2>3 DEF UpsertClientSignupDimension, TypeOK, Shape
<1>7. CASE StageClientProfile
  BY <1>2, <1>7 DEF StageClientProfile, TypeOK, Shape, dims
<1>8. CASE UpsertClientProfileAndSeed
  <2>1. ASSUME NEW c \in stagedProfiles
        PROVE  ProfileRow(c) \in [inferred : BOOLEAN, signup : 0..Len(Signups[c]), profile : BOOLEAN]
    <3>1. c \in Clients
      BY OrchestrationAssumption DEF TypeOK
    <3>2. Known(c) \in [inferred : BOOLEAN, signup : 0..Len(Signups[c]), profile : BOOLEAN]
      BY <3>1, LogTypes DEF Known, NoClient, TypeOK
    <3> QED BY <3>2 DEF ProfileRow
  <2>2. dimClient' = [c \in DOMAIN dimClient \cup stagedProfiles |->
                         IF c \in stagedProfiles THEN ProfileRow(c) ELSE dimClient[c]]
    BY <1>8 DEF UpsertClientProfileAndSeed
  <2>3. /\ DOMAIN dimClient' \subseteq Clients
        /\ \A c \in DOMAIN dimClient' : dimClient'[c] \in
              [inferred : BOOLEAN, signup : 0..Len(Signups[c]), profile : BOOLEAN]
    BY <2>1, <2>2, OrchestrationAssumption DEF TypeOK
  <2>4. snapshots' \in [Clients -> SUBSET Kinds]
    BY <1>8 DEF UpsertClientProfileAndSeed, TypeOK, Kinds
  <2> QED BY <1>2, <1>8, <2>3, <2>4 DEF UpsertClientProfileAndSeed, TypeOK, Shape
<1> QED BY <1>3, <1>4, <1>5, <1>6, <1>7, <1>8

\* The tasks of the table DAGs.
LEMMA TableTasksType ==
    ASSUME TypeOK, Shape,
           \/ \E t \in Feeds : PassSensor(t) \/ LandLayer1(t) \/ StageLayer2(t)
           \/ LoadTrades \/ LoadChanges
    PROVE  TypeOK' /\ Shape'
<1>1. PICK t \in Feeds : \/ PassSensor(t) \/ LandLayer1(t) \/ StageLayer2(t)
                         \/ t = "client_trades" /\ LoadTrades
                         \/ t = "client_profile_changes" /\ LoadChanges
  BY DEF Feeds
<1>2. \E task : Succeed(t, task)
  BY <1>1 DEF PassSensor, LandLayer1, StageLayer2, LoadTrades, LoadChanges
<1>3. /\ todo' \in [Dags -> SUBSET (BootstrapTasks \cup TableTasks)]
      /\ \A d \in Dags : todo'[d] \subseteq Tasks(d)
      /\ MigrateTypeOK' /\ phase' = phase /\ deaths' = deaths
      /\ signups' = signups /\ profiles' = profiles /\ mapped' = mapped
  BY <1>2, SucceedType DEF Dags, Feeds
<1>4. CASE PassSensor(t)
  BY <1>3, <1>4 DEF PassSensor, TypeOK, Shape, pipeline, dims
<1> DEFINE Counted == /\ feed' \in [Feeds -> [file : Nat, raw : Nat, staged : Nat, loaded : Nat]]
                      /\ \A u \in Feeds : feed'[u] \in
                            [file : 0..Len(FeedLog[u]), raw : 0..Len(FeedLog[u]),
                             staged : 0..Len(FeedLog[u]), loaded : 0..Len(FeedLog[u])]
<1>5. {feed[t].file, feed[t].raw, feed[t].staged} \subseteq 0..Len(FeedLog[t])
  BY DEF TypeOK
<1>6. Counted
  <2>1. CASE UNCHANGED feed
    BY <2>1 DEF TypeOK, Shape
  <2> QED BY <1>1, <1>5, <2>1, FeedType
          DEF PassSensor, pipeline, LandLayer1, StageLayer2, LoadTrades, LoadChanges
<1>7. CASE LandLayer1(t)
  BY <1>3, <1>6, <1>7 DEF LandLayer1, TypeOK, Shape, dims
<1>8. CASE StageLayer2(t)
  BY <1>3, <1>6, <1>8 DEF StageLayer2, TypeOK, Shape, dims
<1>9. CASE LoadTrades
  <2>1. ASSUME NEW c \in Trading
        PROVE  InferredRow(c) \in [inferred : BOOLEAN, signup : 0..Len(Signups[c]), profile : BOOLEAN]
    <3>1. c \in Clients
      BY TradingType
    <3>2. CASE c \in DOMAIN dimClient
      BY <3>2 DEF InferredRow, TypeOK
    <3>3. CASE c \notin DOMAIN dimClient
      <4>1. 0 \in 0..Len(Signups[c])
        BY <3>1, LogTypes
      <4>2. InferredRow(c) = [inferred |-> TRUE, signup |-> 0, profile |-> FALSE]
        BY <3>3 DEF InferredRow, NoClient
      <4> QED BY <4>1, <4>2
    <3> QED BY <3>2, <3>3
  <2>2. dimClient' = [c \in DOMAIN dimClient \cup Trading |->
                         IF c \in Trading THEN InferredRow(c) ELSE dimClient[c]]
    BY <1>9 DEF LoadTrades
  <2>3. /\ DOMAIN dimClient' \subseteq Clients
        /\ \A c \in DOMAIN dimClient' : dimClient'[c] \in
              [inferred : BOOLEAN, signup : 0..Len(Signups[c]), profile : BOOLEAN]
    BY <2>1, <2>2, TradingType DEF TypeOK
  <2>4. snapshots' \in [Clients -> SUBSET Kinds]
    BY <1>9 DEF LoadTrades, TypeOK, Kinds
  <2> QED BY <1>3, <1>6, <1>9, <2>3, <2>4 DEF LoadTrades, TypeOK, Shape
<1>10. CASE LoadChanges
  <2>1. snapshots' \in [Clients -> SUBSET Kinds]
    BY <1>10 DEF LoadChanges, TypeOK, Kinds
  <2> QED BY <1>3, <1>6, <1>10, <2>1 DEF LoadChanges, TypeOK, Shape, dims
<1> QED BY <1>1, <1>4, <1>7, <1>8, <1>9, <1>10

\* Every step.
LEMMA NextType ==
    ASSUME TypeOK, MigrateInv, Shape, [Next]_vars
    PROVE  TypeOK' /\ MigrateInv' /\ Shape'
<1>1. MigrateTypeOK' /\ MigrateInv' /\ phase' \in {"migrating", "migrated", "live"}
  BY NextMigrateInv, PhaseType DEF TypeOK
<1>2. CASE UNCHANGED <<todo, deaths, files, pipeline>>
  BY <1>1, <1>2, TaskStepType DEF TypeOK
<1>3. CASE \E dag \in Dags : Trigger(dag)
  BY <1>1, <1>3, TaskStepType DEF TypeOK, Trigger
<1>4. ASSUME NEW dag \in Dags, NEW task \in Tasks(dag), Skip(dag, task),
             deaths' = deaths \/ (deaths < MaxDeaths /\ deaths' = deaths + 1)
      PROVE  TypeOK' /\ Shape'
  <2>1. deaths' \in 0..MaxDeaths
    BY <1>4, OrchestrationAssumption DEF TypeOK
  <2> QED BY <1>1, <1>4, <2>1, TaskStepType DEF Skip
<1> QED BY <1>1, <1>2, <1>3, <1>4, StepKinds, EnvironmentType, BootstrapType, TableTasksType

\* The empty deployment has the types.
LEMMA InitType ==
    ASSUME Init
    PROVE  TypeOK /\ Shape
<1>1. Feeds \subseteq {"client_trades", "client_profile_changes"}
  BY DEF Feeds
<1>2. MigrateTypeOK
  BY InitMigrateInv
<1>3. \A c \in Clients : {0, 1} \subseteq 0..Len(Signups[c])
  BY LogTypes
<1>4. \A t \in Feeds : 0 \in 0..Len(FeedLog[t])
  BY LogTypes
<1> QED BY <1>2, <1>3, <1>4, OrchestrationAssumption DEF Init, TypeOK, Shape, Kinds

\* Every row has its columns, every run its DAG's tasks, every table the rows
\* of known clients: for any clients, logs, manifest and number of deaths.
THEOREM TypeCorrect == Spec => []TypeOK
<1>1. Init => TypeOK /\ MigrateInv /\ Shape
  BY InitType, InitMigrateInv
<1>2. TypeOK /\ MigrateInv /\ Shape /\ [Next]_vars => (TypeOK /\ MigrateInv /\ Shape)'
  BY NextType
<1> QED BY <1>1, <1>2, PTL DEF Spec

\* MigratedOnce: whatever calls of run_migrations overlap or fail, no file is
\* executed by two of them or again once it is recorded, and the recorded
\* files are the first of the manifest.
THEOREM MigrationTheorem == Spec => []MigratedOnce
<1>1. Init => TypeOK /\ MigrateInv /\ Shape
  BY InitType, InitMigrateInv
<1>2. TypeOK /\ MigrateInv /\ Shape /\ [Next]_vars => (TypeOK /\ MigrateInv /\ Shape)'
  BY NextType
<1>3. MigrateInv => MigratedOnce
  BY DEF MigrateInv, MigratedOnce
<1> QED BY <1>1, <1>2, <1>3, PTL DEF Spec
----------------------------------------------------------------------------
(* The owned columns.                                                      *)

\* The steps that change a row of dim_client or what it is loaded from.
LEMMA RowSteps ==
    ASSUME [Next]_vars
    PROVE  \/ UNCHANGED <<signups, stagedSignups, dimClient>>
           \/ \E c \in Clients : Amend(c)
           \/ StageClientSignup \/ UpsertClientSignupDimension
           \/ UpsertClientProfileAndSeed \/ LoadTrades
BY StepKinds DEF files, pipeline, dims, Configure, Record, Trigger, Skip, Succeed, Bootstrap, BuildDimManager,
       BuildDimInstrument, StageClientProfile, PassSensor, LandLayer1, StageLayer2, LoadChanges

\* A row of dim_client, and the version it may have of a client's sign-up.
RowInv(c, row) ==
    /\ row.inferred <=> (row.signup = 0 /\ ~row.profile)
    /\ row.signup <= stagedSignups[c]

\* A row that takes another's place without losing what its owners gave it.
Keeps(old, new) == old.signup <= new.signup /\ (old.profile => new.profile)

\* What is known of a client before a load: its row, or nothing of its owners.
LEMMA KnownRow ==
    ASSUME TypeOK, RowsInv, NEW c \in Clients
    PROVE  /\ Known(c) \in [inferred : BOOLEAN, signup : Nat, profile : BOOLEAN]
           /\ Known(c).signup <= stagedSignups[c]
           /\ c \in DOMAIN dimClient => Known(c) = dimClient[c] /\ RowInv(c, Known(c))
<1>1. stagedSignups[c] \in 0..Len(Signups[c])
  BY DEF TypeOK
<1>2. CASE c \in DOMAIN dimClient
  <2>1. dimClient[c] \in [inferred : BOOLEAN, signup : Nat, profile : BOOLEAN]
    BY <1>2, LogTypes DEF TypeOK
  <2> QED BY <1>2, <2>1 DEF Known, RowsInv, RowInv
<1>3. CASE c \notin DOMAIN dimClient
  BY <1>1, <1>3, LogTypes DEF Known, NoClient
<1> QED BY <1>2, <1>3

\* RowsInv is kept, and so is every row.
LEMMA NextRows ==
    ASSUME TypeOK, Shape, RowsInv, [Next]_vars
    PROVE  RowsInv' /\ \A c \in DOMAIN dimClient :
                          c \in DOMAIN dimClient' /\ Keeps(dimClient[c], dimClient'[c])
<1>1. /\ DOMAIN dimClient \subseteq Clients
      /\ \A c \in DOMAIN dimClient : Keeps(dimClient[c], dimClient[c])
  BY LogTypes DEF TypeOK, Keeps
<1>2. CASE UNCHANGED <<signups, stagedSignups, dimClient>>
  BY <1>1, <1>2 DEF RowsInv
<1>3. ASSUME NEW c \in Clients, Amend(c)
      PROVE  RowsInv' /\ dimClient' = dimClient
  <2>1. UNCHANGED <<stagedSignups, dimClient>>
    BY <1>3 DEF Amend, pipeline, dims
  <2>2. \A d \in Clients : signups[d] <= signups'[d] /\ signups'[d] \in Nat
    BY <1>3 DEF Amend, Shape
  <2>3. \A d \in Clients : stagedSignups[d] \in Nat
    BY LogTypes DEF TypeOK
  <2> QED BY <2>1, <2>2, <2>3 DEF RowsInv, Shape
<1>4. CASE StageClientSignup
  <2>1. stagedSignups' = signups /\ signups' = signups /\ dimClient' = dimClient
    BY <1>4 DEF StageClientSignup, Bootstrap, Succeed, files, dims
  <2>2. ASSUME NEW c \in DOMAIN dimClient PROVE dimClient[c].signup <= stagedSignups'[c]
    <3>1. c \in Clients /\ dimClient[c].signup \in Nat /\ stagedSignups[c] \in Nat /\ signups[c] \in Nat
      BY LogTypes DEF TypeOK
    <3>2. dimClient[c].signup <= stagedSignups[c] /\ stagedSignups[c] <= signups[c]
      BY <3>1 DEF RowsInv
    <3> QED BY <2>1, <3>1, <3>2
  <2>3. \A c \in Clients : stagedSignups'[c] <= signups'[c]
    BY <2>1 DEF Shape
  <2> QED BY <1>1, <2>1, <2>2, <2>3 DEF RowsInv
<1>5. CASE UpsertClientSignupDimension
  <2> DEFINE Row(c) == [Known(c) EXCEPT !.signup = stagedSignups[c], !.inferred = FALSE]
  <2>1. /\ UNCHANGED <<signups, stagedSignups>>
        /\ dimClient' = [c \in DOMAIN dimClient \cup SignedUp |->
                            IF c \in SignedUp THEN Row(c) ELSE dimClient[c]]
    BY <1>5 DEF UpsertClientSignupDimension, Bootstrap, Succeed, files
  <2>2. ASSUME NEW c \in SignedUp
        PROVE  RowInv(c, Row(c)) /\ (c \in DOMAIN dimClient => Keeps(dimClient[c], Row(c)))
    <3>1. c \in Clients /\ stagedSignups[c] \in Nat /\ stagedSignups[c] > 0
      BY LogTypes DEF SignedUp, TypeOK
    <3>2. /\ Row(c).signup = stagedSignups[c] /\ Row(c).inferred = FALSE
          /\ Row(c).profile = Known(c).profile
      BY <3>1, KnownRow
    <3> HIDE DEF Row
    <3> QED BY <3>1, <3>2, KnownRow DEF RowInv, Keeps
  <2> HIDE DEF Row
  <2> QED BY <1>1, <2>1, <2>2 DEF RowsInv, RowInv
<1>6. CASE UpsertClientProfileAndSeed
  <2>1. /\ UNCHANGED <<signups, stagedSignups>>
        /\ dimClient' = [c \in DOMAIN dimClient \cup stagedProfiles |->
                            IF c \in stagedProfiles THEN ProfileRow(c) ELSE dimClient[c]]
    BY <1>6 DEF UpsertClientProfileAndSeed, Bootstrap, Succeed, files
  <2>2. ASSUME NEW c \in stagedProfiles
        PROVE  RowInv(c, ProfileRow(c)) /\ (c \in DOMAIN dimClient => Keeps(dimClient[c], ProfileRow(c)))
    <3>1. c \in Clients
      BY OrchestrationAssumption DEF TypeOK
    <3>2. /\ ProfileRow(c).signup = Known(c).signup /\ ProfileRow(c).inferred = FALSE
          /\ ProfileRow(c).profile = TRUE
      BY <3>1, KnownRow DEF ProfileRow
    <3> QED BY <3>1, <3>2, KnownRow DEF RowInv, Keeps
  <2> QED BY <1>1, <2>1, <2>2 DEF RowsInv, RowInv
<1>7. CASE LoadTrades
  <2>1. /\ UNCHANGED <<signups, stagedSignups>>
        /\ dimClient' = [c \in DOMAIN dimClient \cup Trading |->
                            IF c \in Trading THEN InferredRow(c) ELSE dimClient[c]]
    BY <1>7 DEF LoadTrades, Succeed, files
  <2>2. ASSUME NEW c \in Trading
        PROVE  RowInv(c, InferredRow(c)) /\ (c \in DOMAIN dimClient => InferredRow(c) = dimClient[c])
    <3>1. c \in Clients /\ stagedSignups[c] \in Nat
      BY TradingType, LogTypes DEF TypeOK
    <3>2. CASE c \in DOMAIN dimClient
      BY <3>2 DEF InferredRow, RowInv, RowsInv
    <3>3. CASE c \notin DOMAIN dimClient
      BY <3>1, <3>3 DEF InferredRow, NoClient, RowInv
    <3> QED BY <3>2, <3>3
  <2> QED BY <1>1, <2>1, <2>2 DEF RowsInv, RowInv
<1> QED BY <1>1, <1>2, <1>3, <1>4, <1>5, <1>6, <1>7, RowSteps

\* At first dim_client has no rows.
LEMMA InitRows ==
    ASSUME Init
    PROVE  RowsInv
BY DEF Init, RowsInv

\* OwnedColumnsKept: no order of staging, upserts, seeds and fact loads takes
\* from a row of dim_client what one of its owners gave it, or leaves it
\* flagged as inferred when an owner has loaded it.
THEOREM ColumnsTheorem == Spec => OwnedColumnsKept
<1>1. Init => TypeOK /\ MigrateInv /\ Shape /\ RowsInv
  BY InitType, InitMigrateInv, InitRows
<1>2. TypeOK /\ MigrateInv /\ Shape /\ RowsInv /\ [Next]_vars
         => (TypeOK /\ MigrateInv /\ Shape /\ RowsInv)'
  BY NextType, NextRows
<1>3. RowsInv' /\ TypeOK' /\ TypeOK /\ Shape /\ RowsInv /\ [Next]_vars =>
         [\A c \in DOMAIN dimClient :
             LET old == dimClient[c]
                 new == dimClient'[c]
             IN /\ old.signup <= new.signup
                /\ old.profile => new.profile
                /\ new.inferred <=> (new.signup = 0 /\ ~new.profile)]_vars
  BY NextRows DEF RowsInv, Keeps
<1> QED BY <1>1, <1>2, <1>3, PTL DEF Spec, OwnedColumnsKept
----------------------------------------------------------------------------
(* Baselines before changes.                                               *)

\* A longer log has the same first changes.
LEMMA InsertFirstLonger ==
    ASSUME NEW c, NEW n \in Nat, NEW m \in Nat, n <= m, InsertFirst(c, n)
    PROVE  InsertFirst(c, m)
<1>1. 1..n \subseteq 1..m
  OBVIOUS
<1> QED BY <1>1 DEF InsertFirst

\* What does not run with a task that fails includes what follows it.
LEMMA DownstreamClosed ==
    ASSUME NEW dag \in Dags, NEW task \in Tasks(dag), NEW e \in Edges(dag),
           e[2] \in Tasks(dag), e[1] \in Downstream[dag][task]
    PROVE  e[2] \in Downstream[dag][task]
BY DEF Downstream, Closed

\* So a run whose load is not skipped is the same up to it.
LEMMA SkipKeeps ==
    ASSUME Shape, NEW dag \in Dags, NEW task \in Tasks(dag), Skip(dag, task)
    PROVE  /\ \A d \in Dags : todo'[d] \subseteq todo[d]
           /\ "load_layer3" \in todo'["client_profile_changes"] =>
                \A t \in TableTasks : t \in todo["client_profile_changes"]
                                         => t \in todo'["client_profile_changes"]
           /\ "upsert_client_profile_dimension_and_baseline_seed" \in todo'["bootstrap_warehouse"] =>
                ("stage_client_profile" \in todo["bootstrap_warehouse"]
                    => "stage_client_profile" \in todo'["bootstrap_warehouse"])
<1> DEFINE D == Downstream[dag][task]
<1>1. todo' = [todo EXCEPT ![dag] = todo[dag] \ D]
  BY DEF Skip, Shape
<1>2. \A d \in Dags : todo'[d] = IF d = dag THEN todo[d] \ D ELSE todo[d]
  BY <1>1 DEF Shape
<1>3. ASSUME dag = "client_profile_changes", "load_layer3" \notin D
      PROVE  "stage_layer2" \notin D /\ "land_layer1" \notin D /\ "wait" \notin D
  <2>1. /\ <<"stage_layer2", "load_layer3">> \in Edges(dag)
        /\ <<"land_layer1", "stage_layer2">> \in Edges(dag)
        /\ <<"wait", "land_layer1">> \in Edges(dag)
        /\ {"load_layer3", "stage_layer2", "land_layer1"} \subseteq Tasks(dag)
    BY <1>3 DEF Edges, TableEdges, Tasks, TableTasks
  <2>2. <<"stage_layer2", "load_layer3">>[1] \notin D
    BY <1>3, <2>1, DownstreamClosed
  <2>3. <<"land_layer1", "stage_layer2">>[1] \notin D
    BY <2>1, <2>2, DownstreamClosed
  <2>4. <<"wait", "land_layer1">>[1] \notin D
    BY <2>1, <2>3, DownstreamClosed
  <2> QED BY <2>2, <2>3, <2>4
<1>4. ASSUME dag = "bootstrap_warehouse",
             "upsert_client_profile_dimension_and_baseline_seed" \notin D
      PROVE  "stage_client_profile" \notin D
  <2> DEFINE e == <<"stage_client_profile", "upsert_client_profile_dimension_and_baseline_seed">>
  <2>1. e \in Edges(dag) /\ e[2] \in Tasks(dag)
    BY <1>4 DEF Edges, BootstrapEdges, Tasks, BootstrapTasks
  <2>2. e[1] \notin D
    BY <1>4, <2>1, DownstreamClosed
  <2> QED BY <2>2
<1> HIDE DEF D
<1> QED BY <1>2, <1>3, <1>4 DEF Dags, TableTasks

\* The counts of the change feed.
LEMMA ChangesType ==
    ASSUME TypeOK, Shape
    PROVE  /\ Changes \in [file : Nat, raw : Nat, staged : Nat, loaded : Nat]
           /\ Changes.file <= Len(ChangeLog)
<1>1. "client_profile_changes" \in Feeds /\ FeedLog["client_profile_changes"] = ChangeLog
  BY DEF Feeds, FeedLog
<1>2. feed["client_profile_changes"].file \in 0..Len(ChangeLog)
  BY <1>1 DEF TypeOK
<1> QED BY <1>1, <1>2, LogTypes DEF Shape, Changes

\* What is recorded: a change of a client with a profile or an insert.
LEMMA RecordBaselineInv ==
    ASSUME TypeOK, Shape, BaselineInv, NEW t \in Feeds, Record(t)
    PROVE  BaselineInv'
<1>1. UNCHANGED <<todo, profiles, stagedProfiles, snapshots>>
  BY DEF Record, files
<1>2. CASE t = "client_trades"
  <2>1. Changes' = Changes
    BY <1>2 DEF Record, Changes, Shape
  <2> QED BY <1>1, <2>1 DEF BaselineInv, SomeBaseline
<1>3. CASE t = "client_profile_changes"
  <2> DEFINE n == Changes.file + 1
  <2>1. Changes' = [Changes EXCEPT !.file = n] /\ n \in Nat
    BY <1>3, ChangesType DEF Record, Changes, Shape
  <2>2. Changes.file < Len(ChangeLog)
    BY <1>3 DEF Record, FeedLog, Changes
  <2>3. n \in 1..Len(ChangeLog)
    BY <2>1, <2>2, ChangesType, LogTypes
  <2>4. /\ Changes'.file = n /\ Changes'.raw = Changes.raw /\ Changes'.staged = Changes.staged
        /\ Changes'.loaded = Changes.loaded
    BY <2>1, ChangesType
  <2>5. ChangeLog[n].op = "insert" \/ ChangeLog[n].client \in profiles
    BY <1>3 DEF Record, Changes
  <2>6. InsertFirst(ChangeLog[n].client, n) \/ ChangeLog[n].client \in profiles
    <3>1. SUFFICES ASSUME ChangeLog[n].op = "insert", ChangeLog[n].client \notin profiles
                   PROVE  InsertFirst(ChangeLog[n].client, n)
      BY <2>5
    <3>2. CASE \E i \in 1..Changes.file : ChangeLog[i].client = ChangeLog[n].client
      <4>1. PICK i \in 1..Changes.file : ChangeLog[i].client = ChangeLog[n].client
        BY <3>2
      <4>2. InsertFirst(ChangeLog[n].client, i)
        BY <3>1, <4>1 DEF BaselineInv
      <4>3. i \in Nat /\ n \in Nat /\ i <= n
        BY <2>1, ChangesType
      <4> QED BY <4>2, <4>3, InsertFirstLonger
    <3>3. CASE \A i \in 1..Changes.file : ChangeLog[i].client # ChangeLog[n].client
      <4>1. ChangeLog[n] = [client |-> ChangeLog[n].client, op |-> "insert"]
        <5> DEFINE Lines == [client : Clients, op : {"insert", "update"}]
        <5>1. \A x \in Lines : x.op = "insert" => x = [client |-> x.client, op |-> "insert"]
          OBVIOUS
        <5>2. ChangeLog \in Seq(Lines)
          BY OrchestrationAssumption
        <5> HIDE DEF Lines
        <5> QED BY <2>3, <3>1, <5>1, <5>2
      <4>2. n \in 1..n /\ n - 1 = Changes.file
        BY <2>1, ChangesType
      <4> QED BY <3>3, <4>1, <4>2 DEF InsertFirst
    <3> QED BY <3>2, <3>3
  <2>7. \A i \in 1..n : InsertFirst(ChangeLog[i].client, i) \/ ChangeLog[i].client \in profiles
    <3>1. \A i \in 1..n : i = n \/ i \in 1..Changes.file
      BY ChangesType
    <3> QED BY <2>6, <3>1 DEF BaselineInv
  <2>8. Changes.file \in Nat /\ Changes.file <= n
    BY ChangesType
  <2>9. \A c : InsertFirst(c, Changes.file) => InsertFirst(c, n)
    BY <2>1, <2>8, InsertFirstLonger
  <2>10. Changes.raw <= n
    BY <2>8, ChangesType DEF BaselineInv
  <2> HIDE DEF n
  <2> QED BY <1>1, <2>4, <2>7, <2>9, <2>10 DEF BaselineInv, SomeBaseline
<1> QED BY <1>2, <1>3 DEF Feeds
\* The seed: the first one seeds whoever was there before the log.
LEMMA SeedBaselineInv ==
    ASSUME TypeOK, Shape, BaselineInv, UpsertClientProfileAndSeed
    PROVE  BaselineInv'
<1> DEFINE seed == "upsert_client_profile_dimension_and_baseline_seed"
           boot == "bootstrap_warehouse"
<1>1. /\ UNCHANGED <<profiles, stagedProfiles, feed>>
      /\ todo' = [todo EXCEPT ![boot] = todo[boot] \ {seed}]
      /\ \A c \in Clients : snapshots'[c] = IF Seeded(c) THEN {"baseline"} ELSE snapshots[c]
  BY DEF UpsertClientProfileAndSeed, Bootstrap, Succeed, files, Shape, Dags
<1>2. /\ todo'[boot] = todo[boot] \ {seed}
      /\ todo'["client_profile_changes"] = todo["client_profile_changes"]
  BY <1>1 DEF Shape, Dags
<1>3. Founders \subseteq stagedProfiles
  <2>1. Ready(boot, seed)
    BY DEF UpsertClientProfileAndSeed, Bootstrap, Succeed
  <2>2. <<"stage_client_profile", seed>> \in Edges(boot)
    BY DEF Edges, BootstrapEdges
  <2>3. seed \in todo[boot] /\ "stage_client_profile" \notin todo[boot]
    BY <2>1, <2>2 DEF Ready
  <2> QED BY <2>3 DEF BaselineInv
<1>4. Changes' = Changes
  BY <1>1 DEF Changes
<1>5. SomeBaseline => SomeBaseline'
  BY <1>1 DEF SomeBaseline
<1>6. \A c \in Clients : "change" \in snapshots'[c] => "change" \in snapshots[c]
  BY <1>1
<1>7. ASSUME SomeBaseline', NEW c \in Founders, ~InsertFirst(c, Changes.file)
      PROVE  "baseline" \in snapshots'[c]
  <2>1. c \in Clients
    BY OrchestrationAssumption DEF Founders
  <2>2. CASE "change" \in snapshots[c]
    <3>1. SomeBaseline /\ "baseline" \in snapshots[c]
      BY <1>7, <2>1, <2>2 DEF BaselineInv
    <3> QED BY <1>1, <2>1, <3>1
  <2>3. CASE "change" \notin snapshots[c]
    <3>1. Seeded(c)
      BY <1>3, <1>7, <2>3 DEF Seeded, Changes
    <3> QED BY <1>1, <2>1, <3>1
  <2> QED BY <2>2, <2>3
<1> HIDE DEF seed, boot
<1> QED BY <1>1, <1>2, <1>4, <1>5, <1>6, <1>7 DEF BaselineInv, seed, boot

\* The load of the changes: those staged, of whoever they are.
LEMMA LoadChangesBaselineInv ==
    ASSUME TypeOK, Shape, BaselineInv, LoadChanges
    PROVE  BaselineInv'
<1> DEFINE t == "client_profile_changes"
<1>1. /\ UNCHANGED <<profiles, stagedProfiles>>
      /\ todo' = [todo EXCEPT ![t] = todo[t] \ {"load_layer3"}]
      /\ Ready(t, "load_layer3")
      /\ feed' = [feed EXCEPT ![t].loaded = feed[t].staged]
      /\ \A c \in Clients : snapshots'[c] =
            IF \E i \in feed[t].loaded + 1..feed[t].staged : ChangeLog[i].client = c
            THEN snapshots[c] \cup {"change"} ELSE snapshots[c]
  BY DEF LoadChanges, Succeed, files, Shape, Dags
<1>2. SomeBaseline
  <2>1. <<"stage_layer2", "load_layer3">> \in Edges(t)
    BY DEF Edges, TableEdges
  <2>2. "load_layer3" \in todo[t] /\ "stage_layer2" \notin todo[t]
    BY <1>1, <2>1 DEF Ready
  <2> QED BY <2>2 DEF BaselineInv, TableTasks
<1>3. SomeBaseline'
  BY <1>1, <1>2 DEF SomeBaseline
<1>4. /\ Changes'.loaded = Changes.staged /\ Changes'.staged = Changes.staged
      /\ Changes'.raw = Changes.raw /\ Changes'.file = Changes.file
  BY <1>1, ChangesType DEF Changes, Shape, Feeds
<1>5. ASSUME NEW c \in Clients, "change" \in snapshots'[c]
      PROVE  \E i \in 1..Changes.staged : ChangeLog[i].client = c
  <2>1. CASE "change" \in snapshots[c]
    <3>1. PICK i \in 1..Changes.loaded : ChangeLog[i].client = c
      BY <2>1 DEF BaselineInv
    <3>2. i \in 1..Changes.staged
      BY ChangesType DEF BaselineInv
    <3> QED BY <3>1, <3>2
  <2>2. CASE "change" \notin snapshots[c]
    <3>1. PICK i \in Changes.loaded + 1..Changes.staged : ChangeLog[i].client = c
      BY <1>1, <1>5, <2>2 DEF Changes
    <3>2. i \in 1..Changes.staged
      BY ChangesType
    <3> QED BY <3>1, <3>2
  <2> QED BY <2>1, <2>2
<1>6. \A c \in Founders : c \in Clients /\ ("baseline" \in snapshots[c] => "baseline" \in snapshots'[c])
  BY <1>1, OrchestrationAssumption DEF Founders
<1>7. todo'["bootstrap_warehouse"] = todo["bootstrap_warehouse"]
  BY <1>1 DEF Shape, Dags
<1>8. Changes.staged <= Changes.staged
  BY ChangesType
<1> HIDE DEF t
<1> QED BY <1>1, <1>2, <1>3, <1>4, <1>5, <1>6, <1>7, <1>8 DEF BaselineInv

\* Steps that change nothing but the tasks of a run.
LEMMA TaskStepBaselineInv ==
    ASSUME Shape, BaselineInv, UNCHANGED <<files, pipeline>>,
           \/ \E dag \in Dags : Trigger(dag)
           \/ \E dag \in Dags : \E task \in Tasks(dag) : Skip(dag, task)
           \/ PassSensor("client_trades") \/ PassSensor("client_profile_changes")
    PROVE  BaselineInv'
<1>1. UNCHANGED <<profiles, stagedProfiles, snapshots, feed>> /\ Changes' = Changes
  BY DEF files, pipeline, dims, Changes
<1> DEFINE T == "client_profile_changes"
           seed == "upsert_client_profile_dimension_and_baseline_seed"
<1>2. SUFFICES /\ "load_layer3" \in todo'[T] => TableTasks \subseteq todo'[T] \/ SomeBaseline
               /\ seed \in todo'["bootstrap_warehouse"] =>
                    "stage_client_profile" \in todo'["bootstrap_warehouse"]
                       \/ Founders \subseteq stagedProfiles
  BY <1>1 DEF BaselineInv, SomeBaseline
<1>3. ASSUME NEW dag \in Dags, Trigger(dag)
      PROVE  \A d \in Dags : todo'[d] = IF d = dag THEN Tasks(dag) ELSE todo[d]
  BY <1>3 DEF Trigger, Shape
<1>4. CASE \E dag \in Dags : Trigger(dag)
  BY <1>3, <1>4 DEF BaselineInv, Tasks, TableTasks, BootstrapTasks, Dags
<1>5. ASSUME NEW dag \in Dags, NEW task \in Tasks(dag), Skip(dag, task)
      PROVE  /\ "load_layer3" \in todo'[T] => TableTasks \subseteq todo'[T] \/ SomeBaseline
             /\ seed \in todo'["bootstrap_warehouse"] =>
                    "stage_client_profile" \in todo'["bootstrap_warehouse"]
                       \/ Founders \subseteq stagedProfiles
  <2>1. T \in Dags /\ "bootstrap_warehouse" \in Dags
    BY DEF Dags
  <2> QED BY <1>5, <2>1, SkipKeeps DEF BaselineInv
<1>6. CASE PassSensor("client_trades")
  <2>1. todo'[T] = todo[T] /\ todo'["bootstrap_warehouse"] = todo["bootstrap_warehouse"]
    BY <1>6 DEF PassSensor, Succeed, Shape, Dags
  <2> QED BY <2>1 DEF BaselineInv
<1>7. CASE PassSensor(T)
  <2>1. todo'["bootstrap_warehouse"] = todo["bootstrap_warehouse"]
    BY <1>7 DEF PassSensor, Succeed, Shape, Dags
  <2>2. SomeBaseline
    BY <1>7 DEF PassSensor, Succeed, Raises, TimesOut, BaselineSeeded
  <2> QED BY <2>1, <2>2 DEF BaselineInv
<1> QED BY <1>4, <1>5, <1>6, <1>7

\* The other tasks of bootstrap_warehouse.
LEMMA StagingBaselineInv ==
    ASSUME TypeOK, Shape, BaselineInv,
           \/ StageClientSignup \/ BuildDimManager \/ BuildDimInstrument
           \/ UpsertClientSignupDimension \/ StageClientProfile
    PROVE  BaselineInv'
<1>1. UNCHANGED <<profiles, snapshots, feed>>
  BY DEF StageClientSignup, BuildDimManager, BuildDimInstrument, UpsertClientSignupDimension,
         StageClientProfile, Bootstrap, Succeed, files, dims
<1>2. PICK task : todo' = [todo EXCEPT !["bootstrap_warehouse"] = @ \ {task}]
  BY DEF StageClientSignup, BuildDimManager, BuildDimInstrument, UpsertClientSignupDimension,
         StageClientProfile, Bootstrap, Succeed
<1>3. /\ todo'["client_profile_changes"] = todo["client_profile_changes"]
      /\ todo'["bootstrap_warehouse"] = todo["bootstrap_warehouse"] \ {task}
  BY <1>2 DEF Shape, Dags
<1>4. CASE StageClientProfile
  <2>1. Founders \subseteq stagedProfiles'
    BY <1>4 DEF StageClientProfile, BaselineInv
  <2> QED BY <1>1, <1>3, <2>1 DEF BaselineInv, SomeBaseline, Changes
<1>5. CASE ~StageClientProfile
  <2>1. stagedProfiles' = stagedProfiles
    BY <1>5 DEF StageClientSignup, BuildDimManager, BuildDimInstrument, UpsertClientSignupDimension
  <2>2. "stage_client_profile" \in todo["bootstrap_warehouse"]
           => "stage_client_profile" \in todo'["bootstrap_warehouse"]
    BY <1>5 DEF StageClientSignup, BuildDimManager, BuildDimInstrument,
                UpsertClientSignupDimension, Bootstrap, Succeed, Shape, Dags
  <2> QED BY <1>1, <1>3, <2>1, <2>2 DEF BaselineInv, SomeBaseline, Changes
<1> QED BY <1>4, <1>5

\* The other tasks of the table DAGs.
LEMMA TableBaselineInv ==
    ASSUME TypeOK, Shape, BaselineInv,
           (\E t \in Feeds : LandLayer1(t) \/ StageLayer2(t)) \/ LoadTrades
    PROVE  BaselineInv'
<1>1. UNCHANGED <<profiles, stagedProfiles>>
  BY DEF LandLayer1, StageLayer2, LoadTrades, Succeed, files
<1>2. /\ todo'["bootstrap_warehouse"] = todo["bootstrap_warehouse"]
      /\ todo'["client_profile_changes"] \subseteq todo["client_profile_changes"]
      /\ "load_layer3" \in todo["client_profile_changes"]
           => "load_layer3" \in todo'["client_profile_changes"]
      /\ TableTasks \subseteq todo'["client_profile_changes"]
           \/ todo'["client_profile_changes"] = todo["client_profile_changes"]
           \/ ~ (TableTasks \subseteq todo["client_profile_changes"])
  <2>1. CASE LoadTrades
    BY <2>1 DEF LoadTrades, Succeed, Shape, Dags
  <2>2. ASSUME NEW t \in Feeds, LandLayer1(t)
        PROVE  /\ Ready(t, "land_layer1")
               /\ \A d \in Dags : todo'[d] = IF d = t THEN todo[d] \ {"land_layer1"} ELSE todo[d]
    BY <2>2 DEF LandLayer1, Succeed, Shape
  <2>3. ASSUME NEW t \in Feeds, StageLayer2(t)
        PROVE  /\ Ready(t, "stage_layer2")
               /\ \A d \in Dags : todo'[d] = IF d = t THEN todo[d] \ {"stage_layer2"} ELSE todo[d]
    BY <2>3 DEF StageLayer2, Succeed, Shape
  <2>4. \A t \in Feeds : /\ <<"wait", "land_layer1">> \in Edges(t)
                         /\ <<"land_layer1", "stage_layer2">> \in Edges(t)
    BY DEF Edges, TableEdges, Feeds
  <2>5. \A t \in Feeds : /\ Ready(t, "land_layer1") => "wait" \notin todo[t]
                         /\ Ready(t, "stage_layer2") => "land_layer1" \notin todo[t]
    BY <2>4 DEF Ready
  <2> QED BY <2>1, <2>2, <2>3, <2>5 DEF Dags, Feeds, TableTasks
<1>3. /\ \A c \in Clients : /\ "change" \in snapshots'[c] <=> "change" \in snapshots[c]
                            /\ "baseline" \in snapshots'[c] <=> "baseline" \in snapshots[c]
      /\ SomeBaseline' <=> SomeBaseline
  BY DEF LandLayer1, StageLayer2, LoadTrades, SomeBaseline
<1>4. /\ Changes'.file = Changes.file /\ Changes'.loaded = Changes.loaded
      /\ Changes'.loaded <= Changes'.staged /\ Changes'.staged <= Changes'.raw
      /\ Changes'.raw <= Changes'.file
  <2>1. CASE LoadTrades \/ LandLayer1("client_trades") \/ StageLayer2("client_trades")
    <3>1. Changes' = Changes
      BY <2>1 DEF LoadTrades, LandLayer1, StageLayer2, Changes, Shape, Feeds
    <3> QED BY <3>1 DEF BaselineInv
  <2>2. CASE LandLayer1("client_profile_changes")
    <3>1. Changes' = [Changes EXCEPT !.raw = Changes.file]
      BY <2>2 DEF LandLayer1, Changes, Shape, Feeds
    <3> QED BY <3>1, ChangesType DEF BaselineInv
  <2>3. CASE StageLayer2("client_profile_changes")
    <3>1. Changes' = [Changes EXCEPT !.staged = Changes.raw]
      BY <2>3 DEF StageLayer2, Changes, Shape, Feeds
    <3> QED BY <3>1, ChangesType DEF BaselineInv
  <2> QED BY <2>1, <2>2, <2>3 DEF Feeds
<1>5. Founders \subseteq Clients
  BY OrchestrationAssumption DEF Founders
<1> QED BY <1>1, <1>2, <1>3, <1>4, <1>5 DEF BaselineInv

\* Every step.
LEMMA NextBaselineInv ==
    ASSUME TypeOK, Shape, BaselineInv, [Next]_vars
    PROVE  BaselineInv'
<1>1. CASE UNCHANGED <<todo, deaths, files, pipeline>>
  BY <1>1 DEF files, pipeline, dims, BaselineInv, SomeBaseline, Changes
<1>2. ASSUME NEW c \in Clients, Amend(c) PROVE BaselineInv'
  <2>1. /\ UNCHANGED <<todo, stagedProfiles, feed, snapshots>> /\ Changes' = Changes
        /\ profiles \subseteq profiles'
    BY <1>2 DEF Amend, pipeline, dims, Changes
  <2> QED BY <2>1 DEF BaselineInv, SomeBaseline
<1>3. ASSUME NEW i \in Instruments, Configure(i) PROVE BaselineInv'
  <2>1. UNCHANGED <<todo, stagedProfiles, feed, snapshots, profiles>> /\ Changes' = Changes
    BY <1>3 DEF Configure, pipeline, dims, Changes
  <2> QED BY <2>1 DEF BaselineInv, SomeBaseline
<1>4. CASE \/ \E dag \in Dags : Trigger(dag)
           \/ \E dag \in Dags : \E task \in Tasks(dag) : Skip(dag, task)
           \/ \E t \in Feeds : PassSensor(t)
  <2>1. UNCHANGED <<files, pipeline>>
    BY <1>4 DEF Trigger, Skip, PassSensor, Succeed
  <2> QED BY <1>4, <2>1, TaskStepBaselineInv DEF Feeds
<1> QED BY <1>1, <1>2, <1>3, <1>4, StepKinds, RecordBaselineInv, SeedBaselineInv,
           LoadChangesBaselineInv, StagingBaselineInv, TableBaselineInv

\* At first nothing is recorded, and every founder has its profile.
LEMMA InitBaselineInv ==
    ASSUME Init
    PROVE  BaselineInv
<1>1. Changes = [file |-> 0, raw |-> 0, staged |-> 0, loaded |-> 0]
  BY DEF Init, Changes, Feeds
<1>2. ~SomeBaseline /\ \A c \in Clients : snapshots[c] = {}
  BY DEF Init, SomeBaseline
<1>3. todo["client_profile_changes"] = {} /\ todo["bootstrap_warehouse"] = {}
  BY DEF Init, Dags
<1>4. Founders \subseteq profiles
  BY DEF Init, Founders
<1>5. /\ Changes.file = 0 /\ Changes.raw = 0 /\ Changes.staged = 0 /\ Changes.loaded = 0
      /\ 1..Changes.file = {}
  BY <1>1
<1> QED BY <1>2, <1>3, <1>4, <1>5 DEF BaselineInv

\* BaselineFirst: where the log registers whoever is onboarded after go-live,
\* no client that was there before it has a change applied until it has its
\* baseline, whatever runs overlap, fail or come first.
THEOREM BaselineTheorem ==
    ASSUME LateClientsAreInserted
    PROVE  Spec => []BaselineFirst
<1>1. Init => TypeOK /\ MigrateInv /\ Shape /\ BaselineInv
  BY InitType, InitMigrateInv, InitBaselineInv
<1>2. TypeOK /\ MigrateInv /\ Shape /\ BaselineInv /\ [Next]_vars
         => (TypeOK /\ MigrateInv /\ Shape /\ BaselineInv)'
  BY NextType, NextBaselineInv
<1>3. ASSUME TypeOK, Shape, BaselineInv PROVE BaselineFirst
  <2>1. SUFFICES ASSUME NEW c \in Clients, "change" \in snapshots[c],
                        ~InsertFirst(c, Changes.loaded)
                 PROVE  "baseline" \in snapshots[c]
    BY DEF BaselineFirst, Changes
  <2>2. PICK i \in 1..Changes.loaded : ChangeLog[i].client = c
    BY <1>3, <2>1 DEF BaselineInv
  <2>3. /\ i \in 1..Changes.file /\ i \in 1..Len(ChangeLog) /\ i <= Changes.loaded
        /\ i \in Nat /\ Changes.loaded \in Nat
    BY <1>3, ChangesType, LogTypes DEF BaselineInv
  <2>4. ~InsertFirst(c, i)
    BY <2>1, <2>3, InsertFirstLonger
  <2>5. c \in profiles /\ c \notin Late
    <3>1. i \in DOMAIN ChangeLog
      BY <2>3, OrchestrationAssumption
    <3> QED BY <1>3, <2>2, <2>3, <2>4, <3>1 DEF BaselineInv, LateClientsAreInserted
  <2>6. ~InsertFirst(c, Changes.file)
    <3>1. SUFFICES ASSUME InsertFirst(c, Changes.file) PROVE FALSE
      OBVIOUS
    <3>2. PICK j \in 1..Changes.file :
             /\ ChangeLog[j] = [client |-> c, op |-> "insert"]
             /\ \A k \in 1..j - 1 : ChangeLog[k].client # c
      BY <3>1 DEF InsertFirst
    <3>3. ~(i \in 1..j - 1)
      BY <2>2, <3>2
    <3>4. j \in 1..i
      BY <1>3, <2>3, <3>3, ChangesType
    <3> QED BY <2>4, <3>2, <3>4 DEF InsertFirst
  <2> QED BY <1>3, <2>1, <2>5, <2>6 DEF BaselineInv, TypeOK, Founders
<1> QED BY <1>1, <1>2, <1>3, PTL DEF Spec
=============================================================================
