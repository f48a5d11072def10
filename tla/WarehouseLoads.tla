--------------------------- MODULE WarehouseLoads ---------------------------
(***************************************************************************)
(* The loads that read and write dim_client_risk_snapshot, cdc_watermark,   *)
(* the quarantine and the facts' risk_snapshot_key: the streaming change    *)
(* apply, the baseline seed, the fact load and the historical reload.       *)
(*                                                                          *)
(* Every load is one database transaction (dags/dag_factory.py, _run): it   *)
(* works row by row on the variables snap, wm, quar and fact and commits    *)
(* them to db at its end, or loses all of it to an exception or a crash.    *)
(* Here one transaction runs at a time; each row it handles is one step.    *)
(***************************************************************************)
EXTENDS SnapshotTable, FiniteSets

CONSTANTS
    Clients,        \* client ids, naturals: the reload goes through them in order
    Lsns,           \* lsns of the source's change log
    Wal,            \* lsn -> the change: client, op and commit_ts
    Corrected,      \* lsns the source redelivers once with a corrected image
    ProfileClients, \* clients that client_profile may come to hold
    Facts,          \* fact natural keys
    FactRow,        \* fact -> its client and event_ts
    Windows         \* [from_date, to_date) arguments a reload is run with

Ops == {"insert", "update", "delete"}

ASSUME ClientsAssumption == Clients \subseteq Nat
ASSUME LsnsAssumption == Lsns \subseteq Nat \ {0} /\ IsFiniteSet(Lsns)
ASSUME WalAssumption ==
    /\ Wal \in [Lsns -> [client : Clients, op : Ops, commit_ts : Nat]]
    /\ \A l \in Lsns : Wal[l].commit_ts < Forever
\* A client's changes commit in lsn order.
ASSUME CommitOrderAssumption ==
    \A l, m \in Lsns : Wal[l].client = Wal[m].client /\ l < m
                         => Wal[l].commit_ts <= Wal[m].commit_ts
ASSUME OtherInputsAssumption ==
    /\ Corrected \subseteq Lsns
    /\ ProfileClients \subseteq Clients
    /\ FactRow \in [Facts -> [client : Clients, event_ts : Nat]]
    /\ Windows \subseteq Nat \X Nat

NoClient == -1
NoTemp == -1
NoWatermark == -1       \* no cdc_watermark row
NoWindow == <<0, 0>>
Many == 2               \* a quarantine count stops here: twice or more
Reasons == {"stale_lsn", "delete_with_no_baseline"}

VARIABLES
    file,        \* lsn -> revision of its line in the source file, 0 for none
    line,        \* lsn -> position of that line
    raw,         \* lsn -> revision in raw.client_profile_changes, 0 for no row
    staged,      \* lsn -> revision in staging.client_profile_changes
    profile,     \* clients in staging.client_profile
    stagedFacts, \* facts in their staging tables
    snap,        \* client -> history, inside the running transaction
    wm,          \* client -> last_applied_lsn, likewise
    quar,        \* reason -> lsn -> rows in quarantine.rejected_rows, likewise
    fact,        \* loaded fact -> risk_snapshot_key, likewise
    db,          \* the committed snap, wm, quar and fact
    job,         \* which load runs
    todo,        \* change events it has still to apply or replay
    left,        \* facts it has still to load or to re-resolve
    pending,     \* clients it has still to seed or to reload
    client,      \* client being reloaded
    temp,        \* lsn of that client's placeholder row
    window       \* the reload's date range

sources == <<file, line, raw, staged, profile, stagedFacts>>
tables == <<snap, wm, quar, fact>>
progress == <<todo, left, pending, client, temp, window>>
vars == <<sources, tables, db, job, progress>>

Jobs == {"idle", "apply", "seed", "orphans", "facts", "reload"}

Tables == [snap |-> snap, wm |-> wm, quar |-> quar, fact |-> fact]

\* TypeOK is split so that proofs can name its parts.
TablesOK(sn, w, q, f) ==
    /\ sn = [c \in Clients |-> sn[c]]
    /\ \A c \in Clients : IsHistory(sn[c])
    /\ w \in [Clients -> Int]
    /\ q \in [Reasons -> [Lsns -> 0..Many]]
    /\ f = [x \in DOMAIN f |-> f[x]]
    /\ DOMAIN f \subseteq Facts
    /\ \A x \in DOMAIN f : f[x] \in Int

SourcesOK ==
    /\ file \in [Lsns -> 0..2]
    /\ line \in [Lsns -> Nat]
    /\ raw \in [Lsns -> 0..2]
    /\ staged \in [Lsns -> 0..2]
    /\ profile \subseteq ProfileClients
    /\ stagedFacts \subseteq Facts

ProgressOK ==
    /\ job \in Jobs
    /\ todo \subseteq Lsns
    /\ left \subseteq Facts
    /\ pending \subseteq Clients
    /\ client \in Clients \cup {NoClient}
    /\ temp \in Nat \cup {NoTemp}
    /\ window \in Windows \cup {NoWindow}

\* Every table, cursor and column holds values of its type; the committed
\* tables are of the same shape as the ones a transaction works on.
TypeOK ==
    /\ SourcesOK
    /\ TablesOK(snap, wm, quar, fact)
    /\ db = [snap |-> db.snap, wm |-> db.wm, quar |-> db.quar, fact |-> db.fact]
    /\ TablesOK(db.snap, db.wm, db.quar, db.fact)
    /\ ProgressOK

Init ==
    /\ file = [l \in Lsns |-> 0]
    /\ line = [l \in Lsns |-> 0]
    /\ raw = [l \in Lsns |-> 0]
    /\ staged = [l \in Lsns |-> 0]
    /\ profile = {}
    /\ stagedFacts = {}
    /\ snap = [c \in Clients |-> NoHistory]
    /\ wm = [c \in Clients |-> NoWatermark]
    /\ quar = [r \in Reasons |-> [l \in Lsns |-> 0]]
    /\ fact = [x \in {} |-> 0]
    /\ db = Tables
    /\ job = "idle"
    /\ todo = {} /\ left = {} /\ pending = {}
    /\ client = NoClient /\ temp = NoTemp /\ window = NoWindow

----------------------------------------------------------------------------
(* The source system and the first two layers.  They touch none of the     *)
(* tables the loads write, so they only move between transactions.         *)

\* A change is written to the file, in any order; or written again in place
\* with a corrected image.
Deliver(l) ==
    /\ job = "idle"
    /\ file[l] = 0
    /\ file' = [file EXCEPT ![l] = 1]
    /\ line' = [line EXCEPT ![l] = Cardinality({m \in Lsns : file[m] # 0}) + 1]
    /\ UNCHANGED <<raw, staged, profile, stagedFacts, tables, db, job, progress>>

Redeliver(l) ==
    /\ job = "idle"
    /\ l \in Corrected /\ file[l] = 1
    /\ file' = [file EXCEPT ![l] = 2]
    /\ UNCHANGED <<line, raw, staged, profile, stagedFacts, tables, db, job, progress>>

\* Both layers upsert every row they read and keep raw_seq and staging_seq
\* of the rows they update, so the order stays that of the lines.
LandLayer1 ==
    /\ job = "idle"
    /\ \E l \in Lsns : file[l] # 0
    /\ raw' = file
    /\ UNCHANGED <<file, line, staged, profile, stagedFacts, tables, db, job, progress>>

StageLayer2 ==
    /\ job = "idle"
    /\ staged' = raw
    /\ UNCHANGED <<file, line, raw, profile, stagedFacts, tables, db, job, progress>>

StageProfile(c) ==
    /\ job = "idle"
    /\ profile' = profile \cup {c}
    /\ UNCHANGED <<file, line, raw, staged, stagedFacts, tables, db, job, progress>>

StageFact(x) ==
    /\ job = "idle"
    /\ stagedFacts' = stagedFacts \cup {x}
    /\ UNCHANGED <<file, line, raw, staged, profile, tables, db, job, progress>>

----------------------------------------------------------------------------
(* Transactions.                                                           *)

Finished ==
    \/ job = "apply" /\ todo = {}
    \/ job = "orphans" /\ pending = {}
    \/ job = "facts" /\ left = {}
    \/ job = "reload" /\ pending = {} /\ client = NoClient

Commit ==
    /\ Finished
    /\ db' = Tables
    /\ job' = "idle"
    /\ window' = NoWindow
    /\ UNCHANGED <<sources, tables, todo, left, pending, client, temp>>

Undo ==
    /\ snap' = db.snap /\ wm' = db.wm /\ quar' = db.quar /\ fact' = db.fact
    /\ job' = "idle"
    /\ todo' = {} /\ left' = {} /\ pending' = {}
    /\ client' = NoClient /\ temp' = NoTemp /\ window' = NoWindow
    /\ UNCHANGED <<sources, db>>

\* The worker dies, the connection drops or a statement fails.  The two ways
\* the reload itself can fail, a fact without a version after the replay and
\* a fact still on the placeholder at its deletion, end like this as well.
Crash == job # "idle" /\ Undo

----------------------------------------------------------------------------
(* apply_cdc_event, called by the streaming apply and by the reload.       *)

OneMore(reason, l) ==
    [quar EXCEPT ![reason][l] = IF @ = Many THEN Many ELSE @ + 1]

\* The image is the one in the table the caller reads: staging or raw.
ApplyCdcEvent(l, images) ==
    LET c == Wal[l].client
        ts == Wal[l].commit_ts
    IN  \/ /\ l <= wm[c]
           /\ quar' = OneMore("stale_lsn", l)
           /\ UNCHANGED <<snap, wm>>
        \/ /\ l > wm[c]
           /\ snap' = [snap EXCEPT ![c] =
                           IF Wal[l].op = "delete" THEN ApplyDelete(@, l, ts)
                           ELSE ApplyUpsert(@, l, ts, <<l, images[l]>>)]
           /\ wm' = [wm EXCEPT ![c] = l]
           /\ UNCHANGED quar

\* Mutant of HasNoRow: the guard is missing.
NeverHasNoRow(c) == FALSE

\* The guard both callers put before it: a delete with no row to copy.
HasNoRow(c) == DOMAIN snap[c] = {}

ApplyGuarded(l, images) ==
    \/ /\ Wal[l].op = "delete" /\ HasNoRow(Wal[l].client)
       /\ quar' = OneMore("delete_with_no_baseline", l)
       /\ UNCHANGED <<snap, wm>>
    \/ /\ ~ (Wal[l].op = "delete" /\ HasNoRow(Wal[l].client))
       /\ ApplyCdcEvent(l, images)

----------------------------------------------------------------------------
(* scd2_apply: the staged rows above their client's watermark, in           *)
(* staging_seq order.                                                      *)

\* Mutant of Unapplied: the whole staging table on every run.
StagedRows(w) == {l \in Lsns : staged[l] # 0}

Unapplied(w) == {l \in Lsns : staged[l] # 0 /\ ~ (l <= w[Wal[l].client])}

BeginApply ==
    /\ job = "idle"
    /\ job' = "apply"
    /\ todo' = Unapplied(wm)
    /\ UNCHANGED <<sources, tables, db, left, pending, client, temp, window>>

ApplyRow(l) ==
    /\ job = "apply"
    /\ l \in todo /\ \A m \in todo : line[l] <= line[m]
    /\ ApplyGuarded(l, staged)
    /\ todo' = todo \ {l}
    /\ UNCHANGED <<sources, fact, db, job, left, pending, client, temp, window>>

----------------------------------------------------------------------------
(* scd2_baseline_seed: one lsn-0 row for every profile client whose lowest  *)
(* change in the file is no insert, then for the other clients with a       *)
(* stopgap row.                                                             *)

Excluded ==
    {c \in Clients : \E l \in Lsns :
        /\ file[l] # 0 /\ Wal[l].client = c /\ Wal[l].op = "insert"
        /\ \A m \in Lsns : file[m] # 0 /\ Wal[m].client = c => l <= m}

Stopgaps(c) == {l \in DOMAIN snap[c] : l < 0}

FactsOn(c, lsns) == {x \in DOMAIN fact : FactRow[x].client = c /\ fact[x] \in lsns}

\* Mutant of Repointed: the facts stay where they are.
NotRepointed(xs, lsn) == fact

Repointed(xs, lsn) == [x \in DOMAIN fact |-> IF x \in xs THEN lsn ELSE fact[x]]

BeginSeed ==
    /\ job = "idle"
    /\ job' = "seed"
    /\ pending' = profile \ Excluded
    /\ UNCHANGED <<sources, tables, db, todo, left, client, temp, window>>

\* Mutant of SeedBaseline: the check for change history is missing.
SeedUnchecked(c, attrs) ==
    /\ snap' = [snap EXCEPT ![c] =
                   Delete(Insert(@, 0, BaselineRow(attrs)), Stopgaps(c))]
    /\ fact' = Repointed(FactsOn(c, Stopgaps(c)), 0)

\* _seed_baseline_and_repoint; a client that has change history is skipped
\* with its stopgaps left where they are.
SeedBaseline(c, attrs) ==
    \/ /\ \E l \in DOMAIN snap[c] : l > 0
       /\ UNCHANGED <<snap, fact>>
    \/ /\ \A l \in DOMAIN snap[c] : l <= 0
       /\ snap' = [snap EXCEPT ![c] =
                      Delete(Insert(@, 0, BaselineRow(attrs)), Stopgaps(c))]
       /\ fact' = Repointed(FactsOn(c, Stopgaps(c)), 0)

SeedClient(c) ==
    /\ job = "seed"
    /\ c \in pending
    /\ SeedBaseline(c, ProfileAttrs)
    /\ pending' = pending \ {c}
    /\ UNCHANGED <<sources, wm, quar, db, job, todo, left, client, temp, window>>

\* Mutant of BeginOrphans: only profile clients are seeded.
SkipOrphans ==
    /\ job = "seed" /\ pending = {}
    /\ job' = "orphans"
    /\ UNCHANGED <<sources, tables, db, todo, left, pending, client, temp, window>>

BeginOrphans ==
    /\ job = "seed" /\ pending = {}
    /\ job' = "orphans"
    /\ pending' = {c \in Clients : Stopgaps(c) # {}} \ (profile \cup Excluded)
    /\ UNCHANGED <<sources, tables, db, todo, left, client, temp, window>>

SeedOrphan(c) ==
    /\ job = "orphans"
    /\ c \in pending
    /\ SeedBaseline(c, UnknownAttrs)
    /\ pending' = pending \ {c}
    /\ UNCHANGED <<sources, wm, quar, db, job, todo, left, client, temp, window>>

----------------------------------------------------------------------------
(* fact_upsert: every staged fact on every run, each pinned to a version    *)
(* covering its date or to a new stopgap; a date that only real history     *)
(* fails to cover raises.                                                  *)

Upserted(x, lsn) == [y \in DOMAIN fact \cup {x} |-> IF y = x THEN lsn ELSE fact[y]]

BeginFacts ==
    /\ job = "idle"
    /\ job' = "facts"
    /\ left' = stagedFacts
    /\ UNCHANGED <<sources, tables, db, todo, pending, client, temp, window>>

CoveringFact(x) == Covering(snap[FactRow[x].client], FactRow[x].event_ts)

HasReal(c) == \E l \in DOMAIN snap[c] : l >= 0

LoadFact(x) ==
    /\ job = "facts"
    /\ x \in left
    /\ \E l \in CoveringFact(x) : fact' = Upserted(x, l)
    /\ left' = left \ {x}
    /\ UNCHANGED <<sources, snap, wm, quar, db, job, todo, pending, client, temp, window>>

LoadFactOnStopgap(x) ==
    LET c == FactRow[x].client IN
    /\ job = "facts"
    /\ x \in left
    /\ CoveringFact(x) = {} /\ ~ HasReal(c)
    /\ \E lsn \in StopgapLsns(snap[c]) :
          /\ snap' = [snap EXCEPT ![c] = Insert(@, lsn, StopgapRow(FactRow[x].event_ts))]
          /\ fact' = Upserted(x, lsn)
    /\ left' = left \ {x}
    /\ UNCHANGED <<sources, wm, quar, db, job, todo, pending, client, temp, window>>

LoadFactRaises(x) ==
    /\ job = "facts"
    /\ x \in left
    /\ CoveringFact(x) = {} /\ HasReal(FactRow[x].client)
    /\ Undo

----------------------------------------------------------------------------
(* historical_reload: for each client with a change in the window, reset    *)
(* its history to just before the first such change, replay everything from *)
(* there in lsn order, and resolve again the facts that lost their row.     *)

InWindow(c, w) ==
    {l \in Lsns : /\ raw[l] # 0 /\ Wal[l].client = c
                  /\ w[1] <= Wal[l].commit_ts /\ Wal[l].commit_ts < w[2]}

ResetLsns(c, w) == {l \in InWindow(c, w) : \A m \in InWindow(c, w) : l <= m}

Affected(w) == {c \in Clients : InWindow(c, w) # {}}

\* Mutants of ToReplay: only the window's changes, no deletes, every client's
\* changes, or all but the first.
ReplayWindowOnly(c, from) == InWindow(c, window)
ReplayWithoutDeletes(c, from) ==
    {l \in Lsns : raw[l] # 0 /\ Wal[l].client = c /\ l >= from /\ Wal[l].op # "delete"}
ReplayAfter(c, from) == {l \in Lsns : raw[l] # 0 /\ Wal[l].client = c /\ l > from}
ReplayEveryClient(c, from) == {l \in Lsns : raw[l] # 0 /\ l >= from}

ToReplay(c, from) == {l \in Lsns : raw[l] # 0 /\ Wal[l].client = c /\ l >= from}

BeginReload(w) ==
    /\ job = "idle"
    /\ job' = "reload"
    /\ window' = w
    /\ pending' = Affected(w)
    /\ UNCHANGED <<sources, tables, db, todo, left, client, temp>>

Doomed(c, from) == {l \in DOMAIN snap[c] : l >= from}

\* _repoint_facts_for_reset: facts on doomed rows wait on the newest row the
\* reset keeps or, if it keeps none, on a placeholder just below the reset
\* point with the columns of some doomed row.
RepointForReset(c, from) ==
    LET moved == FactsOn(c, Doomed(c, from))
        kept == Below(snap[c], from)
    IN  \/ /\ moved = {}
           /\ snap' = [snap EXCEPT ![c] = ResetFrom(@, from)]
           /\ left' = {}
           /\ UNCHANGED <<fact, temp>>
        \/ /\ moved # {}
           /\ \E safe \in kept :
                 /\ \A other \in kept : other <= safe
                 /\ fact' = Repointed(moved, safe)
           /\ snap' = [snap EXCEPT ![c] = ResetFrom(@, from)]
           /\ left' = moved
           /\ UNCHANGED temp
        \/ /\ moved # {} /\ kept = {}
           /\ temp' = from - 1
           /\ \E doomed \in Doomed(c, from) :
                 LET placeholder == Row(Epoch, Forever, FALSE, FALSE, snap[c][doomed].attrs)
                 IN  snap' = [snap EXCEPT ![c] =
                                 ResetFrom(Insert(@, from - 1, placeholder), from)]
           /\ fact' = Repointed(moved, from - 1)
           /\ left' = moved

ResetClient(c) ==
    /\ job = "reload" /\ client = NoClient
    /\ c \in pending /\ \A other \in pending : c <= other
    /\ \E from \in ResetLsns(c, window) :
          /\ RepointForReset(c, from)
          /\ wm' = IF wm[c] = NoWatermark THEN wm ELSE [wm EXCEPT ![c] = from - 1]
          /\ todo' = ToReplay(c, from)
    /\ client' = c
    /\ pending' = pending \ {c}
    /\ UNCHANGED <<sources, quar, db, job, window>>

ReplayRow(l) ==
    /\ job = "reload"
    /\ l \in todo /\ \A m \in todo : l <= m
    /\ ApplyGuarded(l, raw)
    /\ todo' = todo \ {l}
    /\ UNCHANGED <<sources, fact, db, job, left, pending, client, temp, window>>

\* _reresolve_facts_after_reload
ReresolveFact(x) ==
    /\ job = "reload" /\ client # NoClient /\ todo = {}
    /\ x \in left
    /\ \E l \in CoveringFact(x) : fact' = Upserted(x, l)
    /\ left' = left \ {x}
    /\ UNCHANGED <<sources, snap, wm, quar, db, job, todo, pending, client, temp, window>>

\* Mutant of FinishClient: the facts are not resolved again.
FinishWithoutReresolving ==
    /\ job = "reload" /\ client # NoClient /\ todo = {}
    /\ FactsOn(client, {temp} \ {NoTemp}) = {}
    /\ snap' = [snap EXCEPT ![client] = Delete(@, {temp} \ {NoTemp})]
    /\ client' = NoClient /\ temp' = NoTemp /\ left' = {}
    /\ UNCHANGED <<sources, wm, quar, fact, db, job, todo, pending, window>>

FinishClient ==
    /\ job = "reload" /\ client # NoClient /\ todo = {} /\ left = {}
    /\ FactsOn(client, {temp} \ {NoTemp}) = {}
    /\ snap' = [snap EXCEPT ![client] = Delete(@, {temp} \ {NoTemp})]
    /\ client' = NoClient /\ temp' = NoTemp
    /\ UNCHANGED <<sources, wm, quar, fact, db, job, todo, left, pending, window>>

----------------------------------------------------------------------------
Next ==
    \/ \E l \in Lsns : Deliver(l) \/ Redeliver(l)
    \/ LandLayer1 \/ StageLayer2
    \/ \E c \in ProfileClients : StageProfile(c)
    \/ \E x \in Facts : StageFact(x)
    \/ Commit \/ Crash
    \/ BeginApply
    \/ \E l \in Lsns : ApplyRow(l)
    \/ BeginSeed \/ BeginOrphans
    \/ \E c \in Clients : SeedClient(c) \/ SeedOrphan(c)
    \/ BeginFacts
    \/ \E x \in Facts : LoadFact(x) \/ LoadFactOnStopgap(x) \/ LoadFactRaises(x)
    \/ \E w \in Windows : BeginReload(w)
    \/ \E c \in Clients : ResetClient(c)
    \/ \E l \in Lsns : ReplayRow(l)
    \/ \E x \in Facts : ReresolveFact(x)
    \/ FinishClient

Spec == Init /\ [][Next]_vars

----------------------------------------------------------------------------
(* Properties.  Those on snap, wm and fact hold inside a transaction too;   *)
(* the others are about what a commit leaves.                              *)

\* Real rows: the baseline and the versions written by change events.
Real(H) == {l \in DOMAIN H : l >= 0}

\* At every step of every load a client's current row is its newest one, and
\* a client with real history has one: no load may leave two open versions
\* (sql/03 end-dates before it appends) or none (sql/04 reactivates).
CurrentIsNewest ==
    \A c \in Clients : \A l \in DOMAIN snap[c] :
        /\ snap[c][l].is_current => l \in Newest(snap[c])
        /\ l \in Newest(snap[c]) /\ l >= 0 => snap[c][l].is_current

\* Real versions tile time from the first one on: each ends where the next
\* begins and the newest never ends, through applies out of lsn order,
\* late seeds, resets and replays.  With a gap a fact's date resolves to
\* nothing and its whole load fails; with an overlap it resolves to either.
RealVersionsTile ==
    \A c \in Clients : \A l \in Real(snap[c]) :
        IF l \in Newest(snap[c]) THEN snap[c][l].valid_to = Forever
        ELSE \E m \in Real(snap[c]) :
                /\ l < m /\ \A k \in DOMAIN snap[c] : k <= l \/ m <= k
                /\ snap[c][l].valid_to = snap[c][m].valid_from

Predecessor(H, l) == {m \in Below(H, l) : \A k \in Below(H, l) : k <= m}

\* A committed version says what its event said, however it got there: it
\* starts at the event's commit, carries the event's image, and a tombstone
\* carries the columns of the version before it, if there is one.
VersionsMatchTheLog ==
    \A c \in Clients : \A l \in DOMAIN db.snap[c] : l > 0 =>
        LET row == db.snap[c][l] IN
        /\ l \in Lsns /\ Wal[l].client = c
        /\ row.valid_from = Wal[l].commit_ts
        /\ row.is_deleted = (Wal[l].op = "delete")
        /\ IF row.is_deleted
           THEN \A m \in Predecessor(db.snap[c], l) : row.attrs = db.snap[c][m].attrs
           ELSE row.attrs[1] = l

\* The committed watermark names a recorded event, the newest one: a crash
\* between the append and the advance leaves neither without the other.
WatermarkIsNewestVersion ==
    \A c \in Clients : db.wm[c] > 0 => db.wm[c] \in Newest(db.snap[c])

\* A fact's risk_snapshot_key always refers to a row that exists: seeds and
\* reloads move the facts before they delete the row under them.
FactsHaveRows ==
    \A x \in DOMAIN fact : fact[x] \in DOMAIN snap[FactRow[x].client]

\* The two errors the reload can raise after its replay never happen: the
\* rebuilt history covers the date of every fact that lost its version, and
\* none of them resolves to the placeholder about to be deleted.
ReloadNeverRaises ==
    job = "reload" /\ client # NoClient /\ todo = {} =>
        /\ \A x \in left : CoveringFact(x) # {}
        /\ left = {} => FactsOn(client, {temp} \ {NoTemp}) = {}

\* The watermark filter of the streaming apply keeps a stale event from being
\* quarantined again by every later run.
StaleQuarantinedOnce ==
    \A l \in Lsns : quar["stale_lsn"][l] <= 1

\* A committed streaming apply leaves every event it selected recorded as a
\* version or as a quarantine row.
SelectedIsAccountedFor ==
    [][Commit /\ job = "apply" =>
          \A l \in Unapplied(db.wm) :
              \/ l \in DOMAIN snap[Wal[l].client]
              \/ \E r \in Reasons : quar[r][l] > 0]_vars

\* No commit loses a real version that an earlier one recorded: a reload
\* rebuilds all that its reset deleted, a tombstone included.
NoVersionLost ==
    [][\A c \in Clients : Real(db.snap[c]) \subseteq DOMAIN db'.snap[c]]_vars

\* No commit moves a watermark back, though a reload rolls it back inside its
\* transaction.
WatermarkNeverBack ==
    [][\A c \in Clients : db.wm[c] <= db'.wm[c]]_vars

\* A committed fact load has every staged fact on a version covering its date.
LoadedFactsInEffect ==
    [][Commit /\ job = "facts" =>
          \A x \in stagedFacts : x \in DOMAIN fact /\ fact[x] \in CoveringFact(x)]_vars

\* A committed reload has every fact whose version it rebuilt back on a
\* version covering its date.
ReloadedFactsInEffect ==
    [][Commit /\ job = "reload" =>
          \A x \in DOMAIN db.fact :
              (\E from \in ResetLsns(FactRow[x].client, window) : db.fact[x] >= from)
                  => fact[x] \in CoveringFact(x)]_vars

\* A committed reload has recorded every raw event from the reset point on,
\* with the image raw now holds: also those the streaming apply had dropped
\* or had applied before a correction.  Only deletes before any version of
\* the client are left out.
ReloadRecordsTheLog ==
    [][Commit /\ job = "reload" =>
          \A c \in Clients : \A from \in ResetLsns(c, window) :
              \A l \in ToReplay(c, from) :
                  IF l \in DOMAIN snap[c]
                  THEN Wal[l].op = "delete" \/ snap[c][l].attrs = <<l, raw[l]>>
                  ELSE Wal[l].op = "delete" /\ \A m \in DOMAIN snap[c] : l < m]_vars

\* A committed reload leaves every client without a change in its window as
\* it was: history, watermark and facts.
ReloadLeavesOthersAlone ==
    [][Commit /\ job = "reload" =>
          \A c \in Clients \ Affected(window) :
              /\ snap[c] = db.snap[c] /\ wm[c] = db.wm[c]
              /\ \A x \in Facts : FactRow[x].client = c =>
                    /\ x \in DOMAIN fact <=> x \in DOMAIN db.fact
                    /\ x \in DOMAIN fact => fact[x] = db.fact[x]]_vars

\* Each tombstone has a row before it to copy.
Grounded(H) == \A l \in DOMAIN H : H[l].is_deleted => Predecessor(H, l) # {}

\* A reload of what is already recorded gains and loses no version, moves no
\* watermark and changes no real version: reloading the same range twice is
\* reloading it once.  Except for a tombstone that is its client's oldest row:
\* it copies the placeholder of its reload, and so any row that the reset has
\* deleted.
ReloadIsRepeatable ==
    [][Commit /\ job = "reload" =>
          \A c \in Clients : \A from \in ResetLsns(c, window) :
              (\A l \in ToReplay(c, from) :
                  /\ l \in DOMAIN db.snap[c]
                  /\ Wal[l].op # "delete" => db.snap[c][l].attrs = <<l, raw[l]>>)
              => /\ Real(snap[c]) = Real(db.snap[c]) /\ wm[c] = db.wm[c]
                 /\ Grounded(db.snap[c]) =>
                       \A l \in Real(snap[c]) : snap[c][l] = db.snap[c][l]]_vars

\* After a committed seed a stopgap row is left only to a client whose first
\* change registers it or that has change history: no other client stays on
\* one-microsecond versions, wherever its facts came from.
SeedClearsStopgaps ==
    [][Commit /\ job = "orphans" =>
          \A c \in Clients : Stopgaps(c) # {} =>
              c \in Excluded \/ \E l \in DOMAIN snap[c] : l > 0]_vars

----------------------------------------------------------------------------
(* The inductive invariant behind CurrentIsNewest and RealVersionsTile.  An *)
(* append keeps a history tiled because the watermark is above every row;   *)
(* a reset lowers the watermark together with the rows; and the reload's    *)
(* placeholder, which is no change of the log, is the oldest row while it   *)
(* exists.                                                                  *)

\* Rows above the baseline are changes of the log, not above the watermark.
RowsAreLogged(H, w, c, t) ==
    \A l \in DOMAIN H : l > 0 /\ l # t =>
        /\ l \in Lsns /\ Wal[l].client = c /\ l <= w
        /\ H[l].valid_from = Wal[l].commit_ts

PlaceholderIsOldest(H, w, t) ==
    t # NoTemp => t <= w /\ \A l \in DOMAIN H : t <= l

HistoryInv(H, w, c, t) ==
    Tiled(H) /\ RowsAreLogged(H, w, c, t) /\ PlaceholderIsOldest(H, w, t)

TempOf(c) == IF c = client THEN temp ELSE NoTemp

\* The histories and watermarks, as the running transaction sees them and as
\* committed, stay in the shape that apply_cdc_event and the reset rely on.
IInv ==
    /\ \A c \in Clients : HistoryInv(snap[c], wm[c], c, TempOf(c))
    /\ \A c \in Clients : HistoryInv(db.snap[c], db.wm[c], c, NoTemp)
    /\ client = NoClient => temp = NoTemp
    /\ job # "reload" => client = NoClient

----------------------------------------------------------------------------
(* What the repository's documents say and the loads do not do.            *)

\* ADR-2: "<=1 current row per client, no overlapping validity windows".
WindowsNeverOverlap ==
    \A c \in Clients : \A l, m \in DOMAIN db.snap[c] :
        l < m => \/ db.snap[c][l].valid_to <= db.snap[c][m].valid_from
                 \/ db.snap[c][m].valid_to <= db.snap[c][l].valid_from

\* part1_pipeline.md: every staged change ends in the warehouse or in the
\* quarantine, "nothing is silently dropped".
NothingSilentlyDropped ==
    [][Commit /\ job = "apply" =>
          \A l \in Lsns : staged[l] # 0 =>
              \/ l \in DOMAIN snap[Wal[l].client]
              \/ \E r \in Reasons : quar[r][l] > 0]_vars

\* part1_pipeline.md: replaying a batch leaves the warehouse byte-identical,
\* so a committed apply leaves nothing a second one would work on.
SecondApplyFindsNothing ==
    [][Commit /\ job = "apply" => Unapplied(wm) = {}]_vars

\* reload.py: with no row below the reset point there is nothing for a
\* tombstone to copy, and the delete is quarantined instead.
TombstonesHaveAPredecessor == \A c \in Clients : Grounded(db.snap[c])
=============================================================================
