--------------------------- MODULE ConcurrentLoads ---------------------------
(***************************************************************************)
(* The same loads as interleaved READ COMMITTED transactions: change        *)
(* applies, a historical reload, a baseline seed and fact loads, started by *)
(* DAGs that do not know of each other (dags/dag_factory.py).               *)
(*                                                                          *)
(* A statement reads what is committed overlaid with the transaction's own  *)
(* writes.  It waits for the advisory locks, row locks and unique keys that *)
(* other transactions hold until they end; PostgreSQL aborts one of a cycle *)
(* of waiters.  A step is a stretch of statements that nobody else's commit *)
(* can come between to any effect; where a statement waits, its snapshot is *)
(* a step of its own.                                                       *)
(***************************************************************************)
EXTENDS SnapshotTable, FiniteSets

CONSTANTS
    Clients, Lsns, Wal,     \* as in WarehouseLoads; all changes are staged
    Line,           \* lsn -> position in the file, which is the staging order
    ReloadFrom,     \* client -> reset point, for the clients in the reload's range
    ProfileClients, \* clients in staging.client_profile
    Seeded,         \* clients whose baseline is already committed
    Facts, FactRow, \* as in WarehouseLoads
    Loads,          \* the transactions, each run once
    Kind,           \* what each of them is
    Source,         \* the staged facts of each (of each fact load)
    Slots           \* bound: loads that run at a time

Kinds == {"apply", "reload", "seed", "facts"}

ASSUME LogAssumption ==
    /\ Clients \subseteq Nat /\ Lsns \subseteq Nat \ {0} /\ IsFiniteSet(Lsns)
    /\ Wal \in [Lsns -> [client : Clients, op : {"insert", "update", "delete"},
                         commit_ts : Nat]]
    /\ Line \in [Lsns -> Nat]
    /\ \A l \in Lsns : Wal[l].commit_ts < Forever
ASSUME LoadsAssumption ==
    /\ Kind \in [Loads -> Kinds]
    /\ Facts \subseteq Nat /\ Source \in [Loads -> SUBSET Facts]
    /\ FactRow \in [Facts -> [client : Clients, event_ts : Nat]]
    /\ DOMAIN ReloadFrom \subseteq Clients
    /\ \A c \in DOMAIN ReloadFrom :
          /\ ReloadFrom[c] \in Lsns /\ Wal[ReloadFrom[c]].client = c
          /\ \A x \in Facts : FactRow[x].client # c
    /\ ProfileClients \subseteq Clients /\ Seeded \subseteq Clients
    /\ Slots \in Nat

None == -1

\* Why a load failed: aborted is a crash or a deadlock's victim.
Failures == {"aborted", "duplicate_watermark", "unresolved", "uncovered", "foreign_key"}

Steps == {"ready", "next", "apply", "reset", "baseline", "repoint", "delete",
          "stopgap", "allocate", "insert", "pin", "committed"} \cup Failures

\* Why a change is quarantined.
Reasons == {"stale_lsn", "delete_with_no_baseline"}

VARIABLES
    db,     \* the committed histories, watermarks, facts and quarantined changes
    at,     \* load -> its next step, or how it ended
    job,    \* load -> its local variables
    own,    \* load -> its uncommitted writes
    locks   \* load -> the advisory and row locks it holds besides

vars == <<db, at, job, own, locks>>

NoWork == [events |-> {}, pending |-> {}, left |-> {}, orphans |-> FALSE,
           item |-> None, seen |-> None, keys |-> {}]

Empty == [x \in {} |-> {}]

NoWrites == [rows |-> [c \in Clients |-> [put |-> Empty, gone |-> {}]],
             marks |-> Empty, pins |-> Empty, rejected |-> {}]

\* Every load's cursor, lists and writes, and the tables, have their shape.
TypeOK ==
    /\ \A c \in Clients : IsHistory(db.snap[c])
    /\ db.wm \in [Clients -> Lsns \cup {None} \cup {l - 1 : l \in Lsns}]
    /\ DOMAIN db.fact \subseteq Facts
    /\ db.rejected \subseteq Reasons \X Lsns
    /\ at \in [Loads -> Steps]
    /\ \A t \in Loads :
          /\ job[t].events \subseteq Lsns /\ job[t].pending \subseteq Clients
          /\ job[t].left \subseteq Facts /\ job[t].keys \subseteq Int
          /\ job[t].item \in {None} \cup Lsns \cup Clients \cup Facts
          /\ \A c \in Clients : IsHistory(own[t].rows[c].put)
          /\ own[t].rejected \subseteq Reasons \X Lsns
          /\ DOMAIN own[t].marks \subseteq Clients
          /\ DOMAIN own[t].pins \subseteq Facts

Init ==
    /\ db = [snap |-> [c \in Clients |->
                          IF c \in Seeded THEN Insert(NoHistory, 0, BaselineRow(ProfileAttrs))
                          ELSE NoHistory],
             wm |-> [c \in Clients |-> None],
             fact |-> Empty,
             rejected |-> {}]
    /\ at = [t \in Loads |-> "ready"]
    /\ job = [t \in Loads |-> NoWork]
    /\ own = [t \in Loads |-> NoWrites]
    /\ locks = [t \in Loads |-> {}]

----------------------------------------------------------------------------
(* What a transaction sees and writes.                                     *)

Overlay(below, above) ==
    [x \in DOMAIN below \cup DOMAIN above |->
        IF x \in DOMAIN above THEN above[x] ELSE below[x]]

History(t, c) ==
    Overlay(Delete(db.snap[c], own[t].rows[c].gone), own[t].rows[c].put)

Mark(t, c) == IF c \in DOMAIN own[t].marks THEN own[t].marks[c] ELSE db.wm[c]

Pins(t) == Overlay(db.fact, own[t].pins)

PinnedTo(t, c, lsns) ==
    {x \in DOMAIN Pins(t) : FactRow[x].client = c /\ Pins(t)[x] \in lsns}

\* The load's writes with client c's history now being H: where it differs
\* from what is committed.  A row put back as it was counts as not written.
Writing(t, c, H) ==
    LET base == db.snap[c]
        put == {l \in DOMAIN H : l \notin DOMAIN base \/ H[l] # base[l]}
    IN  [own[t] EXCEPT !.rows[c] =
            [put |-> [l \in put |-> H[l]], gone |-> DOMAIN base \ DOMAIN H]]

Running(t) == at[t] \notin {"ready", "committed"} \cup Failures

----------------------------------------------------------------------------
(* Waiting.  What a load holds others wait for if they want it.             *)

\* Mutant of the two below: no advisory lock.
NoLock(c) == {}

\* pg_advisory_xact_lock(hashtext('cdc_apply:' || client_id)) of scd2_apply,
\* and the same lock as the reload takes it.
ApplyLock(c) == {<<"cdc_apply", c>>}
ReloadLock(c) == {<<"cdc_apply", c>>}

\* pg_advisory_xact_lock(hashtext('risk_snapshot_stopgap:' || client_id))
StopgapLock(c) == {<<"risk_snapshot_stopgap", c>>}

RowsOf(c, lsns) == {<<"row", c, l>> : l \in lsns}

Holds(t) ==
    locks[t]
    \cup (UNION {RowsOf(c, DOMAIN own[t].rows[c].put \cup own[t].rows[c].gone) : c \in Clients})
    \cup (UNION {{<<"gone", c, l>> : l \in own[t].rows[c].gone} : c \in Clients})
    \cup {<<"mark", c>> : c \in DOMAIN own[t].marks}
    \cup {<<"fact", x>> : x \in DOMAIN own[t].pins}
    \cup {<<"pinned", FactRow[x].client, own[t].pins[x]>> : x \in DOMAIN own[t].pins}

\* Mutant of FirstEvent: the SELECT has no ORDER BY staging_seq.
AnyEvent(t) == job[t].events

\* Applies go by file order, the replay of a reload by lsn.
FirstEvent(t) ==
    {l \in job[t].events : \A m \in job[t].events :
        IF Kind[t] = "apply" THEN Line[l] <= Line[m] ELSE l <= m}

FirstClient(t) == {c \in job[t].pending : \A d \in job[t].pending : c <= d}

Current(H) == {l \in DOMAIN H : H[l].is_current}

NewestBelow(H, from) == {l \in Below(H, from) : \A m \in Below(H, from) : m <= l}

\* SELECT ... FOR UPDATE locks a watermark row that exists, and no other.
MarkRow(c) == IF db.wm[c] = None THEN {} ELSE {<<"mark", c>>}

Wants(t) ==
    LET i == job[t].item
        keys == job[t].keys
    IN
    CASE at[t] = "next" /\ job[t].events # {} ->
            UNION {ApplyLock(Wal[l].client) \cup MarkRow(Wal[l].client) : l \in FirstEvent(t)}
      [] at[t] = "next" /\ Kind[t] = "reload" /\ job[t].events = {} ->
            UNION {ReloadLock(c) : c \in FirstClient(t)}
      [] at[t] = "apply" /\ i > job[t].seen ->
            {<<"mark", Wal[i].client>>}
            \cup RowsOf(Wal[i].client, {i} \cup Current(History(t, Wal[i].client)))
      [] at[t] = "reset" ->
            {<<"mark", i>>} \cup {<<"pinned", i, l>> : l \in keys}
            \cup RowsOf(i, keys \cup NewestBelow(History(t, i), ReloadFrom[i]))
      [] at[t] = "baseline" -> RowsOf(i, {0})
      [] at[t] = "repoint" -> {<<"fact", x>> : x \in PinnedTo(t, i, keys)}
      [] at[t] = "delete" -> RowsOf(i, keys) \cup {<<"pinned", i, l>> : l \in keys}
      [] at[t] = "stopgap" -> StopgapLock(FactRow[i].client)
      [] at[t] = "insert" -> RowsOf(FactRow[i].client, keys)
      [] at[t] = "pin" -> {<<"fact", i>>} \cup {<<"gone", FactRow[i].client, l>> : l \in keys}
      [] OTHER -> {}

Blockers(t) ==
    LET wanted == Wants(t)
    IN  IF wanted = {} THEN {} ELSE {u \in Loads \ {t} : wanted \cap Holds(u) # {}}

Free(t) == Blockers(t) = {}

----------------------------------------------------------------------------
(* Beginnings and ends.  The list of rows to work on is fixed by the first  *)
(* SELECT, before any lock is taken.                                       *)

Go(t, step, work) == at' = [at EXCEPT ![t] = step] /\ job' = [job EXCEPT ![t] = work]

Start(t, kind, work) ==
    /\ at[t] = "ready" /\ Kind[t] = kind
    /\ Cardinality({u \in Loads : Running(u)}) < Slots
    /\ Go(t, "next", work)
    /\ UNCHANGED <<db, own, locks>>

BeginApply(t) ==
    Start(t, "apply", [NoWork EXCEPT
        !.events = {l \in Lsns : ~ (l <= db.wm[Wal[l].client])}])

BeginReload(t) == Start(t, "reload", [NoWork EXCEPT !.pending = DOMAIN ReloadFrom])

\* The clients whose first change registers them, as in WarehouseLoads.
Excluded ==
    {Wal[l].client : l \in {m \in Lsns : Wal[m].op = "insert" /\
        \A k \in Lsns : Wal[k].client = Wal[m].client => m <= k}}

BeginSeed(t) == Start(t, "seed", [NoWork EXCEPT !.pending = ProfileClients \ Excluded])

BeginFacts(t) == Start(t, "facts", [NoWork EXCEPT !.left = Source[t]])

\* Mutant of ReleaseLocks: pg_advisory_lock, held by the session.
KeepLocks(t) == UNCHANGED locks

ReleaseLocks(t) == locks' = [locks EXCEPT ![t] = {}]

End(t, outcome) ==
    /\ Go(t, outcome, NoWork)
    /\ own' = [own EXCEPT ![t] = NoWrites]
    /\ ReleaseLocks(t)

Fail(t, why) == End(t, why) /\ UNCHANGED db

Done(t) ==
    /\ at[t] = "next"
    /\ job[t].events = {} /\ job[t].pending = {} /\ job[t].left = {}
    /\ Kind[t] = "seed" => job[t].orphans

\* The keys others hold of rows that t deletes: the lsn of such a row may be
\* used again, its risk_snapshot_key never.
KeysLeft(u, t) ==
    LET c == IF at[u] = "pin" THEN FactRow[job[u].item].client ELSE job[u].item
    IN  IF at[u] \in {"repoint", "delete", "pin"} THEN job[u].keys \ own[t].rows[c].gone
        ELSE job[u].keys

Commit(t) ==
    /\ Done(t)
    /\ at' = [at EXCEPT ![t] = "committed"]
    /\ job' = [u \in Loads |-> IF u = t THEN NoWork
                               ELSE [job[u] EXCEPT !.keys = KeysLeft(u, t)]]
    /\ own' = [own EXCEPT ![t] = NoWrites]
    /\ ReleaseLocks(t)
    /\ db' = [snap |-> [c \in Clients |-> History(t, c)],
              wm |-> [c \in Clients |-> Mark(t, c)],
              fact |-> Pins(t),
              rejected |-> db.rejected \cup own[t].rejected]

Crash(t) == Running(t) /\ Fail(t, "aborted")

\* PostgreSQL's deadlock check, run by a waiter: it finds itself in a cycle,
\* the smallest set of loads that each wait for one of the set.
WaitsWithin(S) == S # {} /\ \A t \in S : Blockers(t) \cap S # {}

InCycle(t) ==
    LET waiting == {u \in Loads : Running(u) /\ ~ Free(u)}
    IN  \E S \in SUBSET waiting :
           /\ t \in S /\ WaitsWithin(S)
           /\ \A R \in SUBSET S : R # S => ~ WaitsWithin(R)

BreakDeadlock(t) == Running(t) /\ ~ Free(t) /\ InCycle(t) /\ Fail(t, "aborted")

----------------------------------------------------------------------------
(* scd2_apply and the replay of a reload.                                  *)

\* The lock, scd2_apply's delete guard, and the FOR UPDATE of the watermark.
\* The reload already holds the lock.
LockEvent(t, l) ==
    LET c == Wal[l].client IN
    /\ at[t] = "next" /\ l \in FirstEvent(t) /\ Free(t)
    /\ \/ /\ Wal[l].op = "delete" /\ DOMAIN History(t, c) = {}
          /\ locks' = [locks EXCEPT ![t] = @ \cup ApplyLock(c)]
          /\ own' = [own EXCEPT ![t].rejected = @ \cup {<<"delete_with_no_baseline", l>>}]
          /\ Go(t, "next", [job[t] EXCEPT !.events = @ \ {l}])
       \/ /\ ~ (Wal[l].op = "delete" /\ DOMAIN History(t, c) = {})
          /\ locks' = [locks EXCEPT ![t] =
                          @ \cup MarkRow(c) \cup IF Kind[t] = "apply" THEN ApplyLock(c) ELSE {}]
          /\ Go(t, "apply", [job[t] EXCEPT !.item = l, !.seen = Mark(t, c)])
          /\ UNCHANGED own
    /\ UNCHANGED db

EventDone(t) ==
    Go(t, "next", [job[t] EXCEPT !.events = @ \ {job[t].item}, !.item = None, !.seen = None])

\* apply_cdc_event with the watermark it has read: stale and quarantined,
\* colliding with a watermark inserted meanwhile, or appended.
RejectStale(t) ==
    /\ at[t] = "apply" /\ job[t].item <= job[t].seen
    /\ own' = [own EXCEPT ![t].rejected = @ \cup {<<"stale_lsn", job[t].item>>}]
    /\ EventDone(t)
    /\ UNCHANGED <<db, locks>>

Collides(t) == job[t].seen = None /\ db.wm[Wal[job[t].item].client] # None

ApplyEvent(t) ==
    LET l == job[t].item
        c == Wal[l].client
        H == History(t, c)
    IN
    /\ at[t] = "apply" /\ l > job[t].seen /\ Free(t)
    /\ \/ Collides(t) /\ Fail(t, "duplicate_watermark")
       \/ /\ ~ Collides(t)
          /\ LET appended == IF Wal[l].op = "delete" THEN ApplyDelete(H, l, Wal[l].commit_ts)
                             ELSE ApplyUpsert(H, l, Wal[l].commit_ts, <<l, 1>>)
             IN own' = [own EXCEPT ![t] =
                           [Writing(t, c, appended) EXCEPT
                               !.marks = Overlay(@, [d \in {c} |-> l])]]
          /\ EventDone(t)
          /\ UNCHANGED <<db, locks>>

----------------------------------------------------------------------------
(* historical_reload, of clients without facts.                            *)

\* The lock; then reset_client_for_reload begins its DELETE, whose snapshot
\* fixes the rows it will wait for and delete.
LockForReset(t, c) ==
    /\ at[t] = "next" /\ Kind[t] = "reload" /\ job[t].events = {}
    /\ c \in FirstClient(t) /\ Free(t)
    /\ locks' = [locks EXCEPT ![t] = @ \cup ReloadLock(c)]
    /\ Go(t, "reset", [job[t] EXCEPT !.item = c,
                          !.keys = {l \in DOMAIN History(t, c) : l >= ReloadFrom[c]}])
    /\ UNCHANGED <<db, own>>

Reset(t) ==
    LET c == job[t].item
        from == ReloadFrom[c]
        H == History(t, c)
        missed == {l \in DOMAIN H : l >= from} \ job[t].keys
        left == Overlay(ResetFrom(H, from), [l \in missed |-> H[l]])
        rolledBack == [d \in IF Mark(t, c) = None THEN {} ELSE {c} |-> from - 1]
    IN
    /\ at[t] = "reset" /\ Free(t)
    /\ own' = [own EXCEPT ![t] =
                  [Writing(t, c, left) EXCEPT !.marks = Overlay(@, rolledBack)]]
    /\ Go(t, "next", [job[t] EXCEPT
                         !.pending = @ \ {c}, !.item = None, !.keys = {},
                         !.events = {l \in Lsns : Wal[l].client = c /\ l >= from}])
    /\ UNCHANGED <<db, locks>>

----------------------------------------------------------------------------
(* scd2_baseline_seed: no advisory lock.                                   *)

ClientDone(t, c) ==
    Go(t, "next", [job[t] EXCEPT !.pending = @ \ {c}, !.item = None, !.keys = {}])

CheckHistory(t, c) ==
    /\ at[t] = "next" /\ Kind[t] = "seed" /\ c \in job[t].pending
    /\ IF \E l \in DOMAIN History(t, c) : l > 0 THEN ClientDone(t, c)
       ELSE Go(t, "baseline", [job[t] EXCEPT !.item = c])
    /\ UNCHANGED <<db, own, locks>>

\* The insert, and the SELECT of the stopgaps to clear.
InsertBaseline(t) ==
    LET c == job[t].item
        H == History(t, c)
        stopgaps == {l \in DOMAIN H : l < 0}
        attrs == IF job[t].orphans THEN UnknownAttrs ELSE ProfileAttrs
    IN
    /\ at[t] = "baseline" /\ Free(t)
    /\ own' = [own EXCEPT ![t] = Writing(t, c, Insert(H, 0, BaselineRow(attrs)))]
    /\ IF stopgaps = {} THEN ClientDone(t, c)
       ELSE Go(t, "repoint", [job[t] EXCEPT !.keys = stopgaps])
    /\ UNCHANGED <<db, locks>>

Repoint(t) ==
    /\ at[t] = "repoint" /\ Free(t)
    /\ own' = [own EXCEPT ![t].pins =
                  Overlay(@, [x \in PinnedTo(t, job[t].item, job[t].keys) |-> 0])]
    /\ Go(t, "delete", job[t])
    /\ UNCHANGED <<db, locks>>

\* Mutant of DeleteStopgaps: the facts' risk_snapshot_key REFERENCES nothing.
DeleteUnreferenced(t) ==
    LET c == job[t].item IN
    /\ at[t] = "delete"
    /\ own' = [own EXCEPT ![t] = Writing(t, c, Delete(History(t, c), job[t].keys))]
    /\ ClientDone(t, c)
    /\ UNCHANGED <<db, locks>>

\* A fact pinned to one of the rows since: the foreign key refuses.
DeleteStopgaps(t) ==
    LET c == job[t].item
        keys == job[t].keys
    IN
    /\ at[t] = "delete" /\ Free(t)
    /\ \/ PinnedTo(t, c, keys) # {} /\ Fail(t, "foreign_key")
       \/ /\ PinnedTo(t, c, keys) = {}
          /\ own' = [own EXCEPT ![t] = Writing(t, c, Delete(History(t, c), keys))]
          /\ ClientDone(t, c)
          /\ UNCHANGED <<db, locks>>

BeginOrphans(t) ==
    /\ at[t] = "next" /\ Kind[t] = "seed" /\ job[t].pending = {} /\ ~ job[t].orphans
    /\ Go(t, "next", [job[t] EXCEPT
                         !.orphans = TRUE,
                         !.pending = {c \in Clients : \E l \in DOMAIN History(t, c) : l < 0}
                                         \ (ProfileClients \cup Excluded)])
    /\ UNCHANGED <<db, own, locks>>

----------------------------------------------------------------------------
(* fact_upsert through _resolve_risk_snapshot_key.                         *)

Resolve(t, x) ==
    LET found == Covering(History(t, FactRow[x].client), FactRow[x].event_ts) IN
    /\ at[t] = "next" /\ x \in job[t].left
    /\ \/ \E l \in found : Go(t, "pin", [job[t] EXCEPT !.item = x, !.keys = {l}])
       \/ found = {} /\ Go(t, "stopgap", [job[t] EXCEPT !.item = x])
    /\ UNCHANGED <<db, own, locks>>

\* The lock and the check for real history; then, as another statement that
\* no apply waits for, the choice of an lsn: below whatever there is by now.
LockStopgap(t) ==
    LET c == FactRow[job[t].item].client
        H == History(t, c)
    IN
    /\ at[t] = "stopgap" /\ Free(t)
    /\ \/ (\E l \in DOMAIN H : l >= 0) /\ Fail(t, "uncovered")
       \/ /\ \A l \in DOMAIN H : l < 0
          /\ locks' = [locks EXCEPT ![t] = @ \cup StopgapLock(c)]
          /\ Go(t, "allocate", job[t])
          /\ UNCHANGED <<db, own>>

AllocateStopgap(t) ==
    /\ at[t] = "allocate"
    /\ Go(t, "insert", [job[t] EXCEPT
                           !.keys = StopgapLsns(History(t, FactRow[job[t].item].client))])
    /\ UNCHANGED <<db, own, locks>>

\* ON CONFLICT DO NOTHING: another's row of that lsn may swallow this one.
InsertStopgap(t) ==
    LET x == job[t].item
        c == FactRow[x].client
        ts == FactRow[x].event_ts
    IN
    /\ at[t] = "insert" /\ Free(t)
    /\ \E lsn \in job[t].keys :
          LET H == Insert(History(t, c), lsn, StopgapRow(ts)) IN
          \/ Covering(H, ts) = {} /\ Fail(t, "unresolved")
          \/ \E l \in Covering(H, ts) :
                /\ own' = [own EXCEPT ![t] = Writing(t, c, H)]
                /\ Go(t, "pin", [job[t] EXCEPT !.keys = {l}])
                /\ UNCHANGED <<db, locks>>

\* The fact is written with the key; or the key's row is gone.
PinFact(t) ==
    LET x == job[t].item IN
    /\ at[t] = "pin" /\ Free(t)
    /\ \/ job[t].keys = {} /\ Fail(t, "foreign_key")
       \/ \E l \in job[t].keys :
             /\ own' = [own EXCEPT ![t].pins = Overlay(@, [y \in {x} |-> l])]
             /\ Go(t, "next", [job[t] EXCEPT !.left = @ \ {x}, !.item = None, !.keys = {}])
             /\ UNCHANGED <<db, locks>>

----------------------------------------------------------------------------
Begin(t) == BeginApply(t) \/ BeginReload(t) \/ BeginSeed(t) \/ BeginFacts(t)

Step(t) ==
    \/ \E l \in Lsns : LockEvent(t, l)
    \/ RejectStale(t) \/ ApplyEvent(t)
    \/ \E c \in Clients : LockForReset(t, c) \/ CheckHistory(t, c)
    \/ Reset(t)
    \/ InsertBaseline(t) \/ Repoint(t) \/ DeleteStopgaps(t) \/ BeginOrphans(t)
    \/ \E x \in Facts : Resolve(t, x)
    \/ LockStopgap(t) \/ AllocateStopgap(t) \/ InsertStopgap(t) \/ PinFact(t)
    \/ Commit(t)

Next == \E t \in Loads : Begin(t) \/ Step(t) \/ Crash(t) \/ BreakDeadlock(t)

\* While some load can take a step, some load does: workers go on when their
\* statements return, and the database's deadlock check runs.  No load need
\* start and none need crash.
Progress == \E t \in Loads : Running(t) /\ (Step(t) \/ BreakDeadlock(t))

Fairness == WF_vars(Progress)

Spec == Init /\ [][Next]_vars /\ Fairness

----------------------------------------------------------------------------
(* Properties.                                                             *)

Changed(c) == {l \in DOMAIN db.snap[c] : l > 0}

LsnsOf(c) == {l \in Lsns : Wal[l].client = c}

\* Whatever applies, reloads and seeds overlap, the committed history of a
\* client is one they could have written one after the other: one open
\* version, the newest; versions that tile time, each a change of the client;
\* and the newest change on record is the watermark's.
CommittedHistoriesSound ==
    \A c \in Clients :
        /\ Tiled(db.snap[c])
        /\ \A l \in Newest(db.snap[c]) : l >= 0 => db.snap[c][l].is_current
        /\ \A l \in Changed(c) : l \in LsnsOf(c) /\ l <= db.wm[c]
        /\ db.wm[c] # None => db.wm[c] \in Changed(c)

\* scd2_apply's advisory lock: two first applies of one client never collide
\* on the watermark's INSERT.
WatermarksNeverCollide == \A t \in Loads : at[t] # "duplicate_watermark"

\* The stopgap lock: a fact load never has its stopgap swallowed by one that
\* another fact load inserts at the same lsn.
StopgapsNeverSwallowed == \A t \in Loads : at[t] # "unresolved"

\* A later change that the file names first: scd2_apply keeps that one.
Overtaken(l) ==
    \E m \in LsnsOf(Wal[l].client) : l < m /\ Line[m] <= Line[l]

\* Before the point from which a reload has replayed the client's log.
NotReplayed(l) ==
    \E t \in Loads :
        /\ Kind[t] = "reload" /\ at[t] = "committed"
        /\ Wal[l].client \in DOMAIN ReloadFrom /\ l < ReloadFrom[Wal[l].client]

\* No lock wait and no overlap loses a change.  One that the watermark has
\* passed or that was quarantined as stale is on record, unless the file's own
\* order (ADR-10), the reload's window (it moves the watermark past what it
\* does not replay) or the guard on deletes accounts for it.
NothingMissed ==
    \A l \in Lsns :
        \/ l \in DOMAIN db.snap[Wal[l].client]
        \/ l > db.wm[Wal[l].client] /\ <<"stale_lsn", l>> \notin db.rejected
        \/ Overtaken(l) \/ NotReplayed(l)
        \/ <<"delete_with_no_baseline", l>> \in db.rejected

\* A committed fact is on a committed version that covers its date, though
\* seeds delete stopgaps that fact loads are pinning facts to.
CommittedFactsInEffect ==
    \A x \in DOMAIN db.fact :
        db.fact[x] \in Covering(db.snap[FactRow[x].client], FactRow[x].event_ts)

\* Loads that have begun all end: the cycles that file order against client
\* order and one stopgap lock against another make are broken, and no lock
\* outlives the load that took it.
EveryLoadEnds == []<>(\A t \in Loads : ~ Running(t))

----------------------------------------------------------------------------
(* What the repository's documents say and the loads do not do.            *)

\* ADR-2: "<=1 current row per client".
OneCurrentRow == \A c \in Clients : Cardinality(Current(db.snap[c])) <= 1

\* _resolve_risk_snapshot_key: a stopgap's "source_lsn is always negative here
\* (never a real CDC lsn [...])", so a row with lsn > 0 is a change of its client.
RealLsnsAreChanges == \A c \in Clients : Changed(c) \subseteq LsnsOf(c)
=============================================================================
