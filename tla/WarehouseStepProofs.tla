------------------------- MODULE WarehouseStepProofs -------------------------
(***************************************************************************)
(* Theorems about what a committed load has done to what was committed      *)
(* before it: LoadsInv of WarehouseInvariants is inductive, and with it the *)
(* action properties of WarehouseLoads hold of every commit.                *)
(***************************************************************************)
EXTENDS WarehouseLogProofs

\* One more quarantine row is one more of its reason and change, and leaves
\* the other counts alone.
LEMMA OneMoreEffect ==
    ASSUME TypeOK, NEW r \in Reasons, NEW l \in Lsns, NEW q, q = OneMore(r, l)
    PROVE  /\ q[r][l] = IF quar[r][l] = Many THEN Many ELSE quar[r][l] + 1
           /\ q[r][l] > 0
           /\ \A s \in Reasons : \A k \in Lsns : s # r \/ k # l => q[s][k] = quar[s][k]
<1>1. quar \in [Reasons -> [Lsns -> 0..Many]]
  BY DEF TypeOK, TablesOK
<1>2. quar[r] \in [Lsns -> 0..Many] /\ quar[r][l] \in 0..Many
  BY <1>1
<1> DEFINE n == IF quar[r][l] = Many THEN Many ELSE quar[r][l] + 1
<1>3. q = [quar EXCEPT ![r] = [quar[r] EXCEPT ![l] = n]]
  BY DEF OneMore
<1>4. n > 0
  BY <1>2 DEF Many
<1> HIDE DEF n
<1>5. q[r] = [quar[r] EXCEPT ![l] = n] /\ \A s \in Reasons : s # r => q[s] = quar[s]
  BY <1>1, <1>3
<1>6. q[r][l] = n /\ \A k \in Lsns : k # l => q[r][k] = quar[r][k]
  BY <1>2, <1>5
<1> QED BY <1>4, <1>5, <1>6 DEF n

\* The quarantine counts are naturals.
LEMMA QuarType ==
    ASSUME TypeOK, NEW r \in Reasons, NEW l \in Lsns
    PROVE  quar[r][l] \in Nat /\ db.quar[r][l] \in Nat
<1>1. quar \in [Reasons -> [Lsns -> 0..Many]] /\ db.quar \in [Reasons -> [Lsns -> 0..Many]]
  BY DEF TypeOK, TablesOK
<1>2. quar[r][l] \in 0..Many /\ db.quar[r][l] \in 0..Many
  BY <1>1
<1> QED BY <1>2 DEF Many

----------------------------------------------------------------------------
(* Between loads, and where one begins and ends.                            *)

\* Between loads there is nothing but the committed tables.
LEMMA IdleLoadsInv ==
    ASSUME job' = "idle", Tables' = db', StaleInv'
    PROVE  LoadsInv'
BY DEF LoadsInv, ApplySoFar, SeedSoFar, FactsSoFar, IdleSoFar, ReloadSoFar

\* Steps that leave the quarantine and the watermarks alone.
LEMMA StaleKept ==
    ASSUME StaleInv, UNCHANGED <<quar, wm, db>>, job # "reload" \/ job' = "reload",
           job' = "apply" => job = "apply" /\ todo' \subseteq todo
    PROVE  StaleInv'
BY DEF StaleInv, StaleQuarantinedOnce

\* The source system and the first two layers.
LEMMA SourceStepLoadsInv ==
    ASSUME LoadsInv, job = "idle", UNCHANGED <<tables, db, job, progress>>
    PROVE  LoadsInv'
<1>1. Tables' = db' /\ job' = "idle"
  BY DEF LoadsInv, IdleSoFar, Tables, tables
<1>2. StaleInv'
  BY StaleKept DEF LoadsInv, tables
<1> QED BY <1>1, <1>2, IdleLoadsInv

\* A rollback.
LEMMA UndoLoadsInv ==
    ASSUME TypeOK, LoadsInv, Undo
    PROVE  LoadsInv'
<1>1. /\ db = [snap |-> db.snap, wm |-> db.wm, quar |-> db.quar, fact |-> db.fact]
      /\ job' = "idle" /\ db' = db
      /\ snap' = db.snap /\ wm' = db.wm /\ quar' = db.quar /\ fact' = db.fact
  BY DEF TypeOK, Undo
<1>2. Tables' = [snap |-> snap', wm |-> wm', quar |-> quar', fact |-> fact']
  BY DEF Tables
<1>3. Tables' = db'
  BY <1>1, <1>2
<1>4. StaleInv'
  BY <1>1 DEF LoadsInv, StaleInv, StaleQuarantinedOnce
<1> QED BY <1>1, <1>3, <1>4, IdleLoadsInv

\* A commit: what it quarantined as stale is not above the watermarks it
\* leaves, also those that a reload has rebuilt.
LEMMA CommitLoadsInv ==
    ASSUME TypeOK, IInv, LogInv, LoadsInv, Commit
    PROVE  LoadsInv'
<1>1. /\ job' = "idle" /\ Tables' = db' /\ UNCHANGED <<snap, wm, quar, fact>>
      /\ db'.quar = quar /\ db'.wm = wm
  BY DEF Commit, Tables, tables
<1>2. ASSUME NEW l \in Lsns
      PROVE  /\ quar["stale_lsn"][l] <= 1
             /\ quar["stale_lsn"][l] # 0 => l <= wm[Wal[l].client]
  <2>1. quar["stale_lsn"][l] <= 1
    BY DEF LoadsInv, StaleInv, StaleQuarantinedOnce
  <2>2. CASE job # "reload"
    BY <2>1, <2>2 DEF LoadsInv, StaleInv
  <2>3. CASE job = "reload"
    <3> DEFINE c == Wal[l].client
    <3>1. c \in Clients /\ l \in Int /\ client = NoClient
      BY <2>3, WalType DEF Commit, Finished
    <3>2. db.wm[c] <= wm[c] /\ db.wm[c] \in Int /\ wm[c] \in Int
      BY <3>1, MarkNotBack, ClientType
    <3>3. quar["stale_lsn"][l] # 0 => l <= db.wm[c]
      BY <2>3 DEF LoadsInv, StaleInv, ReloadSoFar
    <3> HIDE DEF c
    <3>4. quar["stale_lsn"][l] # 0 => l <= wm[c]
      BY <3>1, <3>2, <3>3
    <3> QED BY <2>1, <3>4 DEF c
  <2> QED BY <2>2, <2>3
<1>3. StaleInv'
  BY <1>1, <1>2 DEF StaleInv, StaleQuarantinedOnce
<1> QED BY <1>1, <1>3, IdleLoadsInv

\* A load begins from the committed tables; a streaming apply's list holds no
\* change at or below its client's watermark.
LEMMA BeginLoadsInv ==
    ASSUME TypeOK, IInv, LoadsInv,
           BeginApply \/ BeginSeed \/ BeginFacts \/ (\E w \in Windows : BeginReload(w))
    PROVE  LoadsInv'
<1>1. /\ UNCHANGED <<sources, snap, wm, quar, fact, db>> /\ job = "idle" /\ client' = NoClient
      /\ UNCHANGED <<file, staged, profile, stagedFacts>>
  BY DEF BeginApply, BeginSeed, BeginFacts, BeginReload, tables, sources, IInv
<1>2. db.snap = snap /\ db.wm = wm /\ db.quar = quar /\ db.fact = fact
  BY <1>1 DEF LoadsInv, IdleSoFar, Tables
<1>3. CASE BeginApply
  <2>1. job' = "apply" /\ todo' = Unapplied(wm)
    BY <1>3 DEF BeginApply
  <2>2. Unapplied(db.wm)' = Unapplied(wm)
    BY <1>1, <1>2 DEF Unapplied
  <2>3. ApplySoFar'
    BY <1>1, <1>2, <2>1, <2>2 DEF ApplySoFar
  <2>4. \A l \in Unapplied(wm) : ~ (l <= wm[Wal[l].client])
    BY DEF Unapplied
  <2>5. StaleInv'
    BY <1>1, <1>2, <2>1, <2>4 DEF LoadsInv, StaleInv, StaleQuarantinedOnce
  <2> QED BY <2>1, <2>3, <2>5 DEF LoadsInv, SeedSoFar, FactsSoFar, IdleSoFar, ReloadSoFar
<1>4. CASE BeginSeed
  <2>1. job' = "seed" /\ pending' = profile \ Excluded
    BY <1>4 DEF BeginSeed
  <2>2. Excluded' = Excluded /\ \A c : Stopgaps(c)' = Stopgaps(c)
    BY <1>1 DEF Excluded, Stopgaps
  <2>3. SeedSoFar'
    BY <1>1, <1>2, <2>1, <2>2 DEF SeedSoFar
  <2>4. StaleInv'
    BY <1>1, <2>1, StaleKept DEF LoadsInv
  <2> QED BY <2>1, <2>3, <2>4 DEF LoadsInv, ApplySoFar, FactsSoFar, IdleSoFar, ReloadSoFar
<1>5. CASE BeginFacts
  <2>1. job' = "facts" /\ left' = stagedFacts
    BY <1>5 DEF BeginFacts
  <2>2. FactsSoFar'
    BY <1>1, <1>2, <2>1 DEF FactsSoFar
  <2>3. StaleInv'
    BY <1>1, <2>1, StaleKept DEF LoadsInv
  <2> QED BY <2>1, <2>2, <2>3 DEF LoadsInv, ApplySoFar, SeedSoFar, IdleSoFar, ReloadSoFar
<1>6. ASSUME NEW w \in Windows, BeginReload(w) PROVE LoadsInv'
  <2>1. job' = "reload" /\ pending' = Affected(w) /\ window' = w /\ raw' = raw
    BY <1>6 DEF BeginReload, sources
  <2>2. Affected(window)' = Affected(w)
    BY <2>1 DEF Affected, InWindow
  <2>3. \A c \in Clients : AsCommitted(c)'
    BY <1>1, <1>2 DEF AsCommitted, FactsOf
  <2>4. ReloadSoFar'
    BY <1>1, <1>2, <2>1, <2>2, <2>3 DEF ReloadSoFar
  <2>5. StaleInv'
    BY <1>1, <2>1, StaleKept DEF LoadsInv
  <2> QED BY <2>1, <2>4, <2>5 DEF LoadsInv, ApplySoFar, SeedSoFar, FactsSoFar, IdleSoFar
<1> QED BY <1>3, <1>4, <1>5, <1>6
----------------------------------------------------------------------------
(* The streaming apply, the seed and the fact load, row by row.             *)

\* What a streaming apply records is above the committed watermark, and what
\* leaves its list is recorded or quarantined.
LEMMA ApplyRowLoadsInv ==
    ASSUME TypeOK, IInv, LoadsInv, NEW l \in Lsns, ApplyRow(l)
    PROVE  LoadsInv'
<1> DEFINE c == Wal[l].client
<1>1. /\ job = "apply" /\ job' = "apply" /\ todo' = todo \ {l} /\ l \in todo
      /\ UNCHANGED <<fact, db, staged>>
  BY DEF ApplyRow, sources
<1>2. ApplySoFar /\ fact = db.fact
  BY <1>1 DEF LoadsInv, ApplySoFar
<1>3. Skips(l) \/ FindsStale(l) \/ Records(l, staged[l])
  BY ApplyCases DEF ApplyRow
<1>4. c \in Clients /\ l \in Int /\ l > 0 /\ "stale_lsn" \in Reasons
      /\ "delete_with_no_baseline" \in Reasons
  BY WalType DEF Reasons
<1>5. Unapplied(db.wm)' = Unapplied(db.wm)
  BY <1>1 DEF Unapplied
<1>6. \A r \in Reasons : \A k \in Lsns : quar[r][k] > 0 => quar'[r][k] > 0
  <2>1. CASE quar' = quar
    BY <2>1
  <2>2. ASSUME NEW s \in Reasons, quar' = OneMore(s, l)
        PROVE  \A r \in Reasons : \A k \in Lsns : quar[r][k] > 0 => quar'[r][k] > 0
    BY <2>2, OneMoreEffect
  <2>3. CASE Skips(l)
    BY <1>4, <2>2, <2>3 DEF Skips
  <2>4. CASE FindsStale(l)
    BY <1>4, <2>2, <2>4 DEF FindsStale
  <2>5. CASE Records(l, staged[l])
    BY <2>1, <2>5 DEF Records
  <2> QED BY <1>3, <2>3, <2>4, <2>5
<1>7. ASSUME NEW k \in Unapplied(db.wm)
      PROVE  k \in todo' \/ k \in DOMAIN snap'[Wal[k].client] \/ \E r \in Reasons : quar'[r][k] > 0
  <2>1. k \in todo \/ k \in DOMAIN snap[Wal[k].client] \/ \E r \in Reasons : quar[r][k] > 0
    BY <1>1, <1>2 DEF ApplySoFar
  <2>2. k \in Lsns /\ Wal[k].client \in Clients
    BY WalType DEF Unapplied
  <2>3. CASE k = l
    <3>1. CASE Records(l, staged[l])
      BY <2>3, <3>1 DEF Records, IsAppended
    <3>2. ASSUME NEW s \in Reasons, quar' = OneMore(s, l)
          PROVE  \E r \in Reasons : quar'[r][l] > 0
      BY <3>2, OneMoreEffect
    <3>3. CASE Skips(l) \/ FindsStale(l)
      BY <1>4, <2>3, <3>2, <3>3, Zenon DEF Skips, FindsStale
    <3> QED BY <1>3, <3>1, <3>3, SMTT(40)
  <2>4. CASE k \in DOMAIN snap[Wal[k].client]
    <3>1. DOMAIN snap[Wal[k].client] \subseteq DOMAIN snap'[Wal[k].client]
      BY <1>3, <2>2, Zenon DEF Skips, FindsStale, Records, IsAppended
    <3> QED BY <2>4, <3>1, SMTT(40)
  <2>5. CASE k \in todo /\ k # l
    BY <1>1, <2>5
  <2>6. CASE \E r \in Reasons : quar[r][k] > 0
    BY <1>6, <2>2, <2>6
  <2> QED BY <2>1, <2>3, <2>4, <2>5, <2>6
<1> DEFINE New(d) == DOMAIN snap'[d] \ DOMAIN db.snap[d]
<1>8. ASSUME NEW d \in Clients
      PROVE  /\ DOMAIN db.snap[d] \subseteq DOMAIN snap'[d]
             /\ \A k \in New(d) : k > 0 /\ k > db.wm[d]
             /\ IF New(d) = {} THEN wm'[d] = db.wm[d] ELSE wm'[d] \in New(d)
  <2> DEFINE old == DOMAIN snap[d] \ DOMAIN db.snap[d]
             new == New(d)
  <2>1. /\ DOMAIN db.snap[d] \subseteq DOMAIN snap[d]
        /\ \A k \in old : k > 0 /\ k > db.wm[d]
        /\ IF old = {} THEN wm[d] = db.wm[d] ELSE wm[d] \in old
    BY <1>1, <1>2 DEF ApplySoFar
  <2>2. CASE snap'[d] = snap[d] /\ wm'[d] = wm[d]
    BY <2>1, <2>2
  <2>3. CASE d = c /\ Records(l, staged[l])
    <3>1. /\ DOMAIN snap'[d] = DOMAIN snap[d] \cup {l} /\ wm'[d] = l /\ l > wm[d]
          /\ \A m \in DOMAIN snap[d] : m < l
      BY <2>3 DEF Records, IsAppended
    <3>2. wm[d] \in Int /\ db.wm[d] \in Int /\ DOMAIN snap[d] \subseteq Int
      BY ClientType
    <3>3. l \notin DOMAIN db.snap[d]
      BY <1>4, <2>1, <3>1
    <3>4. new = old \cup {l}
      BY <3>1, <3>3
    <3>5. l > db.wm[d]
      <4> PICK v \in Int : v = wm[d]
        BY <3>2
      <4> PICK v0 \in Int : v0 = db.wm[d]
        BY <3>2
      <4>1. v = v0 \/ v > v0
        BY <2>1
      <4> QED BY <1>4, <3>1, <4>1
    <3> HIDE DEF old, New
    <3> QED BY <1>4, <2>1, <3>1, <3>4, <3>5, SMTT(40)
  <2> QED BY <1>3, <2>2, <2>3 DEF Skips, FindsStale, Records
<1>9. ApplySoFar'
  <2>1. \A d \in Clients :
           LET new == DOMAIN snap'[d] \ DOMAIN db.snap[d] IN
           /\ DOMAIN db.snap[d] \subseteq DOMAIN snap'[d]
           /\ \A k \in new : k > 0 /\ k > db.wm[d]
           /\ IF new = {} THEN wm'[d] = db.wm[d] ELSE wm'[d] \in new
    BY <1>8
  <2> QED BY <1>1, <1>2, <1>5, <1>7, <2>1 DEF ApplySoFar
<1>10. StaleInv'
  <2>1. /\ \A k \in Lsns : /\ db.quar["stale_lsn"][k] <= 1
                           /\ db.quar["stale_lsn"][k] # 0 => k <= db.wm[Wal[k].client]
        /\ \A k \in Lsns : quar["stale_lsn"][k] <= 1
        /\ \A k \in Lsns : quar["stale_lsn"][k] # 0 => k <= wm[Wal[k].client] /\ k \notin todo
    BY <1>1 DEF LoadsInv, StaleInv, StaleQuarantinedOnce
  <2>2. ASSUME NEW k \in Lsns
        PROVE  /\ quar'["stale_lsn"][k] <= 1
               /\ quar'["stale_lsn"][k] # 0 => k <= wm'[Wal[k].client] /\ k \notin todo'
    <3>1. CASE FindsStale(l)
      <4> DEFINE q == quar'
      <4>1. /\ q = OneMore("stale_lsn", l) /\ wm' = wm /\ l <= wm[c]
        BY <3>1 DEF FindsStale
      <4> HIDE DEF q
      <4>2. /\ q["stale_lsn"][l] = IF quar["stale_lsn"][l] = Many THEN Many
                                   ELSE quar["stale_lsn"][l] + 1
            /\ \A s \in Reasons : \A m \in Lsns :
                  s # "stale_lsn" \/ m # l => q[s][m] = quar[s][m]
        BY <1>4, <4>1, OneMoreEffect
      <4>3. quar["stale_lsn"][l] = 0
        BY <1>1, <2>1
      <4>4. q["stale_lsn"][l] = 1 /\ \A m \in Lsns : m # l => q["stale_lsn"][m] = quar["stale_lsn"][m]
        BY <1>4, <4>2, <4>3 DEF Many
      <4>5. CASE k = l
        BY <1>1, <4>1, <4>4, <4>5 DEF q
      <4>6. CASE k # l
        BY <1>1, <2>1, <4>1, <4>4, <4>6 DEF q
      <4> QED BY <4>5, <4>6
    <3>2. CASE Skips(l)
      <4> DEFINE q == quar'
      <4>1. q = OneMore("delete_with_no_baseline", l) /\ wm' = wm
        BY <3>2 DEF Skips
      <4> HIDE DEF q
      <4>2. q["stale_lsn"][k] = quar["stale_lsn"][k]
        BY <1>4, <4>1, OneMoreEffect
      <4> QED BY <1>1, <2>1, <4>1, <4>2 DEF q
    <3>3. CASE Records(l, staged[l])
      <4>1. quar' = quar /\ wm'[c] = l /\ l > wm[c] /\ \A d \in Clients : d # c => wm'[d] = wm[d]
        BY <3>3 DEF Records
      <4>2. Wal[k].client \in Clients /\ k \in Int
        BY WalType
      <4>3. wm[c] \in Int
        BY <1>4, ClientType
      <4>4. CASE Wal[k].client = c
        <5> PICK v \in Int : v = wm[c]
          BY <4>3
        <5> QED BY <1>1, <1>4, <2>1, <4>1, <4>2, <4>4
      <4>5. CASE Wal[k].client # c
        BY <1>1, <2>1, <4>1, <4>2, <4>5
      <4> QED BY <4>4, <4>5
    <3> QED BY <1>3, <3>1, <3>2, <3>3
  <2> QED BY <1>1, <2>1, <2>2 DEF StaleInv, StaleQuarantinedOnce
<1> QED BY <1>1, <1>9, <1>10 DEF LoadsInv, SeedSoFar, FactsSoFar, IdleSoFar, ReloadSoFar

\* A seed puts baselines under clients without changes and takes facts from
\* stopgaps to them; a client it has handled has no stopgaps left, unless it
\* has changes.
LEMMA SeedLoadsInv ==
    ASSUME TypeOK, IInv, LogInv, LoadsInv, NEW c \in Clients, SeedClient(c) \/ SeedOrphan(c)
    PROVE  LoadsInv'
<1> DEFINE H == snap[c]
<1>1. /\ job \in {"seed", "orphans"} /\ job' = job /\ pending' = pending \ {c}
      /\ UNCHANGED <<wm, quar, db, file, profile>>
  BY DEF SeedClient, SeedOrphan, sources
<1>2. PICK attrs : SeedBaseline(c, attrs)
  BY DEF SeedClient, SeedOrphan
<1>3. SeedSoFar
  BY DEF LoadsInv
<1>4. Excluded' = Excluded /\ \A d : snap'[d] = snap[d] => Stopgaps(d)' = Stopgaps(d)
  BY <1>1 DEF Excluded, Stopgaps
<1>5. CASE (\E l \in DOMAIN H : l > 0) /\ UNCHANGED <<snap, fact>>
  <2>1. ~ NoChanges(H)
    BY <1>5, ClientType DEF NoChanges
  <2>2. SeedSoFar'
    BY <1>1, <1>3, <1>4, <1>5, <2>1 DEF SeedSoFar
  <2>3. StaleInv'
    BY <1>1, StaleKept DEF LoadsInv
  <2> QED BY <1>1, <2>2, <2>3 DEF LoadsInv, ApplySoFar, FactsSoFar, IdleSoFar, ReloadSoFar
<1>6. CASE /\ \A l \in DOMAIN H : l <= 0
           /\ snap' = [snap EXCEPT ![c] = Delete(Insert(@, 0, BaselineRow(attrs)), Stopgaps(c))]
           /\ fact' = Repointed(FactsOn(c, Stopgaps(c)), 0)
  <2> DEFINE G == Delete(Insert(H, 0, BaselineRow(attrs)), Stopgaps(c))
  <2>1. DOMAIN H \subseteq Int /\ DOMAIN db.snap[c] \subseteq Int
    BY ClientType
  <2>2. DOMAIN G = {0}
    BY <1>6, <2>1 DEF Delete, Insert, Stopgaps
  <2> HIDE DEF G
  <2>3. snap'[c] = G /\ \A d \in Clients : d # c => snap'[d] = snap[d]
    BY <1>6 DEF TypeOK, TablesOK, G
  <2>4. /\ DOMAIN fact' = DOMAIN fact
        /\ \A x \in DOMAIN fact :
              fact'[x] = IF FactRow[x].client = c /\ fact[x] \in Stopgaps(c) THEN 0 ELSE fact[x]
    BY <1>6 DEF Repointed, FactsOn
  <2>5. Real(snap'[c]) = {0} /\ Stopgaps(c)' = {}
    BY <2>2, <2>3 DEF Real, Stopgaps
  <2>6. /\ wm = db.wm /\ quar = db.quar /\ DOMAIN fact = DOMAIN db.fact
        /\ \A d \in Clients :
              \/ Real(snap[d]) = Real(db.snap[d])
              \/ NoChanges(db.snap[d]) /\ Real(snap[d]) = Real(db.snap[d]) \cup {0}
        /\ \A x \in DOMAIN fact :
              \/ fact[x] = db.fact[x]
              \/ /\ db.fact[x] < 0 /\ fact[x] = 0
                 /\ NoChanges(db.snap[FactRow[x].client]) /\ 0 \in Real(snap[FactRow[x].client])
        /\ \A d \in Clients :
              d \in pending \/ d \in Excluded \/ Stopgaps(d) = {} \/ ~ NoChanges(snap[d])
                  \/ (job = "seed" /\ d \notin profile)
    BY <1>1, <1>3 DEF SeedSoFar
  <2>7. NoChanges(db.snap[c]) /\ Real(snap'[c]) = Real(db.snap[c]) \cup {0}
    <3>1. \A l \in Real(db.snap[c]) : l \in DOMAIN H
      BY <2>6 DEF Real
    <3>2. \A l \in DOMAIN db.snap[c] : l <= 0
      BY <1>6, <2>1, <3>1 DEF Real
    <3>3. Real(db.snap[c]) \subseteq {0}
      BY <2>1, <3>2 DEF Real
    <3> QED BY <2>5, <3>2, <3>3 DEF NoChanges
  <2>8. ASSUME NEW d \in Clients
        PROVE  \/ Real(snap'[d]) = Real(db.snap[d])
               \/ NoChanges(db.snap[d]) /\ Real(snap'[d]) = Real(db.snap[d]) \cup {0}
    BY <2>3, <2>6, <2>7
  <2>9. ASSUME NEW x \in DOMAIN fact
        PROVE  \/ fact'[x] = db.fact[x]
               \/ /\ db.fact[x] < 0 /\ fact'[x] = 0
                  /\ NoChanges(db.snap[FactRow[x].client]) /\ 0 \in Real(snap'[FactRow[x].client])
    <3>1. FactRow[x].client \in Clients
      BY FactRowType
    <3>2. CASE FactRow[x].client # c
      BY <2>3, <2>4, <2>6, <3>1, <3>2
    <3>3. CASE FactRow[x].client = c /\ fact[x] \in Stopgaps(c)
      <4>1. fact[x] < 0 /\ fact'[x] = 0
        BY <2>4, <3>3 DEF Stopgaps
      <4>2. fact[x] = db.fact[x]
        BY <2>6, <4>1
      <4> QED BY <2>5, <2>7, <3>3, <4>1, <4>2
    <3>4. CASE FactRow[x].client = c /\ fact[x] \notin Stopgaps(c)
      BY <2>4, <2>5, <2>6, <3>4
    <3> QED BY <3>2, <3>3, <3>4
  <2>10. ASSUME NEW d \in Clients
         PROVE  d \in pending' \/ d \in Excluded \/ Stopgaps(d)' = {} \/ ~ NoChanges(snap'[d])
                  \/ (job = "seed" /\ d \notin profile)
    BY <1>1, <1>4, <2>3, <2>5, <2>6
  <2>11. SeedSoFar'
    BY <1>1, <1>4, <2>4, <2>6, <2>8, <2>9, <2>10 DEF SeedSoFar
  <2>12. StaleInv'
    BY <1>1, StaleKept DEF LoadsInv
  <2> QED BY <1>1, <2>11, <2>12 DEF LoadsInv, ApplySoFar, FactsSoFar, IdleSoFar, ReloadSoFar
<1> QED BY <1>2, <1>5, <1>6 DEF SeedBaseline

\* The second half of a seed takes on every other client with a stopgap.
LEMMA OrphansLoadsInv ==
    ASSUME TypeOK, LoadsInv, BeginOrphans
    PROVE  LoadsInv'
<1>1. /\ job = "seed" /\ pending = {} /\ job' = "orphans"
      /\ pending' = {c \in Clients : Stopgaps(c) # {}} \ (profile \cup Excluded)
      /\ UNCHANGED <<snap, wm, quar, fact, db, file, profile>>
  BY DEF BeginOrphans, sources, tables
<1>2. Excluded' = Excluded /\ \A c : Stopgaps(c)' = Stopgaps(c)
  BY <1>1 DEF Excluded, Stopgaps
<1>3. SeedSoFar'
  BY <1>1, <1>2 DEF LoadsInv, SeedSoFar
<1>4. StaleInv'
  BY <1>1, StaleKept DEF LoadsInv
<1> QED BY <1>1, <1>3, <1>4 DEF LoadsInv, ApplySoFar, FactsSoFar, IdleSoFar, ReloadSoFar

\* A fact load pins a fact after the other to a version covering its date or
\* to a stopgap made for it, and moves none of those it has pinned.
LEMMA LoadFactLoadsInv ==
    ASSUME TypeOK, IInv, LoadsInv, NEW x \in Facts, LoadFact(x) \/ LoadFactOnStopgap(x)
    PROVE  LoadsInv'
<1> DEFINE c == FactRow[x].client
           H == snap[c]
           ts == FactRow[x].event_ts
<1>1. /\ job = "facts" /\ job' = "facts" /\ left' = left \ {x} /\ x \in left
      /\ UNCHANGED <<wm, quar, db, stagedFacts>>
  BY DEF LoadFact, LoadFactOnStopgap, sources
<1>2. /\ wm = db.wm /\ quar = db.quar /\ DOMAIN db.fact \subseteq DOMAIN fact
      /\ \A d \in Clients : Real(snap[d]) = Real(db.snap[d])
      /\ \A y \in stagedFacts : y \in left \/ (y \in DOMAIN fact /\ fact[y] \in CoveringFact(y))
  BY <1>1 DEF LoadsInv, FactsSoFar
<1>3. \A y \in Facts : FactRow[y].client \in Clients
  BY FactRowType
<1>4. c \in Clients /\ ts \in Int /\ stagedFacts \subseteq Facts
  BY FactRowType DEF TypeOK, SourcesOK
<1>5. ASSUME NEW to, fact' = Upserted(x, to), to \in CoveringFact(x)',
             \A d \in Clients : Real(snap'[d]) = Real(snap[d]),
             \A y \in Facts : CoveringFact(y) \subseteq CoveringFact(y)'
      PROVE  LoadsInv'
  <2>1. /\ DOMAIN fact' = DOMAIN fact \cup {x}
        /\ \A y \in DOMAIN fact' : fact'[y] = IF y = x THEN to ELSE fact[y]
    BY <1>5 DEF Upserted
  <2>2. ASSUME NEW y \in stagedFacts
        PROVE  y \in left' \/ (y \in DOMAIN fact' /\ fact'[y] \in CoveringFact(y)')
    <3>1. CASE y = x
      BY <1>5, <2>1, <3>1
    <3>2. CASE y # x
      BY <1>1, <1>2, <1>4, <1>5, <2>1, <3>2
    <3> QED BY <3>1, <3>2
  <2>3. FactsSoFar'
    BY <1>1, <1>2, <1>5, <2>1, <2>2 DEF FactsSoFar
  <2>4. StaleInv'
    BY <1>1, StaleKept DEF LoadsInv
  <2> QED BY <1>1, <2>3, <2>4 DEF LoadsInv, ApplySoFar, SeedSoFar, IdleSoFar, ReloadSoFar
<1>6. CASE LoadFact(x)
  <2>1. PICK l \in CoveringFact(x) : fact' = Upserted(x, l)
    BY <1>6 DEF LoadFact
  <2>2. snap' = snap /\ \A y : CoveringFact(y)' = CoveringFact(y)
    BY <1>6 DEF LoadFact, CoveringFact
  <2> QED BY <1>5, <2>1, <2>2
<1>7. CASE LoadFactOnStopgap(x)
  <2>1. PICK lsn \in StopgapLsns(H) :
            /\ snap' = [snap EXCEPT ![c] = Insert(@, lsn, StopgapRow(ts))]
            /\ fact' = Upserted(x, lsn)
    BY <1>7 DEF LoadFactOnStopgap
  <2> DEFINE G == Insert(H, lsn, StopgapRow(ts))
  <2>2. IsHistory(H) /\ DOMAIN H \subseteq Int /\ Tiled(H) /\ \A l \in DOMAIN H : l < 0
    BY <1>4, <1>7, ClientType DEF HistoryInv, LoadFactOnStopgap, HasReal
  <2>3. lsn \in Int /\ lsn < 0 /\ lsn \notin DOMAIN H
    BY <2>2, StopgapTiled
  <2>4. /\ DOMAIN G = DOMAIN H \cup {lsn} /\ \A l \in DOMAIN H : G[l] = H[l]
        /\ G[lsn] = StopgapRow(ts)
    BY <2>3 DEF Insert
  <2> HIDE DEF G
  <2>5. snap'[c] = G /\ \A d \in Clients : d # c => snap'[d] = snap[d]
    BY <1>4, <2>1 DEF TypeOK, TablesOK, G
  <2>6. \A d \in Clients : Real(snap'[d]) = Real(snap[d])
    BY <2>3, <2>4, <2>5 DEF Real
  <2>7. Covering(H, ts) \subseteq Covering(G, ts)
    BY <2>4 DEF Covering
  <2>8. \A t : Covering(H, t) \subseteq Covering(G, t)
    BY <2>4 DEF Covering
  <2>9. \A y \in Facts : CoveringFact(y) \subseteq CoveringFact(y)'
    BY <1>3, <2>5, <2>8 DEF CoveringFact
  <2>10. lsn \in Covering(G, ts)
    BY <1>4, <2>4 DEF Covering, StopgapRow, Row
  <2>11. lsn \in CoveringFact(x)'
    BY <2>5, <2>10 DEF CoveringFact
  <2> QED BY <1>5, <2>1, <2>6, <2>9, <2>11
<1> QED BY <1>6, <1>7
----------------------------------------------------------------------------
(* The reload of a client.                                                 *)

\* The rebuilding of one client does not concern another.
LEMMA OtherRebuilt ==
    ASSUME NEW d \in Clients, d # client, d # client', NEW from, RebuiltSoFar(d, from),
           snap'[d] = snap[d], UNCHANGED <<raw, db>>,
           FactsOf(fact', d) = FactsOf(fact, d),
           \A x \in FactsOf(fact, d) : fact'[x] = fact[x] /\ (x \in left' => x \in left)
    PROVE  RebuiltSoFar(d, from)'
<1>1. /\ ToReplay(d, from)' = ToReplay(d, from) /\ TempOf(d)' = TempOf(d)
      /\ Placeholder(d)' = Placeholder(d)
  BY DEF ToReplay, TempOf, Placeholder
<1>2. \A x \in FactsOf(fact, d) : CoveringFact(x)' = CoveringFact(x)
  BY DEF FactsOf, CoveringFact
<1>3. /\ \A l \in DOMAIN db.snap[d] : l < from =>
            l \in DOMAIN snap[d] \ Placeholder(d) /\ SameVersion(snap[d][l], db.snap[d][l])
      /\ \A l \in DOMAIN snap[d] : l \in DOMAIN db.snap[d] \/ from <= l \/ l \in Placeholder(d)
      /\ \A l \in ToReplay(d, from) :
            IF l \in DOMAIN snap[d] THEN Wal[l].op = "delete" \/ snap[d][l].attrs = <<l, raw[l]>>
            ELSE Wal[l].op = "delete" /\ \A m \in DOMAIN snap[d] : l < m
      /\ \A x \in FactsOf(fact, d) :
            IF db.fact[x] >= from THEN fact[x] \in CoveringFact(x)
            ELSE fact[x] = db.fact[x] /\ x \notin left
  BY DEF RebuiltSoFar
<1>4. \A x \in FactsOf(fact, d) :
            IF db.fact[x] >= from THEN fact'[x] \in CoveringFact(x)'
            ELSE fact'[x] = db.fact[x] /\ x \notin left'
  BY <1>2, <1>3
<1>5. \A l \in ToReplay(d, from) :
          IF l \in DOMAIN snap'[d] THEN Wal[l].op = "delete" \/ snap'[d][l].attrs = <<l, raw'[l]>>
          ELSE Wal[l].op = "delete" /\ \A m \in DOMAIN snap'[d] : l < m
  BY <1>3
<1>6. /\ \A l \in DOMAIN db'.snap[d] : l < from =>
            l \in DOMAIN snap'[d] \ Placeholder(d)' /\ SameVersion(snap'[d][l], db'.snap[d][l])
      /\ \A l \in DOMAIN snap'[d] : l \in DOMAIN db'.snap[d] \/ from <= l \/ l \in Placeholder(d)'
  BY <1>1, <1>3
<1> QED BY <1>1, <1>4, <1>5, <1>6 DEF RebuiltSoFar

\* A step of a reload works on one client.
LEMMA ReloadStepLoadsInv ==
    ASSUME TypeOK, LoadsInv, job = "reload", job' = "reload", UNCHANGED <<raw, window, db>>,
           NEW c \in Affected(window), c \notin pending', pending' \in {pending, pending \ {c}},
           client \in {c, NoClient}, client' \in {c, NoClient},
           DOMAIN fact' = DOMAIN fact, quar'["stale_lsn"] = quar["stale_lsn"],
           \A d \in Clients : d # c => snap'[d] = snap[d] /\ wm'[d] = wm[d],
           \A x \in DOMAIN fact : FactRow[x].client # c =>
               fact'[x] = fact[x] /\ (x \in left' => x \in left),
           \A from \in ResetLsns(c, window) : RebuiltSoFar(c, from)'
    PROVE  LoadsInv'
<1>1. /\ pending \subseteq Affected(window) /\ DOMAIN fact = DOMAIN db.fact
      /\ quar["stale_lsn"] = db.quar["stale_lsn"]
      /\ \A d \in Clients :
            IF d \in Affected(window) \ pending
            THEN \A from \in ResetLsns(d, window) : RebuiltSoFar(d, from)
            ELSE AsCommitted(d)
  BY DEF LoadsInv, ReloadSoFar
<1>2. /\ Affected(window)' = Affected(window)
      /\ \A d : ResetLsns(d, window)' = ResetLsns(d, window)
  BY DEF Affected, InWindow, ResetLsns
<1>3. ASSUME NEW d \in Clients
      PROVE  IF d \in Affected(window) \ pending'
             THEN \A from \in ResetLsns(d, window) : RebuiltSoFar(d, from)'
             ELSE AsCommitted(d)'
  <2>1. CASE d = c
    BY <2>1
  <2>2. CASE d # c
    <3>1. /\ d \in pending' <=> d \in pending
          /\ snap'[d] = snap[d] /\ wm'[d] = wm[d] /\ d # client /\ d # client'
      BY <2>2, ClientsAssumption DEF NoClient
    <3>2. FactsOf(fact', d) = FactsOf(fact, d)
      BY DEF FactsOf
    <3>3. \A x \in FactsOf(fact, d) : fact'[x] = fact[x] /\ (x \in left' => x \in left)
      BY <2>2 DEF FactsOf
    <3>4. CASE d \in Affected(window) \ pending
      BY <1>1, <3>1, <3>2, <3>3, <3>4, OtherRebuilt
    <3>5. CASE d \notin Affected(window) \ pending
      BY <1>1, <3>1, <3>2, <3>3, <3>5 DEF AsCommitted
    <3> QED BY <3>4, <3>5
  <2> QED BY <2>1, <2>2
<1>4. client' # NoClient => client' \in Affected(window) \ pending'
  OBVIOUS
<1>5. pending' \subseteq Affected(window)
  BY <1>1
<1>6. ReloadSoFar'
  BY <1>1, <1>2, <1>3, <1>4, <1>5 DEF ReloadSoFar
<1>7. StaleInv'
  BY DEF LoadsInv, StaleInv, StaleQuarantinedOnce
<1> QED BY <1>6, <1>7 DEF LoadsInv, ApplySoFar, SeedSoFar, FactsSoFar, IdleSoFar

\* What holds of the client being reloaded.
LEMMA ReloadedClient ==
    ASSUME TypeOK, LoadsInv, job = "reload", client # NoClient
    PROVE  /\ client \in Affected(window) /\ client \notin pending /\ client \in Clients
           /\ \A from \in ResetLsns(client, window) : RebuiltSoFar(client, from)
BY DEF LoadsInv, ReloadSoFar, TypeOK, ProgressOK, Affected

\* The reset lsn is a change of the log.
LEMMA ResetLsnType ==
    ASSUME NEW c, NEW w, NEW from \in ResetLsns(c, w)
    PROVE  /\ from \in Lsns /\ from \in Int /\ from > 0 /\ raw[from] # 0 /\ Wal[from].client = c
           /\ \A other \in ResetLsns(c, w) : other = from
<1>1. from \in Lsns /\ raw[from] # 0 /\ Wal[from].client = c
  BY DEF ResetLsns, InWindow
<1>2. \A l \in Lsns : l \in Int /\ l > 0
  BY WalType
<1>3. \A other \in ResetLsns(c, w) : other \in Lsns /\ other <= from /\ from <= other
  BY DEF ResetLsns, InWindow
<1> QED BY <1>1, <1>2, <1>3

\* The reset deletes the rows from the reset point on, lists all of their
\* changes for the replay and all of their facts for another resolution.
LEMMA ResetLoadsInv ==
    ASSUME TypeOK, IInv, LogInv, LoadsInv, NEW c \in Clients, ResetClient(c)
    PROVE  LoadsInv'
<1>1. PICK from \in ResetLsns(c, window) :
         /\ RepointForReset(c, from)
         /\ wm' = IF wm[c] = NoWatermark THEN wm ELSE [wm EXCEPT ![c] = from - 1]
         /\ todo' = ToReplay(c, from)
  BY DEF ResetClient
<1> DEFINE H == snap[c]
           G == snap'[c]
           f == fact'
           moved == FactsOn(c, Doomed(c, from))
<1>2. /\ from \in Lsns /\ from \in Int /\ raw[from] # 0 /\ Wal[from].client = c
      /\ \A other \in ResetLsns(c, window) : other = from
  BY <1>1, ResetLsnType
<1>3. /\ job = "reload" /\ job' = "reload" /\ client = NoClient /\ client' = c /\ c # NoClient
      /\ c \in pending /\ pending' = pending \ {c}
      /\ UNCHANGED <<raw, window, db, quar>>
  BY ClientType DEF ResetClient, sources
<1>4. /\ wm \in [Clients -> Int] /\ DOMAIN H \subseteq Int
      /\ \A d \in Clients : d # c => wm'[d] = wm[d]
  BY <1>1, ClientType DEF TypeOK, TablesOK
<1>5. ResetTo(G, H, f, c, from) /\ \A d \in Clients : d # c => snap'[d] = snap[d]
  BY <1>1, <1>2, <1>3, ResetEffect
<1>6. /\ temp' < from /\ left' = moved /\ DOMAIN f = DOMAIN fact
      /\ \A l \in DOMAIN G : l < from /\ (l \in DOMAIN H \/ (l = temp' /\ temp' # NoTemp))
      /\ \A x \in DOMAIN fact : x \in moved \/ f[x] = fact[x]
      /\ \A x \in moved : FactRow[x].client = c
  BY <1>5 DEF ResetTo, FactsOn
<1>7. AsCommitted(c) /\ c \in Affected(window) /\ DOMAIN fact = DOMAIN db.fact
  BY <1>3 DEF LoadsInv, ReloadSoFar
<1>8. \A x \in FactsOf(fact, c) : fact[x] = db.fact[x] /\ fact[x] \in DOMAIN H
  BY <1>7 DEF AsCommitted, FactsOf, LogInv, PinsLogged, PinsHaveRows
<1>9. /\ ToReplay(c, from)' = ToReplay(c, from) /\ TempOf(c)' = temp'
      /\ Placeholder(c)' = {temp'} \ {NoTemp}
  BY <1>3 DEF ToReplay, TempOf, Placeholder
<1>10. \A l \in ToReplay(c, from) : l >= from /\ l \in Int
  BY WalType DEF ToReplay
<1>11. ReplayInOrder(from)'
  BY <1>1, <1>3, <1>6, <1>9 DEF ReplayInOrder
<1>12. /\ \A l \in DOMAIN db.snap[c] : l < from =>
             l \in DOMAIN G \ Placeholder(c)' /\ SameVersion(G[l], db.snap[c][l])
       /\ \A l \in DOMAIN G : l \in DOMAIN db.snap[c] \/ from <= l \/ l \in Placeholder(c)'
  <2>1. /\ \A l \in Below(H, from) : l \in DOMAIN G /\ SameVersion(G[l], H[l])
        /\ temp' # NoTemp => Below(H, from) = {}
    BY <1>5 DEF ResetTo
  <2>2. db.snap[c] = H
    BY <1>7 DEF AsCommitted
  <2> HIDE DEF G, H
  <2> QED BY <1>6, <1>9, <2>1, <2>2 DEF Below
<1>13. \A l \in ToReplay(c, from) : l \notin DOMAIN G /\ l \in todo'
  BY <1>1, <1>2, <1>6, <1>10
<1>14. ASSUME NEW x \in FactsOf(f, c)
       PROVE  IF db.fact[x] >= from THEN x \in left' ELSE f[x] = db.fact[x] /\ x \notin left'
  <2>1. x \in FactsOf(fact, c) /\ x \in DOMAIN fact /\ FactRow[x].client = c
    BY <1>6 DEF FactsOf
  <2>2. fact[x] = db.fact[x] /\ fact[x] \in DOMAIN H
    BY <1>8, <2>1
  <2>3. x \in moved <=> db.fact[x] >= from
    BY <2>1, <2>2 DEF FactsOn, Doomed
  <2> QED BY <1>6, <2>1, <2>2, <2>3
<1>15. RebuiltSoFar(c, from)'
  BY <1>3, <1>9, <1>11, <1>12, <1>13, <1>14 DEF RebuiltSoFar
<1>16. \A x \in DOMAIN fact : FactRow[x].client # c =>
           fact'[x] = fact[x] /\ (x \in left' => x \in left)
  BY <1>6
<1>17. ResetLsns(c, window) = {from}
  BY <1>1, <1>2
<1> HIDE DEF moved
<1> QED BY <1>3, <1>4, <1>5, <1>6, <1>7, <1>15, <1>16, <1>17, ReloadStepLoadsInv

\* The replay records the next change of its list, with the image raw holds,
\* unless it is a delete and there is no row.
LEMMA ReplayRowLoadsInv ==
    ASSUME TypeOK, IInv, LogInv, LoadsInv, NEW l \in Lsns, ReplayRow(l)
    PROVE  LoadsInv'
<1> DEFINE H == snap[client]
           G == snap'[client]
<1>1. Reloading /\ l \in todo /\ \A m \in todo : l <= m
  BY DEF LogInv, ListsInOrder, ReplayRow, Reloading
<1>2. /\ client' = client /\ temp' = temp /\ left' = left /\ fact' = fact /\ db' = db
      /\ UNCHANGED <<raw, window, pending>> /\ todo' = todo \ {l}
      /\ job = "reload" /\ job' = "reload" /\ client # NoClient
  BY <1>1 DEF ReplayRow, sources, Reloading
<1>3. /\ Wal[l].client = client /\ wm[client] < l /\ client \in Clients /\ l \in Int
      /\ todo \subseteq Lsns
      /\ wm[client] \in Int /\ TempOf(client) = temp
  BY <1>1, WalType, ReloadingFacts, ClientType DEF LogInv, ListsInOrder, TypeOK, ProgressOK
<1>4. Skips(l) \/ Records(l, raw[l])
  BY <1>3, ApplyCases DEF ReplayRow, FindsStale
<1>5. quar'["stale_lsn"] = quar["stale_lsn"]
  <2>1. CASE Skips(l)
    <3>1. quar' = OneMore("delete_with_no_baseline", l)
      BY <2>1 DEF Skips
    <3>2. quar \in [Reasons -> [Lsns -> 0..Many]]
      BY DEF TypeOK, TablesOK
    <3> QED BY <3>1, <3>2 DEF OneMore, Reasons
  <2>2. CASE Records(l, raw[l])
    BY <2>2 DEF Records
  <2> QED BY <1>4, <2>1, <2>2
<1>6. \A d \in Clients : d # client => snap'[d] = snap[d] /\ wm'[d] = wm[d]
  BY <1>3, <1>4 DEF Skips, Records
<1>7. /\ client \in Affected(window) /\ client \notin pending
      /\ \A from \in ResetLsns(client, window) : RebuiltSoFar(client, from)
  BY <1>2, ReloadedClient
<1>8. ASSUME NEW from \in ResetLsns(client, window) PROVE RebuiltSoFar(client, from)'
  <2>1. /\ ReplayInOrder(from)
        /\ \A k \in DOMAIN db.snap[client] : k < from =>
              k \in DOMAIN H \ Placeholder(client) /\ SameVersion(H[k], db.snap[client][k])
        /\ \A k \in DOMAIN H :
              k \in DOMAIN db.snap[client] \/ from <= k \/ k \in Placeholder(client)
        /\ \A k \in ToReplay(client, from) :
              IF k \in DOMAIN H THEN Wal[k].op = "delete" \/ H[k].attrs = <<k, raw[k]>>
              ELSE k \in todo \/ (Wal[k].op = "delete" /\ \A m \in DOMAIN H : k < m)
        /\ \A x \in FactsOf(fact, client) :
              IF db.fact[x] >= from THEN x \in left ELSE fact[x] = db.fact[x] /\ x \notin left
    BY <1>1, <1>3, <1>7 DEF RebuiltSoFar
  <2>2. /\ ToReplay(client, from)' = ToReplay(client, from)
        /\ Placeholder(client)' = Placeholder(client)
    BY <1>2 DEF ToReplay, TempOf, Placeholder
  <2>3. /\ temp < from /\ todo \subseteq ToReplay(client, from) /\ l >= from
        /\ \A k \in ToReplay(client, from) \ todo : \A m \in todo : k < m
    BY <1>1, <2>1 DEF ReplayInOrder, ToReplay
  <2>4. \A m \in todo : m \in Int
    BY <1>3, WalType
  <2>5. \A k \in ToReplay(client, from) \ todo' : \A m \in todo' : k < m
    <3>1. todo' = todo \ {l} /\ \A m \in todo : l <= m
      BY <1>1, <1>2
    <3>2. \A m \in todo' : m \in todo /\ l < m
      BY <1>3, <2>4, <3>1
    <3>3. \A k \in ToReplay(client, from) \ todo' : k \in ToReplay(client, from) \ todo \/ k = l
      BY <3>1
    <3> QED BY <2>3, <3>2, <3>3
  <2>6. ReplayInOrder(from)'
    BY <1>2, <2>2, <2>3, <2>5 DEF ReplayInOrder
  <2>7. /\ \A k \in DOMAIN db.snap[client] : k < from =>
              k \in DOMAIN G \ Placeholder(client) /\ SameVersion(G[k], db.snap[client][k])
        /\ \A k \in DOMAIN G :
              k \in DOMAIN db.snap[client] \/ from <= k \/ k \in Placeholder(client)
    <3>1. /\ \A k \in DOMAIN H : k \in DOMAIN G /\ SameVersion(G[k], H[k])
          /\ \A k \in DOMAIN G : k \in DOMAIN H \/ k = l
      BY <1>3, <1>4 DEF Skips, Records, IsAppended, SameVersion
    <3> HIDE DEF G, H
    <3>2. ASSUME NEW k \in DOMAIN db.snap[client], k < from
          PROVE  k \in DOMAIN G \ Placeholder(client) /\ SameVersion(G[k], db.snap[client][k])
      BY <2>1, <3>1, <3>2 DEF SameVersion
    <3> QED BY <2>1, <2>3, <3>1, <3>2
  <2>8. ASSUME NEW k \in ToReplay(client, from)
        PROVE  IF k \in DOMAIN G THEN Wal[k].op = "delete" \/ G[k].attrs = <<k, raw[k]>>
               ELSE k \in todo' \/ (Wal[k].op = "delete" /\ \A m \in DOMAIN G : k < m)
    <3>1. CASE Skips(l)
      <4>1. G = H /\ DOMAIN H = {} /\ Wal[l].op = "delete"
        BY <1>3, <3>1 DEF Skips
      <4> HIDE DEF G, H
      <4> QED BY <1>2, <2>1, <4>1
    <3>2. CASE Records(l, raw[l])
      <4>1. /\ DOMAIN G = DOMAIN H \cup {l}
            /\ \A m \in DOMAIN H : G[m].attrs = H[m].attrs
            /\ Wal[l].op # "delete" => G[l].attrs = <<l, raw[l]>>
        BY <1>3, <3>2 DEF Records, IsAppended
      <4>2. k \in todo \/ k < l
        BY <1>1, <2>3
      <4> HIDE DEF G, H
      <4> QED BY <1>2, <2>1, <4>1, <4>2
    <3> QED BY <1>4, <3>1, <3>2
  <2> QED BY <1>2, <2>1, <2>2, <2>6, <2>7, <2>8 DEF RebuiltSoFar
<1> QED BY <1>2, <1>3, <1>5, <1>6, <1>7, <1>8, ReloadStepLoadsInv

\* A waiting fact goes back to a version covering its date.
LEMMA ReresolveLoadsInv ==
    ASSUME TypeOK, IInv, LogInv, LoadsInv, NEW x \in Facts, ReresolveFact(x)
    PROVE  LoadsInv'
<1>1. /\ Reloading /\ todo = {} /\ x \in left /\ left' = left \ {x}
      /\ UNCHANGED <<raw, window, db, snap, wm, quar, todo, pending, client, temp>>
      /\ job = "reload" /\ job' = "reload" /\ client # NoClient
  BY DEF ReresolveFact, Reloading, sources
<1>2. PICK l \in CoveringFact(x) : fact' = Upserted(x, l)
  BY DEF ReresolveFact
<1>3. /\ client \in Clients /\ FactRow[x].client = client /\ x \in DOMAIN fact
  BY <1>1, ReloadingFacts DEF LogInv, WaitingFacts
<1>4. /\ DOMAIN fact' = DOMAIN fact
      /\ \A y \in DOMAIN fact : fact'[y] = IF y = x THEN l ELSE fact[y]
  BY <1>2, <1>3 DEF Upserted
<1>5. /\ client \in Affected(window) /\ client \notin pending
      /\ \A from \in ResetLsns(client, window) : RebuiltSoFar(client, from)
  BY <1>1, ReloadedClient
<1>6. ASSUME NEW from \in ResetLsns(client, window) PROVE RebuiltSoFar(client, from)'
  <2>1. /\ ToReplay(client, from)' = ToReplay(client, from)
        /\ Placeholder(client)' = Placeholder(client)
        /\ \A y : CoveringFact(y)' = CoveringFact(y)
        /\ FactsOf(fact', client) = FactsOf(fact, client)
    BY <1>1, <1>4 DEF ToReplay, TempOf, Placeholder, CoveringFact, FactsOf
  <2>2. ReplayInOrder(from)'
    BY <1>1, <1>5, <2>1 DEF RebuiltSoFar, ReplayInOrder
  <2>3. ASSUME NEW y \in FactsOf(fact, client)
        PROVE  IF db.fact[y] >= from THEN y \in left' \/ fact'[y] \in CoveringFact(y)
               ELSE fact'[y] = db.fact[y] /\ y \notin left'
    <3>1. IF db.fact[y] >= from THEN y \in left \/ fact[y] \in CoveringFact(y)
          ELSE fact[y] = db.fact[y] /\ y \notin left
      BY <1>5 DEF RebuiltSoFar
    <3>2. y \in DOMAIN fact
      BY DEF FactsOf
    <3> QED BY <1>1, <1>2, <1>4, <3>1, <3>2
  <2>4. /\ \A k \in DOMAIN db.snap[client] : k < from =>
              /\ k \in DOMAIN snap[client] \ Placeholder(client)
              /\ SameVersion(snap[client][k], db.snap[client][k])
        /\ \A k \in DOMAIN snap[client] :
              k \in DOMAIN db.snap[client] \/ from <= k \/ k \in Placeholder(client)
        /\ \A k \in ToReplay(client, from) :
              IF k \in DOMAIN snap[client]
              THEN Wal[k].op = "delete" \/ snap[client][k].attrs = <<k, raw[k]>>
              ELSE Wal[k].op = "delete" /\ \A m \in DOMAIN snap[client] : k < m
    BY <1>1, <1>5 DEF RebuiltSoFar
  <2> QED BY <1>1, <2>1, <2>2, <2>3, <2>4 DEF RebuiltSoFar
<1>7. \A y \in DOMAIN fact : FactRow[y].client # client =>
          fact'[y] = fact[y] /\ (y \in left' => y \in left)
  BY <1>1, <1>3, <1>4
<1> QED BY <1>1, <1>3, <1>4, <1>5, <1>6, <1>7, ReloadStepLoadsInv

\* The placeholder was below the reset point and no fact is on it.
LEMMA FinishLoadsInv ==
    ASSUME TypeOK, IInv, LogInv, LoadsInv, FinishClient
    PROVE  LoadsInv'
<1> DEFINE c == client
           H == snap[c]
           G == Delete(H, {temp} \ {NoTemp})
<1>1. /\ Reloading /\ todo = {} /\ left = {} /\ client' = NoClient
      /\ UNCHANGED <<raw, window, db, wm, quar, fact, todo, left, pending>>
      /\ job = "reload" /\ job' = "reload" /\ c # NoClient
      /\ FactsOn(c, {temp} \ {NoTemp}) = {}
  BY DEF FinishClient, Reloading, sources
<1>2. c \in Clients /\ TempOf(c) = temp /\ temp \in Int /\ DOMAIN H \subseteq Int
  BY <1>1, ReloadingFacts, ClientType
<1>3. /\ DOMAIN G = DOMAIN H \ ({temp} \ {NoTemp}) /\ \A l \in DOMAIN G : G[l] = H[l]
  BY DEF Delete
<1>4. snap'[c] = G /\ \A d \in Clients : d # c => snap'[d] = snap[d]
  BY <1>2 DEF FinishClient, TypeOK, TablesOK
<1> HIDE DEF G
<1>5. /\ c \in Affected(window) /\ c \notin pending
      /\ \A from \in ResetLsns(c, window) : RebuiltSoFar(c, from)
  BY <1>1, ReloadedClient
<1>6. ASSUME NEW from \in ResetLsns(c, window), NEW d, d = c PROVE RebuiltSoFar(d, from)'
  <2>1. from \in Int /\ from > 0
    BY ResetLsnType
  <2>2. /\ temp < from
        /\ \A k \in DOMAIN db.snap[c] : k < from =>
              k \in DOMAIN H \ ({temp} \ {NoTemp}) /\ SameVersion(H[k], db.snap[c][k])
        /\ \A k \in DOMAIN H : k \in DOMAIN db.snap[c] \/ from <= k \/ k \in {temp} \ {NoTemp}
        /\ \A k \in ToReplay(c, from) :
              IF k \in DOMAIN H THEN Wal[k].op = "delete" \/ H[k].attrs = <<k, raw[k]>>
              ELSE Wal[k].op = "delete" /\ \A m \in DOMAIN H : k < m
        /\ \A x \in FactsOf(fact, c) :
              IF db.fact[x] >= from THEN fact[x] \in CoveringFact(x)
              ELSE fact[x] = db.fact[x] /\ x \notin left
    BY <1>1, <1>2, <1>5 DEF RebuiltSoFar, ReplayInOrder, Placeholder
  <2>3. /\ ToReplay(d, from)' = ToReplay(c, from) /\ FactsOf(fact', d) = FactsOf(fact, c)
        /\ Placeholder(d)' = {}
    BY <1>1, <1>6 DEF ToReplay, FactsOf, Placeholder, TempOf
  <2>4. /\ \A k \in DOMAIN db.snap[c] : k < from =>
              k \in DOMAIN G /\ SameVersion(G[k], db.snap[c][k])
        /\ \A k \in DOMAIN G : k \in DOMAIN db.snap[c] \/ from <= k
    BY <1>3, <2>2
  <2>5. ASSUME NEW k \in ToReplay(c, from)
        PROVE  IF k \in DOMAIN G THEN Wal[k].op = "delete" \/ G[k].attrs = <<k, raw[k]>>
               ELSE Wal[k].op = "delete" /\ \A m \in DOMAIN G : k < m
    <3>1. k # temp
      BY <1>2, <2>1, <2>2, WalType DEF ToReplay
    <3> QED BY <1>3, <2>2, <3>1
  <2>6. ASSUME NEW x \in FactsOf(fact, c)
        PROVE  IF db.fact[x] >= from THEN fact[x] \in CoveringFact(x)'
               ELSE fact[x] = db.fact[x]
    <3>1. x \in DOMAIN fact /\ FactRow[x].client = c /\ fact[x] \notin {temp} \ {NoTemp}
      BY <1>1 DEF FactsOf, FactsOn
    <3>2. fact[x] \in Covering(H, FactRow[x].event_ts) => fact[x] \in Covering(G, FactRow[x].event_ts)
      BY <1>3, <3>1 DEF Covering
    <3>3. /\ CoveringFact(x) = Covering(H, FactRow[x].event_ts)
          /\ CoveringFact(x)' = Covering(G, FactRow[x].event_ts)
      BY <1>4, <3>1 DEF CoveringFact
    <3> QED BY <2>2, <3>2, <3>3
  <2>7. client' # d
    BY <1>1, <1>6
  <2> QED BY <1>1, <1>4, <1>6, <2>3, <2>4, <2>5, <2>6, <2>7 DEF RebuiltSoFar
<1>7. PICK d \in Clients : d = c
  BY <1>2
<1>8. \A from \in ResetLsns(d, window) : RebuiltSoFar(d, from)'
  BY <1>6, <1>7
<1> QED BY <1>1, <1>4, <1>5, <1>7, <1>8, ReloadStepLoadsInv
----------------------------------------------------------------------------
(* LoadsInv is inductive.                                                  *)

\* Nothing has been loaded yet.
LEMMA InitLoadsInv == Init => LoadsInv
<1> SUFFICES ASSUME Init PROVE LoadsInv
  OBVIOUS
<1>1. job = "idle" /\ db = Tables /\ db.quar = quar
  BY DEF Init, Tables
<1>2. \A l \in Lsns : quar["stale_lsn"][l] = 0
  BY DEF Init, Reasons
<1>3. StaleInv
  BY <1>1, <1>2 DEF StaleInv, StaleQuarantinedOnce
<1> QED BY <1>1, <1>3 DEF LoadsInv, ApplySoFar, SeedSoFar, FactsSoFar, IdleSoFar, ReloadSoFar

\* Every step of every load keeps what it owes to what was committed.
LEMMA NextLoadsInv == TypeOK /\ IInv /\ LogInv /\ LoadsInv /\ [Next]_vars => LoadsInv'
<1> SUFFICES ASSUME TypeOK, IInv, LogInv, LoadsInv, [Next]_vars PROVE LoadsInv'
  OBVIOUS
<1>1. CASE \/ \E l \in Lsns : Deliver(l) \/ Redeliver(l)
           \/ LandLayer1 \/ StageLayer2
           \/ \E c \in ProfileClients : StageProfile(c)
           \/ \E x \in Facts : StageFact(x)
  BY <1>1, SourceStepLoadsInv
     DEF Deliver, Redeliver, LandLayer1, StageLayer2, StageProfile, StageFact
<1>2. CASE Commit
  BY <1>2, CommitLoadsInv
<1>3. CASE Crash \/ \E x \in Facts : LoadFactRaises(x)
  BY <1>3, UndoLoadsInv DEF Crash, LoadFactRaises
<1>4. CASE BeginApply \/ BeginSeed \/ BeginFacts \/ \E w \in Windows : BeginReload(w)
  BY <1>4, BeginLoadsInv
<1>5. ASSUME NEW l \in Lsns, ApplyRow(l) \/ ReplayRow(l) PROVE LoadsInv'
  BY <1>5, ApplyRowLoadsInv, ReplayRowLoadsInv
<1>6. CASE BeginOrphans
  BY <1>6, OrphansLoadsInv
<1>7. ASSUME NEW c \in Clients, SeedClient(c) \/ SeedOrphan(c) \/ ResetClient(c) PROVE LoadsInv'
  BY <1>7, SeedLoadsInv, ResetLoadsInv
<1>8. ASSUME NEW x \in Facts, LoadFact(x) \/ LoadFactOnStopgap(x) \/ ReresolveFact(x)
      PROVE  LoadsInv'
  BY <1>8, LoadFactLoadsInv, ReresolveLoadsInv
<1>9. CASE FinishClient
  BY <1>9, FinishLoadsInv
<1>10. CASE UNCHANGED vars
  <2>1. UNCHANGED <<file, raw, staged, profile, stagedFacts, snap, wm, quar, fact, db, job, todo, left,
                    pending, client, temp, window>>
    BY <1>10 DEF vars, sources, tables, progress
  <2>2. ApplySoFar' /\ IdleSoFar' /\ StaleInv'
    BY <2>1 DEF LoadsInv, ApplySoFar, Unapplied, IdleSoFar, Tables, StaleInv, StaleQuarantinedOnce
  <2>3. SeedSoFar'
    BY <2>1 DEF LoadsInv, SeedSoFar, Excluded, Stopgaps
  <2>4. FactsSoFar'
    BY <2>1 DEF LoadsInv, FactsSoFar, CoveringFact
  <2>5. ReloadSoFar'
    BY <2>1 DEF LoadsInv, ReloadSoFar, RebuiltSoFar, ReplayInOrder, AsCommitted, Affected,
                InWindow, ResetLsns, ToReplay, TempOf, Placeholder, FactsOf, CoveringFact
  <2> QED BY <2>2, <2>3, <2>4, <2>5 DEF LoadsInv
<1> QED
  BY <1>1, <1>2, <1>3, <1>4, <1>5, <1>6, <1>7, <1>8, <1>9, <1>10 DEF Next

\* At every step of every load what it has done so far is what its commit
\* promises.
THEOREM LoadsInvariant == Spec => [](TypeOK /\ IInv /\ LogInv /\ LoadsInv)
<1>1. Init => TypeOK /\ IInv /\ LogInv /\ LoadsInv
  BY InitTypeOK, InitIInv, InitLogInv, InitLoadsInv
<1>2. (TypeOK /\ IInv /\ LogInv /\ LoadsInv) /\ [Next]_vars
        => (TypeOK /\ IInv /\ LogInv /\ LoadsInv)'
  BY NextTypeOK, NextIInv, NextLogInv, NextLoadsInv
<1> QED BY <1>1, <1>2, PTL DEF Spec

----------------------------------------------------------------------------
(* What it implies.                                                        *)

\* A stale change is quarantined at most once: every later run finds it at or
\* below the watermark and does not select it.
THEOREM StaleTheorem == Spec => []StaleQuarantinedOnce
<1>1. LoadsInv => StaleQuarantinedOnce
  BY DEF LoadsInv, StaleInv
<1> QED BY <1>1, LoadsInvariant, PTL

\* A committed streaming apply leaves every event it selected recorded as a
\* version or as a quarantine row.
THEOREM SelectedTheorem == Spec => SelectedIsAccountedFor
<1> DEFINE Accounted == Commit /\ job = "apply" =>
                          \A l \in Unapplied(db.wm) :
                              \/ l \in DOMAIN snap[Wal[l].client]
                              \/ \E r \in Reasons : quar[r][l] > 0
<1>1. LoadsInv /\ [Next]_vars => [Accounted]_vars
  BY DEF LoadsInv, ApplySoFar, Commit, Finished
<1>2. Spec => [][Accounted]_vars
  BY <1>1, LoadsInvariant, PTL DEF Spec
<1> QED BY <1>2 DEF SelectedIsAccountedFor

\* A committed fact load has every staged fact on a version covering its date.
THEOREM LoadedFactsTheorem == Spec => LoadedFactsInEffect
<1> DEFINE Covered == Commit /\ job = "facts" =>
                        \A x \in stagedFacts : x \in DOMAIN fact /\ fact[x] \in CoveringFact(x)
<1>1. LoadsInv /\ [Next]_vars => [Covered]_vars
  BY DEF LoadsInv, FactsSoFar, Commit, Finished
<1>2. Spec => [][Covered]_vars
  BY <1>1, LoadsInvariant, PTL DEF Spec
<1> QED BY <1>2 DEF LoadedFactsInEffect

\* After a committed seed a stopgap row is left only to a client whose first
\* change registers it or that has change history.
THEOREM SeedTheorem == Spec => SeedClearsStopgaps
<1> DEFINE Cleared == Commit /\ job = "orphans" =>
                        \A c \in Clients : Stopgaps(c) # {} =>
                            c \in Excluded \/ \E l \in DOMAIN snap[c] : l > 0
<1>1. TypeOK /\ IInv /\ LoadsInv /\ [Next]_vars => [Cleared]_vars
  <2> SUFFICES ASSUME TypeOK, IInv, LoadsInv, Commit, job = "orphans", NEW c \in Clients,
                      Stopgaps(c) # {}, c \notin Excluded
               PROVE  \E l \in DOMAIN snap[c] : l > 0
    OBVIOUS
  <2>1. ~ NoChanges(snap[c])
    BY DEF LoadsInv, SeedSoFar, Commit, Finished
  <2> QED BY <2>1, ClientType DEF NoChanges
<1>2. Spec => [][Cleared]_vars
  BY <1>1, LoadsInvariant, PTL DEF Spec
<1> QED BY <1>2 DEF SeedClearsStopgaps

\* What a reload has done to a client by its commit.
LEMMA ReloadCommitted ==
    ASSUME TypeOK, LoadsInv, Commit, job = "reload", NEW c \in Clients
    PROVE  /\ DOMAIN fact = DOMAIN db.fact /\ client = NoClient /\ c # client /\ TempOf(c) = NoTemp
           /\ c \in Affected(window) =>
                 \A from \in ResetLsns(c, window) : RebuiltSoFar(c, from)
           /\ c \notin Affected(window) => AsCommitted(c)
<1>1. pending = {} /\ client = NoClient /\ c # client
  BY ClientsAssumption DEF Commit, Finished, NoClient
<1> QED BY <1>1 DEF LoadsInv, ReloadSoFar, TempOf

\* A committed reload has every fact whose version it rebuilt back on a
\* version covering its date.
THEOREM ReloadedFactsTheorem == Spec => ReloadedFactsInEffect
<1> DEFINE Covered == Commit /\ job = "reload" =>
                        \A x \in DOMAIN db.fact :
                            (\E from \in ResetLsns(FactRow[x].client, window) : db.fact[x] >= from)
                                => fact[x] \in CoveringFact(x)
<1>1. TypeOK /\ LoadsInv /\ [Next]_vars => [Covered]_vars
  <2> SUFFICES ASSUME TypeOK, LoadsInv, Commit, job = "reload", NEW x \in DOMAIN db.fact,
                      NEW from \in ResetLsns(FactRow[x].client, window), db.fact[x] >= from
               PROVE  fact[x] \in CoveringFact(x)
    OBVIOUS
  <2> DEFINE c == FactRow[x].client
  <2>1. c \in Clients
    BY FactRowType
  <2>2. c \in Affected(window)
    BY <2>1 DEF ResetLsns, Affected
  <2>3. RebuiltSoFar(c, from) /\ c # client /\ DOMAIN fact = DOMAIN db.fact
    BY <2>1, <2>2, ReloadCommitted
  <2>4. x \in FactsOf(fact, c)
    BY <2>3 DEF FactsOf
  <2> QED BY <2>3, <2>4 DEF RebuiltSoFar
<1>2. Spec => [][Covered]_vars
  BY <1>1, LoadsInvariant, PTL DEF Spec
<1> QED BY <1>2 DEF ReloadedFactsInEffect

\* A committed reload has recorded every raw event from the reset point on,
\* with the image raw now holds; only deletes before any version of the
\* client are left out.
THEOREM ReloadRecordsTheorem == Spec => ReloadRecordsTheLog
<1> DEFINE Recorded == Commit /\ job = "reload" =>
              \A c \in Clients : \A from \in ResetLsns(c, window) :
                  \A l \in ToReplay(c, from) :
                      IF l \in DOMAIN snap[c]
                      THEN Wal[l].op = "delete" \/ snap[c][l].attrs = <<l, raw[l]>>
                      ELSE Wal[l].op = "delete" /\ \A m \in DOMAIN snap[c] : l < m
<1>1. TypeOK /\ LoadsInv /\ [Next]_vars => [Recorded]_vars
  <2> SUFFICES ASSUME TypeOK, LoadsInv, Commit, job = "reload", NEW c \in Clients,
                      NEW from \in ResetLsns(c, window), NEW l \in ToReplay(c, from)
               PROVE  IF l \in DOMAIN snap[c]
                      THEN Wal[l].op = "delete" \/ snap[c][l].attrs = <<l, raw[l]>>
                      ELSE Wal[l].op = "delete" /\ \A m \in DOMAIN snap[c] : l < m
    OBVIOUS
  <2>1. c \in Affected(window)
    BY DEF ResetLsns, Affected
  <2>2. RebuiltSoFar(c, from) /\ c # client
    BY <2>1, ReloadCommitted
  <2> QED BY <2>2 DEF RebuiltSoFar
<1>2. Spec => [][Recorded]_vars
  BY <1>1, LoadsInvariant, PTL DEF Spec
<1> QED BY <1>2 DEF ReloadRecordsTheLog

\* A committed reload leaves every client without a change in its window as
\* it was.
THEOREM ReloadOthersTheorem == Spec => ReloadLeavesOthersAlone
<1> DEFINE Alone == Commit /\ job = "reload" =>
              \A c \in Clients \ Affected(window) :
                  /\ snap[c] = db.snap[c] /\ wm[c] = db.wm[c]
                  /\ \A x \in Facts : FactRow[x].client = c =>
                        /\ x \in DOMAIN fact <=> x \in DOMAIN db.fact
                        /\ x \in DOMAIN fact => fact[x] = db.fact[x]
<1>1. TypeOK /\ LoadsInv /\ [Next]_vars => [Alone]_vars
  BY ReloadCommitted DEF AsCommitted, FactsOf
<1>2. Spec => [][Alone]_vars
  BY <1>1, LoadsInvariant, PTL DEF Spec
<1> QED BY <1>2 DEF ReloadLeavesOthersAlone
\* Two histories with the same real versions have the same watermark.
LEMMA SameMark ==
    ASSUME TypeOK, IInv, LogInv, client = NoClient, NEW c \in Clients,
           Real(snap[c]) = Real(db.snap[c])
    PROVE  wm[c] = db.wm[c]
<1> DEFINE H == snap[c]
           D == db.snap[c]
           w == wm[c]
           v == db.wm[c]
<1> SUFFICES w = v
  OBVIOUS
<1>1. MarkIsNewest(H, w) /\ MarkIsNewest(D, v)
  BY LoggedOutsideReload DEF TablesLogged, LogInv, CommittedLogged
<1>2. /\ DOMAIN H \subseteq Int /\ DOMAIN D \subseteq Int /\ w \in Int /\ v \in Int
      /\ HistoryInv(H, w, c, NoTemp) /\ HistoryInv(D, v, c, NoTemp)
  BY ClientType DEF TempOf
<1>3. Real(H) = Real(D)
  OBVIOUS
<1> HIDE DEF H, D, w, v
<1>4. CASE w = NoWatermark \/ v = NoWatermark
  BY <1>1, <1>2, <1>3, <1>4
     DEF MarkIsNewest, Newest, Real, HistoryInv, RowsAreLogged, NoTemp, NoWatermark
<1>5. CASE /\ w > 0 /\ w \in Newest(H)
           /\ v > 0 /\ v \in Newest(D)
  BY <1>2, <1>3, <1>5 DEF Newest, Real
<1> QED BY <1>1, <1>4, <1>5 DEF MarkIsNewest

\* Two histories of the same lsns that agree on the rows that are no change
\* and on the images of the others agree on all real versions: a tombstone
\* copies the row before it, a version is closed by the next one, and the
\* newest one is open.
LEMMA SameHistory ==
    ASSUME NEW H, NEW D, IsHistory(H), IsHistory(D), NEW c, NEW w, NEW v,
           HistoryInv(H, w, c, NoTemp), HistoryInv(D, v, c, NoTemp),
           VersionsAreEvents(H, NoTemp), VersionsAreEvents(D, NoTemp),
           DOMAIN H = DOMAIN D, Grounded(D),
           \A l \in DOMAIN D : l <= 0 => SameVersion(H[l], D[l]),
           \A l \in DOMAIN D : l > 0 /\ Wal[l].op # "delete" => H[l].attrs = D[l].attrs
    PROVE  \A l \in Real(H) : H[l] = D[l]
<1>1. DOMAIN D \subseteq Int /\ Real(D) \subseteq Nat /\ NoTemp \in Int /\ ~ (NoTemp >= 0)
  BY DEF IsHistory, Real, NoTemp
<1>2. ASSUME NEW l \in DOMAIN D, l > 0
      PROVE  /\ H[l].valid_from = D[l].valid_from /\ H[l].is_deleted = D[l].is_deleted
             /\ D[l].is_deleted = (Wal[l].op = "delete")
             /\ Wal[l].op = "delete" => /\ \A m \in Predecessor(H, l) : H[l].attrs = H[m].attrs
                                        /\ \A m \in Predecessor(D, l) : D[l].attrs = D[m].attrs
  <2>1. l # NoTemp
    BY <1>1, <1>2
  <2>2. H[l].valid_from = D[l].valid_from
    BY <1>2, <2>1 DEF HistoryInv, RowsAreLogged
  <2> QED BY <1>2, <2>1, <2>2 DEF VersionsAreEvents
<1>3. \A l \in DOMAIN D : Predecessor(H, l) = Predecessor(D, l)
  BY DEF Predecessor, Below
<1> DEFINE Differ == {l \in Real(D) : H[l].attrs # D[l].attrs}
<1>4. Differ = {}
  <2> SUFFICES ASSUME Differ # {} PROVE FALSE
    OBVIOUS
  <2>1. Differ \subseteq Nat
    BY <1>1
  <2>2. PICK l \in Differ : \A m \in Differ : l <= m
    <3> HIDE DEF Differ
    <3> QED BY <2>1, LeastNatural
  <2>3. l \in DOMAIN D /\ l > 0 /\ Wal[l].op = "delete" /\ H[l].attrs # D[l].attrs /\ l \in Int
    BY <1>1, <2>2 DEF Real, SameVersion
  <2>4. PICK m \in Predecessor(D, l) : TRUE
    <3>1. (Wal[l].op = "delete") = TRUE
      BY <2>3
    <3> QED BY <1>2, <2>3, <3>1 DEF Grounded
  <2>5. m \in DOMAIN D /\ m < l /\ m \in Int
    BY <1>1, <2>4 DEF Predecessor, Below
  <2>6. H[m].attrs = D[m].attrs
    <3>1. CASE m <= 0
      BY <2>5, <3>1 DEF SameVersion
    <3>2. CASE m > 0
      <4>1. m \in Real(D) /\ ~ (l <= m)
        BY <2>3, <2>5, <3>2 DEF Real
      <4> QED BY <2>2, <4>1
    <3> QED BY <2>5, <3>1, <3>2
  <2> QED BY <1>2, <1>3, <2>3, <2>4, <2>6
<1> HIDE DEF Differ
<1>5. ASSUME NEW l \in Real(D) PROVE SameVersion(H[l], D[l])
  <2>1. l \in DOMAIN D /\ (l > 0 \/ l <= 0)
    BY <1>1 DEF Real
  <2>2. H[l].attrs = D[l].attrs
    BY <1>4 DEF Differ
  <2> QED BY <1>2, <2>1, <2>2 DEF SameVersion
<1>6. Newest(H) = Newest(D)
  BY DEF Newest
<1>7. ASSUME NEW l \in Real(D)
      PROVE  H[l].is_current = D[l].is_current /\ H[l].valid_to = D[l].valid_to
  <2>1. l \in DOMAIN D /\ l >= 0 /\ l \in Int
    BY <1>1 DEF Real
  <2>2. /\ H[l].is_current => l \in Newest(H)
        /\ l \in Newest(H) => H[l].is_current
        /\ D[l].is_current => l \in Newest(D)
        /\ l \in Newest(D) => D[l].is_current
    BY <2>1, TiledCurrent DEF HistoryInv
  <2>3. H[l].is_current \in BOOLEAN /\ D[l].is_current \in BOOLEAN
    BY <2>1 DEF IsHistory, Version
  <2>4. CASE l \in Newest(D)
    <3>1. H[l].is_current = TRUE /\ D[l].is_current = TRUE
      BY <1>6, <2>2, <2>3, <2>4
    <3>2. H[l].valid_to = Forever /\ D[l].valid_to = Forever
      BY <2>1, <3>1 DEF HistoryInv, Tiled
    <3> QED BY <3>1, <3>2
  <2>5. CASE l \notin Newest(D)
    <3>1. H[l].is_current = FALSE /\ D[l].is_current = FALSE
      BY <1>6, <2>2, <2>3, <2>5
    <3>2. PICK m \in DOMAIN H : Adjacent(H, l, m) /\ H[l].valid_to = H[m].valid_from
      BY <2>1, <3>1 DEF HistoryInv, Tiled
    <3>3. PICK n \in DOMAIN D : Adjacent(D, l, n) /\ D[l].valid_to = D[n].valid_from
      BY <2>1, <3>1 DEF HistoryInv, Tiled
    <3>4. m = n /\ m > 0
      BY <1>1, <2>1, <3>2, <3>3 DEF Adjacent
    <3> QED BY <1>2, <3>1, <3>2, <3>3, <3>4
  <2> QED BY <2>4, <2>5
<1>8. ASSUME NEW l \in Real(D) PROVE H[l] = D[l]
  <2>1. H[l] \in Version /\ D[l] \in Version
    BY DEF IsHistory, Real
  <2> QED BY <1>5, <1>7, <2>1 DEF Version, SameVersion
<1>9. Real(H) = Real(D)
  BY DEF Real
<1> QED BY <1>8, <1>9

\* A reload of what is already recorded gains and loses no version, moves no
\* watermark and, unless a tombstone has nothing before it, changes no real
\* version.
THEOREM RepeatableTheorem == Spec => ReloadIsRepeatable
<1> DEFINE Repeatable == Commit /\ job = "reload" =>
              \A c \in Clients : \A from \in ResetLsns(c, window) :
                  (\A l \in ToReplay(c, from) :
                      /\ l \in DOMAIN db.snap[c]
                      /\ Wal[l].op # "delete" => db.snap[c][l].attrs = <<l, raw[l]>>)
                  => /\ Real(snap[c]) = Real(db.snap[c]) /\ wm[c] = db.wm[c]
                     /\ Grounded(db.snap[c]) =>
                           \A l \in Real(snap[c]) : snap[c][l] = db.snap[c][l]
<1>1. TypeOK /\ IInv /\ LogInv /\ LoadsInv /\ [Next]_vars => [Repeatable]_vars
  <2> SUFFICES ASSUME TypeOK, IInv, LogInv, LoadsInv, Commit, job = "reload",
                      NEW c \in Clients, NEW from \in ResetLsns(c, window),
                      \A l \in ToReplay(c, from) :
                          /\ l \in DOMAIN db.snap[c]
                          /\ Wal[l].op # "delete" => db.snap[c][l].attrs = <<l, raw[l]>>
               PROVE  /\ Real(snap[c]) = Real(db.snap[c]) /\ wm[c] = db.wm[c]
                      /\ Grounded(db.snap[c]) =>
                            \A l \in Real(snap[c]) : snap[c][l] = db.snap[c][l]
    OBVIOUS
  <2> DEFINE H == snap[c]
             D == db.snap[c]
  <2>1. /\ RebuiltSoFar(c, from) /\ c # client /\ client = NoClient /\ TempOf(c) = NoTemp
        /\ from \in Int /\ from > 0
    <3>1. c \in Affected(window)
      BY DEF ResetLsns, Affected
    <3> QED BY <3>1, ReloadCommitted, ResetLsnType
  <2>2. /\ IsHistory(H) /\ IsHistory(D) /\ DOMAIN H \subseteq Int /\ DOMAIN D \subseteq Int
        /\ HistoryInv(H, wm[c], c, NoTemp) /\ HistoryInv(D, db.wm[c], c, NoTemp)
    BY <2>1, ClientType
  <2>3. /\ VersionsAreEvents(H, NoTemp) /\ VersionsAreEvents(D, NoTemp)
        /\ VersionsHaveLanded(H, NoTemp, raw) /\ VersionsHaveLanded(D, NoTemp, raw)
    BY <2>1, LoggedOutsideReload DEF TablesLogged, LogInv, CommittedLogged
  <2>4. /\ \A l \in DOMAIN D : l < from => l \in DOMAIN H /\ SameVersion(H[l], D[l])
        /\ \A l \in DOMAIN H : l \in DOMAIN D \/ from <= l
        /\ \A l \in ToReplay(c, from) :
              l \in DOMAIN H => Wal[l].op = "delete" \/ H[l].attrs = <<l, raw[l]>>
    BY <2>1 DEF RebuiltSoFar, Placeholder
  <2>5. Real(D) \subseteq DOMAIN H
    BY <2>1, LoggedOutsideReload
  <2>6. \A l \in DOMAIN H \cup DOMAIN D : from <= l => l \in ToReplay(c, from)
    <3> SUFFICES ASSUME NEW l \in DOMAIN H \cup DOMAIN D, from <= l
                 PROVE  l \in Lsns /\ raw[l] # 0 /\ Wal[l].client = c
      BY <2>1, <2>2 DEF ToReplay
    <3>1. l > 0 /\ l # NoTemp
      BY <2>1, <2>2 DEF NoTemp
    <3> HIDE DEF H, D
    <3> QED BY <2>2, <2>3, <3>1 DEF HistoryInv, RowsAreLogged, VersionsHaveLanded
  <2>7. DOMAIN H = DOMAIN D
    <3>1. \A l \in DOMAIN H : l \in DOMAIN D
      BY <2>4, <2>6
    <3>2. \A l \in DOMAIN D : l \in DOMAIN H
      BY <2>1, <2>2, <2>4, <2>5 DEF Real
    <3> QED BY <3>1, <3>2
  <2>8. Real(H) = Real(D)
    BY <2>7 DEF Real
  <2>9. wm[c] = db.wm[c]
    BY <2>1, <2>8, SameMark
  <2>10. \A l \in DOMAIN D : l <= 0 => SameVersion(H[l], D[l])
    BY <2>1, <2>2, <2>4
  <2>11. ASSUME NEW l \in DOMAIN D, l > 0, Wal[l].op # "delete" PROVE H[l].attrs = D[l].attrs
    <3>1. CASE l < from
      BY <2>4, <3>1 DEF SameVersion
    <3>2. CASE from <= l
      BY <2>4, <2>6, <2>7, <2>11, <3>2
    <3> QED BY <2>1, <2>2, <3>1, <3>2
  <2> HIDE DEF H, D
  <2>12. Grounded(D) => \A l \in Real(H) : H[l] = D[l]
    BY <2>2, <2>3, <2>7, <2>10, <2>11, SameHistory
  <2> QED BY <2>8, <2>9, <2>12 DEF H, D
<1>2. Spec => [][Repeatable]_vars
  BY <1>1, LoadsInvariant, PTL DEF Spec
<1> QED BY <1>2 DEF ReloadIsRepeatable
=============================================================================
