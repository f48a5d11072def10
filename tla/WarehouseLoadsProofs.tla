------------------------ MODULE WarehouseLoadsProofs ------------------------
(***************************************************************************)
(* Theorems about WarehouseLoads for every set of clients, facts and reload *)
(* windows and every finite change log: its type invariant, and that no     *)
(* load ever leaves a client two open versions, none, a gap or an overlap   *)
(* between its real versions.                                              *)
(***************************************************************************)
EXTENDS WarehouseLoads, SnapshotTableProofs, FiniteSetTheorems

USE ForeverAssumption

\* The log's fields have their types.
LEMMA WalType ==
    ASSUME NEW l \in Lsns
    PROVE  /\ l \in Nat /\ l > 0 /\ l \in Int
           /\ Wal[l].client \in Clients /\ Wal[l].op \in Ops
           /\ Wal[l].commit_ts \in Nat /\ Wal[l].commit_ts \in Int
<1>1. l \in Nat /\ l > 0
  BY LsnsAssumption
<1>2. Wal[l] \in [client : Clients, op : Ops, commit_ts : Nat]
  BY WalAssumption
<1> QED BY <1>1, <1>2

\* One more quarantine row keeps the counts in range.
LEMMA OneMoreType ==
    ASSUME quar \in [Reasons -> [Lsns -> 0..Many]], NEW r \in Reasons, NEW l \in Lsns
    PROVE  OneMore(r, l) \in [Reasons -> [Lsns -> 0..Many]]
<1>1. quar[r] \in [Lsns -> 0..Many] /\ quar[r][l] \in 0..Many
  OBVIOUS
<1> DEFINE n == IF quar[r][l] = Many THEN Many ELSE quar[r][l] + 1
<1>2. n \in 0..Many
  BY <1>1 DEF Many
<1>3. OneMore(r, l) = [quar EXCEPT ![r] = [quar[r] EXCEPT ![l] = n]]
  BY DEF OneMore
<1> HIDE DEF n
<1>4. [quar[r] EXCEPT ![l] = n] \in [Lsns -> 0..Many]
  BY <1>1, <1>2
<1> QED BY <1>3, <1>4

\* Replacing one client's history by a history keeps the family typed.
LEMMA HistoriesType ==
    ASSUME NEW S, S = [c \in Clients |-> S[c]], \A c \in Clients : IsHistory(S[c]),
           NEW d \in Clients, NEW H, IsHistory(H)
    PROVE  /\ [S EXCEPT ![d] = H] = [c \in Clients |-> [S EXCEPT ![d] = H][c]]
           /\ \A c \in Clients : IsHistory([S EXCEPT ![d] = H][c])
           /\ [S EXCEPT ![d] = H][d] = H
           /\ \A c \in Clients : c # d => [S EXCEPT ![d] = H][c] = S[c]
OBVIOUS

\* The working tables as a formula of their own, to be preserved.
WorkingOK == TablesOK(snap, wm, quar, fact)

\* apply_cdc_event behind its guard keeps the tables typed.
LEMMA ApplyGuardedType ==
    ASSUME WorkingOK, NEW l \in Lsns, NEW images \in [Lsns -> 0..2],
           ApplyGuarded(l, images), fact' = fact
    PROVE  WorkingOK'
<1> DEFINE c == Wal[l].client
           ts == Wal[l].commit_ts
<1>1. c \in Clients /\ ts \in Int /\ l \in Int
  BY WalType
<1>2. IsHistory(snap[c])
  BY <1>1 DEF WorkingOK, TablesOK
<1>3. \A r \in Reasons : OneMore(r, l) \in [Reasons -> [Lsns -> 0..Many]]
  BY OneMoreType DEF WorkingOK, TablesOK
<1>4. CASE Wal[l].op = "delete" /\ HasNoRow(c)
  BY <1>3, <1>4 DEF ApplyGuarded, WorkingOK, TablesOK, Reasons
<1>5. CASE ~ (Wal[l].op = "delete" /\ HasNoRow(c))
  <2>1. ApplyCdcEvent(l, images)
    BY <1>5 DEF ApplyGuarded
  <2>2. CASE l <= wm[c]
    <3>1. quar' = OneMore("stale_lsn", l) /\ UNCHANGED <<snap, wm>>
      BY <1>1, <2>1, <2>2 DEF ApplyCdcEvent, WorkingOK, TablesOK
    <3> QED BY <1>3, <3>1 DEF WorkingOK, TablesOK, Reasons
  <2>3. CASE l > wm[c]
    <3> DEFINE H == IF Wal[l].op = "delete" THEN ApplyDelete(snap[c], l, ts)
                    ELSE ApplyUpsert(snap[c], l, ts, <<l, images[l]>>)
    <3>1. snap' = [snap EXCEPT ![c] = H] /\ wm' = [wm EXCEPT ![c] = l] /\ quar' = quar
      BY <1>1, <2>1, <2>3 DEF ApplyCdcEvent, WorkingOK, TablesOK
    <3>2. <<l, images[l]>> \in Attrs
      BY <1>1 DEF Attrs
    <3>3. IsHistory(H)
      BY <1>1, <1>2, <3>2, ApplyDeleteType, ApplyUpsertType
    <3> HIDE DEF H
    <3>4. wm' \in [Clients -> Int]
      BY <1>1, <3>1 DEF WorkingOK, TablesOK
    <3>5. /\ snap' = [d \in Clients |-> snap'[d]]
          /\ \A d \in Clients : IsHistory(snap'[d])
      BY <1>1, <3>1, <3>3, HistoriesType DEF WorkingOK, TablesOK
    <3> QED BY <3>1, <3>4, <3>5 DEF WorkingOK, TablesOK
  <2> QED
    <3>1. wm[c] \in Int
      BY <1>1 DEF WorkingOK, TablesOK
    <3> QED BY <1>1, <2>2, <2>3, <3>1
<1> QED BY <1>4, <1>5

\* Moving the foreign keys of loaded facts keeps them typed.
LEMMA RepointedType ==
    ASSUME WorkingOK, NEW xs, NEW lsn \in Int, fact' = Repointed(xs, lsn)
    PROVE  /\ fact' = [x \in DOMAIN fact' |-> fact'[x]]
           /\ DOMAIN fact' = DOMAIN fact
           /\ \A x \in DOMAIN fact' : fact'[x] \in Int
BY DEF Repointed, WorkingOK, TablesOK

\* So does loading one.
LEMMA UpsertedType ==
    ASSUME WorkingOK, NEW x \in Facts, NEW lsn \in Int, fact' = Upserted(x, lsn)
    PROVE  /\ fact' = [y \in DOMAIN fact' |-> fact'[y]]
           /\ DOMAIN fact' \subseteq Facts
           /\ \A y \in DOMAIN fact' : fact'[y] \in Int
BY DEF Upserted, WorkingOK, TablesOK

\* The seed of one client keeps the tables typed.
LEMMA SeedBaselineType ==
    ASSUME WorkingOK, NEW c \in Clients, NEW attrs \in Attrs, SeedBaseline(c, attrs),
           wm' = wm, quar' = quar
    PROVE  WorkingOK'
<1>1. CASE UNCHANGED <<snap, fact>>
  BY <1>1 DEF WorkingOK, TablesOK
<1>2. CASE /\ snap' = [snap EXCEPT ![c] =
                          Delete(Insert(@, 0, BaselineRow(attrs)), Stopgaps(c))]
           /\ fact' = Repointed(FactsOn(c, Stopgaps(c)), 0)
  <2> DEFINE H == Delete(Insert(snap[c], 0, BaselineRow(attrs)), Stopgaps(c))
  <2>1. IsHistory(snap[c])
    BY DEF WorkingOK, TablesOK
  <2>2. IsHistory(H)
    BY <2>1, ConstantRowsType, InsertType, DeleteType
  <2>3. snap' = [snap EXCEPT ![c] = H]
    BY <1>2 DEF WorkingOK, TablesOK
  <2> HIDE DEF H
  <2>4. /\ snap' = [d \in Clients |-> snap'[d]]
        /\ \A d \in Clients : IsHistory(snap'[d])
    BY <2>2, <2>3, HistoriesType DEF WorkingOK, TablesOK
  <2>5. /\ fact' = [x \in DOMAIN fact' |-> fact'[x]]
        /\ DOMAIN fact' = DOMAIN fact
        /\ \A x \in DOMAIN fact' : fact'[x] \in Int
    BY <1>2, RepointedType
  <2> QED BY <2>4, <2>5 DEF WorkingOK, TablesOK
<1> QED BY <1>1, <1>2 DEF SeedBaseline

\* What a client's reset writes is typed.
LEMMA RepointForResetType ==
    ASSUME WorkingOK, temp \in Nat \cup {NoTemp}, NEW c \in Clients, NEW from \in Lsns,
           RepointForReset(c, from)
    PROVE  /\ snap' = [d \in Clients |-> snap'[d]]
           /\ \A d \in Clients : IsHistory(snap'[d])
           /\ fact' = [x \in DOMAIN fact' |-> fact'[x]]
           /\ DOMAIN fact' \subseteq Facts
           /\ \A x \in DOMAIN fact' : fact'[x] \in Int
           /\ left' \subseteq Facts
           /\ temp' \in Nat \cup {NoTemp}
<1> DEFINE moved == FactsOn(c, Doomed(c, from))
           kept == Below(snap[c], from)
           H == snap[c]
<1>1. IsHistory(H) /\ from \in Int /\ from - 1 \in Nat /\ from - 1 \in Int
  BY WalType DEF WorkingOK, TablesOK
<1>2. moved \subseteq Facts /\ kept \subseteq Int
  BY <1>1 DEF FactsOn, Below, IsHistory, WorkingOK, TablesOK
<1>3. ASSUME NEW G, IsHistory(G), snap' = [snap EXCEPT ![c] = G]
      PROVE  /\ snap' = [d \in Clients |-> snap'[d]]
             /\ \A d \in Clients : IsHistory(snap'[d])
  BY <1>3, HistoriesType DEF WorkingOK, TablesOK
<1>4. CASE moved = {} /\ snap' = [snap EXCEPT ![c] = ResetFrom(@, from)]
           /\ left' = {} /\ UNCHANGED <<fact, temp>>
  <2>1. IsHistory(ResetFrom(H, from))
    BY <1>1, ResetFromType
  <2>2. snap' = [snap EXCEPT ![c] = ResetFrom(H, from)]
    BY <1>4 DEF WorkingOK, TablesOK
  <2> QED BY <1>3, <1>4, <2>1, <2>2 DEF WorkingOK, TablesOK
<1>5. CASE /\ moved # {}
           /\ \E safe \in kept : /\ \A other \in kept : other <= safe
                                 /\ fact' = Repointed(moved, safe)
           /\ snap' = [snap EXCEPT ![c] = ResetFrom(@, from)]
           /\ left' = moved /\ UNCHANGED temp
  <2>1. IsHistory(ResetFrom(H, from))
    BY <1>1, ResetFromType
  <2>2. snap' = [snap EXCEPT ![c] = ResetFrom(H, from)]
    BY <1>5 DEF WorkingOK, TablesOK
  <2>3. PICK safe \in kept : fact' = Repointed(moved, safe)
    BY <1>5
  <2>4. /\ fact' = [x \in DOMAIN fact' |-> fact'[x]]
        /\ DOMAIN fact' = DOMAIN fact
        /\ \A x \in DOMAIN fact' : fact'[x] \in Int
    BY <1>2, <2>3, RepointedType
  <2> QED BY <1>2, <1>3, <1>5, <2>1, <2>2, <2>4 DEF WorkingOK, TablesOK
<1>6. CASE /\ moved # {} /\ kept = {}
           /\ temp' = from - 1
           /\ \E doomed \in Doomed(c, from) :
                 snap' = [snap EXCEPT ![c] =
                             ResetFrom(Insert(@, from - 1,
                                 Row(Epoch, Forever, FALSE, FALSE, snap[c][doomed].attrs)), from)]
           /\ fact' = Repointed(moved, from - 1)
           /\ left' = moved
  <2>1. PICK doomed \in Doomed(c, from) :
                 snap' = [snap EXCEPT ![c] =
                             ResetFrom(Insert(@, from - 1,
                                 Row(Epoch, Forever, FALSE, FALSE, snap[c][doomed].attrs)), from)]
    BY <1>6
  <2> DEFINE row == Row(Epoch, Forever, FALSE, FALSE, snap[c][doomed].attrs)
  <2>2. row \in Version
    <3>1. H[doomed].attrs \in Attrs
      BY <1>1 DEF Doomed, IsHistory, Version
    <3>2. Epoch \in Int
      BY DEF Epoch
    <3> QED BY <3>1, <3>2, OpenRowType
  <2> HIDE DEF row
  <2>3. IsHistory(ResetFrom(Insert(H, from - 1, row), from))
    BY <1>1, <2>2, InsertType, ResetFromType
  <2>4. snap' = [snap EXCEPT ![c] = ResetFrom(Insert(H, from - 1, row), from)]
    BY <2>1 DEF row, WorkingOK, TablesOK
  <2>5. /\ fact' = [x \in DOMAIN fact' |-> fact'[x]]
        /\ DOMAIN fact' = DOMAIN fact
        /\ \A x \in DOMAIN fact' : fact'[x] \in Int
    BY <1>1, <1>6, RepointedType
  <2> QED BY <1>1, <1>2, <1>3, <1>6, <2>3, <2>4, <2>5 DEF WorkingOK, TablesOK
<1> QED BY <1>4, <1>5, <1>6 DEF RepointForReset

----------------------------------------------------------------------------
(* Type correctness.                                                       *)

\* The initial state is typed.
LEMMA InitTypeOK == Init => TypeOK
<1> SUFFICES ASSUME Init PROVE TypeOK
  OBVIOUS
<1>1. SourcesOK
  BY DEF Init, SourcesOK
<1>2. TablesOK(snap, wm, quar, fact)
  BY ConstantRowsType DEF Init, TablesOK, NoWatermark, Many
<1>3. ProgressOK
  BY DEF Init, ProgressOK, Jobs
<1> QED BY <1>1, <1>2, <1>3 DEF Init, TypeOK, Tables

\* The committed tables, likewise.
CommittedOK ==
    /\ db = [snap |-> db.snap, wm |-> db.wm, quar |-> db.quar, fact |-> db.fact]
    /\ TablesOK(db.snap, db.wm, db.quar, db.fact)

\* A rollback restores committed tables.
LEMMA UndoTypeOK ==
    ASSUME TypeOK, Undo
    PROVE  TypeOK'
<1>1. SourcesOK' /\ CommittedOK'
  BY DEF TypeOK, Undo, SourcesOK, CommittedOK, TablesOK, sources
<1>2. TablesOK(snap, wm, quar, fact)'
  BY DEF TypeOK, Undo, TablesOK
<1>3. ProgressOK'
  BY DEF Undo, ProgressOK, Jobs
<1> QED BY <1>1, <1>2, <1>3 DEF TypeOK, CommittedOK

\* A step of the source system or of the first two layers.
LEMMA SourceStepTypeOK ==
    ASSUME TypeOK, UNCHANGED <<tables, db, job, progress>>, SourcesOK'
    PROVE  TypeOK'
<1>1. TablesOK(snap, wm, quar, fact)' /\ CommittedOK'
  BY DEF TypeOK, TablesOK, CommittedOK, tables
<1>2. ProgressOK'
  BY DEF TypeOK, ProgressOK, progress
<1> QED BY <1>1, <1>2 DEF TypeOK, CommittedOK

\* A step of a load, which leaves the sources and the committed tables alone.
LEMMA LoadStepTypeOK ==
    ASSUME TypeOK, UNCHANGED <<sources, db>>, WorkingOK', ProgressOK'
    PROVE  TypeOK'
<1>1. SourcesOK' /\ CommittedOK'
  BY DEF TypeOK, SourcesOK, CommittedOK, TablesOK, sources
<1> QED BY <1>1 DEF TypeOK, CommittedOK, WorkingOK

\* Every step keeps every variable in its type.
LEMMA NextTypeOK == TypeOK /\ [Next]_vars => TypeOK'
<1> SUFFICES ASSUME TypeOK, [Next]_vars PROVE TypeOK'
  OBVIOUS
<1>1. WorkingOK /\ SourcesOK /\ ProgressOK
  BY DEF TypeOK, WorkingOK
<1>2. UNCHANGED tables => WorkingOK'
  BY <1>1 DEF tables, WorkingOK, TablesOK
<1>3. ASSUME NEW l \in Lsns, Deliver(l) PROVE TypeOK'
  <2>1. IsFiniteSet({m \in Lsns : file[m] # 0})
    BY LsnsAssumption, FS_Subset
  <2>2. Cardinality({m \in Lsns : file[m] # 0}) + 1 \in Nat
    BY <2>1, FS_CardinalityType
  <2>3. SourcesOK'
    BY <1>1, <1>3, <2>2 DEF Deliver, SourcesOK
  <2> QED BY <1>3, <2>3, SourceStepTypeOK DEF Deliver
<1>4. ASSUME NEW l \in Lsns, Redeliver(l) PROVE TypeOK'
  <2>1. SourcesOK'
    BY <1>1, <1>4 DEF Redeliver, SourcesOK
  <2> QED BY <1>4, <2>1, SourceStepTypeOK DEF Redeliver
<1>5. CASE LandLayer1 \/ StageLayer2
  <2>1. SourcesOK'
    BY <1>1, <1>5 DEF LandLayer1, StageLayer2, SourcesOK
  <2> QED BY <1>5, <2>1, SourceStepTypeOK DEF LandLayer1, StageLayer2
<1>6. ASSUME NEW c \in ProfileClients, StageProfile(c) PROVE TypeOK'
  <2>1. SourcesOK'
    BY <1>1, <1>6 DEF StageProfile, SourcesOK
  <2> QED BY <1>6, <2>1, SourceStepTypeOK DEF StageProfile
<1>7. ASSUME NEW x \in Facts, StageFact(x) PROVE TypeOK'
  <2>1. SourcesOK'
    BY <1>1, <1>7 DEF StageFact, SourcesOK
  <2> QED BY <1>7, <2>1, SourceStepTypeOK DEF StageFact
<1>8. CASE Commit
  <2>1. SourcesOK' /\ TablesOK(snap, wm, quar, fact)'
    BY <1>1, <1>8 DEF Commit, SourcesOK, sources, tables, WorkingOK, TablesOK
  <2>2. ProgressOK'
    BY <1>1, <1>8 DEF Commit, ProgressOK, Jobs
  <2>3. db' = [snap |-> snap', wm |-> wm', quar |-> quar', fact |-> fact']
    BY <1>8 DEF Commit, Tables, tables
  <2> QED BY <2>1, <2>2, <2>3 DEF TypeOK
<1>9. CASE Crash
  BY <1>9, UndoTypeOK DEF Crash
<1>10. CASE BeginApply
  <2>1. ProgressOK'
    BY <1>1, <1>10 DEF BeginApply, ProgressOK, Jobs, Unapplied
  <2> QED BY <1>2, <1>10, <2>1, LoadStepTypeOK DEF BeginApply
<1>11. ASSUME NEW l \in Lsns, ApplyRow(l) PROVE TypeOK'
  <2>1. WorkingOK'
    BY <1>1, <1>11, ApplyGuardedType DEF ApplyRow, SourcesOK
  <2>2. ProgressOK'
    BY <1>1, <1>11 DEF ApplyRow, ProgressOK
  <2> QED BY <1>11, <2>1, <2>2, LoadStepTypeOK DEF ApplyRow
<1>12. CASE BeginSeed \/ BeginOrphans
  <2>1. ProgressOK'
    BY <1>1, <1>12, OtherInputsAssumption
       DEF BeginSeed, BeginOrphans, ProgressOK, SourcesOK, Jobs
  <2> QED BY <1>2, <1>12, <2>1, LoadStepTypeOK DEF BeginSeed, BeginOrphans
<1>13. ASSUME NEW c \in Clients, SeedClient(c) \/ SeedOrphan(c) PROVE TypeOK'
  <2>1. WorkingOK'
    BY <1>1, <1>13, SeedBaselineType, ConstantRowsType DEF SeedClient, SeedOrphan
  <2>2. ProgressOK'
    BY <1>1, <1>13 DEF SeedClient, SeedOrphan, ProgressOK
  <2> QED BY <1>13, <2>1, <2>2, LoadStepTypeOK DEF SeedClient, SeedOrphan
<1>14. CASE BeginFacts
  <2>1. ProgressOK'
    BY <1>1, <1>14 DEF BeginFacts, ProgressOK, SourcesOK, Jobs
  <2> QED BY <1>2, <1>14, <2>1, LoadStepTypeOK DEF BeginFacts
<1>15. ASSUME NEW x \in Facts, LoadFact(x) \/ ReresolveFact(x) PROVE TypeOK'
  <2>1. FactRow[x].client \in Clients
    BY OtherInputsAssumption
  <2>2. PICK l \in CoveringFact(x) : fact' = Upserted(x, l)
    BY <1>15 DEF LoadFact, ReresolveFact
  <2>3. l \in Int
    BY <1>1, <2>1 DEF CoveringFact, Covering, WorkingOK, TablesOK, IsHistory
  <2>4. WorkingOK'
    BY <1>1, <1>15, <2>2, <2>3, UpsertedType
       DEF LoadFact, ReresolveFact, WorkingOK, TablesOK
  <2>5. ProgressOK'
    BY <1>1, <1>15 DEF LoadFact, ReresolveFact, ProgressOK
  <2> QED BY <1>15, <2>4, <2>5, LoadStepTypeOK DEF LoadFact, ReresolveFact
<1>16. ASSUME NEW x \in Facts, LoadFactOnStopgap(x) PROVE TypeOK'
  <2> DEFINE c == FactRow[x].client
  <2>1. c \in Clients /\ FactRow[x].event_ts \in Int
    BY OtherInputsAssumption
  <2>2. IsHistory(snap[c])
    BY <1>1, <2>1 DEF WorkingOK, TablesOK
  <2>3. PICK lsn \in StopgapLsns(snap[c]) :
            /\ snap' = [snap EXCEPT ![c] = Insert(@, lsn, StopgapRow(FactRow[x].event_ts))]
            /\ fact' = Upserted(x, lsn)
    BY <1>16 DEF LoadFactOnStopgap
  <2>4. lsn \in Int
    BY <2>2 DEF StopgapLsns, IsHistory
  <2> DEFINE H == Insert(snap[c], lsn, StopgapRow(FactRow[x].event_ts))
  <2>5. IsHistory(H)
    BY <2>1, <2>2, <2>4, InsertType, ConstantRowsType
  <2>6. snap' = [snap EXCEPT ![c] = H]
    BY <1>1, <2>1, <2>3 DEF WorkingOK, TablesOK
  <2> HIDE DEF H
  <2>7. /\ snap' = [d \in Clients |-> snap'[d]]
        /\ \A d \in Clients : IsHistory(snap'[d])
    BY <1>1, <2>1, <2>5, <2>6, HistoriesType DEF WorkingOK, TablesOK
  <2>8. WorkingOK'
    BY <1>1, <1>16, <2>3, <2>4, <2>7, UpsertedType
       DEF LoadFactOnStopgap, WorkingOK, TablesOK
  <2>9. ProgressOK'
    BY <1>1, <1>16 DEF LoadFactOnStopgap, ProgressOK
  <2> QED BY <1>16, <2>8, <2>9, LoadStepTypeOK DEF LoadFactOnStopgap
<1>17. ASSUME NEW x \in Facts, LoadFactRaises(x) PROVE TypeOK'
  BY <1>17, UndoTypeOK DEF LoadFactRaises
<1>18. ASSUME NEW w \in Windows, BeginReload(w) PROVE TypeOK'
  <2>1. ProgressOK'
    BY <1>1, <1>18 DEF BeginReload, ProgressOK, Jobs, Affected
  <2> QED BY <1>2, <1>18, <2>1, LoadStepTypeOK DEF BeginReload
<1>19. ASSUME NEW c \in Clients, ResetClient(c) PROVE TypeOK'
  <2>1. PICK from \in ResetLsns(c, window) :
            /\ RepointForReset(c, from)
            /\ wm' = IF wm[c] = NoWatermark THEN wm ELSE [wm EXCEPT ![c] = from - 1]
            /\ todo' = ToReplay(c, from)
    BY <1>19 DEF ResetClient
  <2>2. from \in Lsns /\ from - 1 \in Int
    BY WalType DEF ResetLsns, InWindow
  <2>3. /\ snap' = [d \in Clients |-> snap'[d]]
        /\ \A d \in Clients : IsHistory(snap'[d])
        /\ fact' = [x \in DOMAIN fact' |-> fact'[x]]
        /\ DOMAIN fact' \subseteq Facts
        /\ \A x \in DOMAIN fact' : fact'[x] \in Int
        /\ left' \subseteq Facts
        /\ temp' \in Nat \cup {NoTemp}
    BY <1>1, <2>1, <2>2, RepointForResetType DEF ProgressOK
  <2>4. wm' \in [Clients -> Int]
    BY <1>1, <2>1, <2>2 DEF WorkingOK, TablesOK
  <2>5. WorkingOK'
    BY <1>1, <1>19, <2>3, <2>4 DEF ResetClient, WorkingOK, TablesOK
  <2>6. ProgressOK'
    BY <1>1, <1>19, <2>1, <2>3 DEF ResetClient, ProgressOK, ToReplay
  <2> QED BY <1>19, <2>5, <2>6, LoadStepTypeOK DEF ResetClient
<1>20. ASSUME NEW l \in Lsns, ReplayRow(l) PROVE TypeOK'
  <2>1. WorkingOK'
    BY <1>1, <1>20, ApplyGuardedType DEF ReplayRow, SourcesOK
  <2>2. ProgressOK'
    BY <1>1, <1>20 DEF ReplayRow, ProgressOK
  <2> QED BY <1>20, <2>1, <2>2, LoadStepTypeOK DEF ReplayRow
<1>21. CASE FinishClient
  <2>1. client \in Clients /\ IsHistory(snap[client])
    BY <1>1, <1>21 DEF FinishClient, ProgressOK, WorkingOK, TablesOK
  <2> DEFINE H == Delete(snap[client], {temp} \ {NoTemp})
  <2>2. IsHistory(H)
    BY <2>1, DeleteType
  <2>3. snap' = [snap EXCEPT ![client] = H]
    BY <1>1, <1>21, <2>1 DEF FinishClient, WorkingOK, TablesOK
  <2> HIDE DEF H
  <2>4. /\ snap' = [d \in Clients |-> snap'[d]]
        /\ \A d \in Clients : IsHistory(snap'[d])
    BY <1>1, <2>1, <2>2, <2>3, HistoriesType DEF WorkingOK, TablesOK
  <2>5. WorkingOK'
    BY <1>1, <1>21, <2>4 DEF FinishClient, WorkingOK, TablesOK
  <2>6. ProgressOK'
    BY <1>1, <1>21 DEF FinishClient, ProgressOK
  <2> QED BY <1>21, <2>5, <2>6, LoadStepTypeOK DEF FinishClient
<1>22. CASE UNCHANGED vars
  <2>1. SourcesOK' /\ ProgressOK'
    BY <1>1, <1>22 DEF vars, sources, progress, SourcesOK, ProgressOK
  <2> QED BY <1>2, <1>22, <2>1, LoadStepTypeOK DEF vars
<1> QED
  BY <1>3, <1>4, <1>5, <1>6, <1>7, <1>8, <1>9, <1>10, <1>11, <1>12, <1>13, <1>14,
     <1>15, <1>16, <1>17, <1>18, <1>19, <1>20, <1>21, <1>22 DEF Next

\* Every table, cursor and column always holds values of its type.
THEOREM TypeCorrect == Spec => []TypeOK
<1>1. Init => TypeOK
  BY InitTypeOK
<1>2. TypeOK /\ [Next]_vars => TypeOK'
  BY NextTypeOK
<1> QED BY <1>1, <1>2, PTL DEF Spec

----------------------------------------------------------------------------
(* The inductive invariant IInv.                                           *)

WorkingInv == \A c \in Clients : HistoryInv(snap[c], wm[c], c, TempOf(c))

CommittedInv == \A c \in Clients : HistoryInv(db.snap[c], db.wm[c], c, NoTemp)

\* An event above the watermark is above every row of its client, so the
\* append keeps the client's history in shape, watermark included.
LEMMA AppendInv ==
    ASSUME NEW H, IsHistory(H), NEW w \in Int, NEW t \in Nat \cup {NoTemp},
           NEW l \in Lsns, HistoryInv(H, w, Wal[l].client, t), l > w,
           NEW G, G = ApplyDelete(H, l, Wal[l].commit_ts)
                     \/ \E attrs : G = ApplyUpsert(H, l, Wal[l].commit_ts, attrs)
    PROVE  HistoryInv(G, l, Wal[l].client, t)
<1> DEFINE c == Wal[l].client
           ts == Wal[l].commit_ts
<1>1. l \in Int /\ l > 0 /\ ts \in Int
  BY WalType
<1>2. DOMAIN H \subseteq Int /\ t \in Int
  BY DEF IsHistory, NoTemp
<1>3. ASSUME NEW m \in DOMAIN H PROVE m < l
  <2>1. CASE m <= 0
    BY <1>1, <1>2, <2>1
  <2>2. CASE m > 0 /\ m = t
    <3>1. t <= w
      BY <1>2, <2>2 DEF HistoryInv, PlaceholderIsOldest, NoTemp
    <3> QED BY <1>1, <1>2, <2>2, <3>1
  <2>3. CASE m > 0 /\ m # t
    <3>1. m <= w
      BY <2>3 DEF HistoryInv, RowsAreLogged
    <3> QED BY <1>1, <1>2, <3>1
  <2> QED BY <1>2, <2>1, <2>2, <2>3
<1>4. Tiled(G) /\ AtMostAppends(G, H, l, ts)
  BY <1>1, <1>3, ApplyUpsertTiled, ApplyDeleteTiled DEF HistoryInv
<1>5. RowsAreLogged(G, l, c, t)
  <2> SUFFICES ASSUME NEW m \in DOMAIN G, m > 0, m # t
               PROVE  /\ m \in Lsns /\ Wal[m].client = c /\ m <= l
                      /\ G[m].valid_from = Wal[m].commit_ts
    BY DEF RowsAreLogged
  <2>1. CASE m = l
    BY <1>1, <1>4, <2>1 DEF AtMostAppends
  <2>2. CASE m # l
    <3>1. m \in DOMAIN H
      BY <1>4, <2>2 DEF AtMostAppends
    <3>2. m \in Lsns /\ Wal[m].client = c /\ H[m].valid_from = Wal[m].commit_ts
      BY <3>1 DEF HistoryInv, RowsAreLogged
    <3>3. m <= l /\ G[m].valid_from = H[m].valid_from
      BY <1>1, <1>2, <1>3, <1>4, <3>1 DEF AtMostAppends
    <3> QED BY <3>2, <3>3
  <2> QED BY <2>1, <2>2
<1>6. PlaceholderIsOldest(G, l, t)
  <2> SUFFICES ASSUME t # NoTemp PROVE t <= l /\ \A m \in DOMAIN G : t <= m
    BY DEF PlaceholderIsOldest
  <2>1. t <= w /\ \A m \in DOMAIN H : t <= m
    BY DEF HistoryInv, PlaceholderIsOldest
  <2> QED BY <1>1, <1>2, <1>4, <2>1 DEF AtMostAppends
<1> QED BY <1>4, <1>5, <1>6 DEF HistoryInv

\* apply_cdc_event behind its guard keeps all histories in shape.
LEMMA ApplyGuardedInv ==
    ASSUME WorkingOK, WorkingInv, client \in Clients \cup {NoClient},
           temp \in Nat \cup {NoTemp},
           NEW l \in Lsns, NEW images, ApplyGuarded(l, images), UNCHANGED <<client, temp>>
    PROVE  WorkingInv'
<1> DEFINE c == Wal[l].client
           ts == Wal[l].commit_ts
<1>1. c \in Clients
  BY WalType
<1>2. wm \in [Clients -> Int] /\ IsHistory(snap[c])
  BY <1>1 DEF WorkingOK, TablesOK
<1>3. CASE UNCHANGED <<snap, wm>>
  BY <1>3 DEF WorkingInv, TempOf
<1>4. CASE l > wm[c] /\ ApplyCdcEvent(l, images) /\ ~ UNCHANGED <<snap, wm>>
  <2> DEFINE G == IF Wal[l].op = "delete" THEN ApplyDelete(snap[c], l, ts)
                  ELSE ApplyUpsert(snap[c], l, ts, <<l, images[l]>>)
  <2>1. snap' = [snap EXCEPT ![c] = G] /\ wm' = [wm EXCEPT ![c] = l]
    BY <1>1, <1>4 DEF ApplyCdcEvent, WorkingOK, TablesOK
  <2>2. TempOf(c) \in Nat \cup {NoTemp} /\ HistoryInv(snap[c], wm[c], c, TempOf(c))
    BY <1>1 DEF TempOf, WorkingInv
  <2>3. HistoryInv(G, l, c, TempOf(c))
    BY <1>1, <1>2, <1>4, <2>2, AppendInv
  <2> HIDE DEF G
  <2>4. snap'[c] = G /\ wm'[c] = l
    BY <1>1, <1>2, <2>1 DEF WorkingOK, TablesOK
  <2>5. ASSUME NEW d \in Clients, d # c PROVE snap'[d] = snap[d] /\ wm'[d] = wm[d]
    BY <1>2, <2>1, <2>5 DEF WorkingOK, TablesOK
  <2> QED BY <2>3, <2>4, <2>5 DEF WorkingInv, TempOf
<1> QED BY <1>3, <1>4 DEF ApplyGuarded, ApplyCdcEvent

\* Seeding a client keeps all histories in shape.
LEMMA SeedBaselineInv ==
    ASSUME WorkingOK, WorkingInv, NEW c \in Clients, NEW attrs, SeedBaseline(c, attrs),
           client = NoClient, temp = NoTemp, UNCHANGED <<wm, client, temp>>
    PROVE  WorkingInv'
<1> DEFINE G == Delete(Insert(snap[c], 0, BaselineRow(attrs)), {l \in DOMAIN snap[c] : l < 0})
<1>1. CASE snap' = snap
  BY <1>1 DEF WorkingInv, TempOf
<1>2. CASE (\A l \in DOMAIN snap[c] : l <= 0) /\ snap' = [snap EXCEPT ![c] = G]
  <2>1. IsHistory(snap[c]) /\ HistoryInv(snap[c], wm[c], c, NoTemp)
    BY DEF WorkingOK, TablesOK, WorkingInv, TempOf
  <2>2. Tiled(G) /\ DOMAIN G = {0}
    BY <1>2, <2>1, SeedTiled DEF HistoryInv
  <2> HIDE DEF G
  <2>3. HistoryInv(G, wm[c], c, NoTemp)
    BY <2>2 DEF HistoryInv, RowsAreLogged, PlaceholderIsOldest
  <2>4. snap'[c] = G /\ \A d \in Clients : d # c => snap'[d] = snap[d]
    BY <1>2 DEF WorkingOK, TablesOK
  <2> QED BY <2>3, <2>4 DEF WorkingInv, TempOf
<1> QED
  <2>1. snap' = [snap EXCEPT ![c] = Delete(Insert(@, 0, BaselineRow(attrs)), Stopgaps(c))]
          <=> snap' = [snap EXCEPT ![c] = G]
    BY DEF Stopgaps, WorkingOK, TablesOK
  <2> QED BY <1>1, <1>2, <2>1 DEF SeedBaseline

\* Resetting a client lowers its watermark with its rows, or leaves only the
\* placeholder.
LEMMA ResetInv ==
    ASSUME WorkingOK, WorkingInv, NEW c \in Clients, NEW from \in Lsns,
           RepointForReset(c, from),
           wm' = IF wm[c] = NoWatermark THEN wm ELSE [wm EXCEPT ![c] = from - 1],
           client = NoClient, temp = NoTemp, client' = c
    PROVE  WorkingInv'
<1> DEFINE H == snap[c]
<1>1. from \in Int /\ from > 0 /\ wm[c] \in Int /\ wm \in [Clients -> Int]
  BY WalType DEF WorkingOK, TablesOK
<1>2. IsHistory(H) /\ HistoryInv(H, wm[c], c, NoTemp) /\ DOMAIN H \subseteq Int
  BY DEF WorkingOK, TablesOK, WorkingInv, TempOf, IsHistory
<1>3. wm'[c] = IF wm[c] = NoWatermark THEN NoWatermark ELSE from - 1
  BY <1>1
<1>4. \A d \in Clients : d # c => wm'[d] = wm[d]
  BY <1>1
<1>5. ASSUME NEW G, snap' = [snap EXCEPT ![c] = G], HistoryInv(G, wm'[c], c, temp')
      PROVE  WorkingInv'
  <2>1. snap'[c] = G /\ \A d \in Clients : d # c => snap'[d] = snap[d]
    BY <1>5 DEF WorkingOK, TablesOK
  <2>2. TempOf(c)' = temp' /\ \A d \in Clients : d # c => TempOf(d)' = NoTemp
    BY DEF TempOf
  <2>3. \A d \in Clients : HistoryInv(snap[d], wm[d], d, NoTemp)
    BY DEF WorkingInv, TempOf
  <2> QED BY <1>4, <1>5, <2>1, <2>2, <2>3 DEF WorkingInv
<1>6. CASE snap' = [snap EXCEPT ![c] = ResetFrom(@, from)] /\ temp' = temp
  <2> DEFINE G == ResetFrom(H, from)
  <2>1. /\ Tiled(G) /\ DOMAIN G = Below(H, from)
        /\ \A l \in Below(H, from) : G[l].valid_from = H[l].valid_from
    BY <1>1, <1>2, ResetFromTiled DEF HistoryInv
  <2>2. snap' = [snap EXCEPT ![c] = G]
    BY <1>6 DEF WorkingOK, TablesOK
  <2> HIDE DEF G
  <2>3. RowsAreLogged(G, wm'[c], c, NoTemp)
    <3> SUFFICES ASSUME NEW l \in DOMAIN G, l > 0
                 PROVE  /\ l \in Lsns /\ Wal[l].client = c /\ l <= wm'[c]
                        /\ G[l].valid_from = Wal[l].commit_ts
      BY DEF RowsAreLogged
    <3>1. l \in DOMAIN H /\ l < from /\ l \in Int
      BY <1>2, <2>1 DEF Below
    <3>2. /\ l \in Lsns /\ Wal[l].client = c /\ l <= wm[c]
          /\ H[l].valid_from = Wal[l].commit_ts
      BY <1>2, <3>1 DEF HistoryInv, RowsAreLogged, NoTemp
    <3>3. l <= wm'[c]
      BY <1>1, <1>3, <3>1, <3>2 DEF NoWatermark
    <3> QED BY <2>1, <3>2, <3>3
  <2>4. HistoryInv(G, wm'[c], c, temp')
    BY <1>6, <2>1, <2>3 DEF HistoryInv, PlaceholderIsOldest
  <2> QED BY <1>5, <2>2, <2>4
<1>7. CASE /\ FactsOn(c, Doomed(c, from)) # {} /\ Below(snap[c], from) = {}
           /\ temp' = from - 1
           /\ \E doomed \in Doomed(c, from) :
                 snap' = [snap EXCEPT ![c] =
                             ResetFrom(Insert(@, from - 1,
                                 Row(Epoch, Forever, FALSE, FALSE, snap[c][doomed].attrs)), from)]
  <2>1. PICK doomed \in Doomed(c, from) :
                 snap' = [snap EXCEPT ![c] =
                             ResetFrom(Insert(@, from - 1,
                                 Row(Epoch, Forever, FALSE, FALSE, snap[c][doomed].attrs)), from)]
    BY <1>7
  <2> DEFINE row == Row(Epoch, Forever, FALSE, FALSE, snap[c][doomed].attrs)
             G == ResetFrom(Insert(H, from - 1, row), from)
  <2>2. doomed \in DOMAIN H /\ doomed >= from /\ doomed \in Int
    BY <1>2 DEF Doomed
  <2>3. row \in Version
    <3>1. H[doomed].attrs \in Attrs
      BY <1>2, <2>2 DEF IsHistory, Version
    <3>2. Epoch \in Int
      BY DEF Epoch
    <3> QED BY <3>1, <3>2, OpenRowType
  <2>4. snap' = [snap EXCEPT ![c] = G]
    BY <2>1 DEF WorkingOK, TablesOK
  <2> HIDE DEF row
  <2>5. Tiled(G) /\ DOMAIN G = {from - 1}
    BY <1>1, <1>2, <1>7, <2>3, ResetToPlaceholderTiled
  <2> HIDE DEF G
  <2>6. wm'[c] = from - 1
    <3>1. doomed <= wm[c]
      BY <1>1, <1>2, <2>2 DEF HistoryInv, RowsAreLogged, NoTemp
    <3> QED BY <1>1, <1>3, <2>2, <3>1 DEF NoWatermark
  <2>7. HistoryInv(G, wm'[c], c, temp')
    BY <1>1, <1>7, <2>5, <2>6 DEF HistoryInv, RowsAreLogged, PlaceholderIsOldest
  <2> QED BY <1>5, <2>4, <2>7
<1> QED BY <1>6, <1>7 DEF RepointForReset

\* A stopgap goes to a client without real rows, below all it has.
LEMMA StopgapInv ==
    ASSUME WorkingOK, WorkingInv, NEW x \in Facts, LoadFactOnStopgap(x),
           client = NoClient, temp = NoTemp
    PROVE  WorkingInv'
<1> DEFINE c == FactRow[x].client
           H == snap[c]
<1>1. c \in Clients
  BY OtherInputsAssumption
<1>2. IsHistory(H) /\ HistoryInv(H, wm[c], c, NoTemp) /\ DOMAIN H \subseteq Int
  BY <1>1 DEF WorkingOK, TablesOK, WorkingInv, TempOf, IsHistory
<1>3. \A l \in DOMAIN H : l < 0
  BY <1>2 DEF LoadFactOnStopgap, HasReal
<1>4. PICK lsn \in StopgapLsns(H) :
         snap' = [snap EXCEPT ![c] = Insert(@, lsn, StopgapRow(FactRow[x].event_ts))]
  BY DEF LoadFactOnStopgap
<1> DEFINE G == Insert(H, lsn, StopgapRow(FactRow[x].event_ts))
<1>5. lsn \in Int /\ lsn < 0 /\ Tiled(G)
  BY <1>2, <1>3, StopgapTiled DEF HistoryInv
<1>6. \A l \in DOMAIN G : ~ l > 0
  BY <1>2, <1>3, <1>5 DEF Insert
<1>7. snap'[c] = G /\ \A d \in Clients : d # c => snap'[d] = snap[d]
  BY <1>1, <1>4 DEF WorkingOK, TablesOK
<1> HIDE DEF G
<1>8. HistoryInv(G, wm[c], c, NoTemp)
  BY <1>5, <1>6 DEF HistoryInv, RowsAreLogged, PlaceholderIsOldest
<1>9. UNCHANGED <<wm, client, temp>>
  BY DEF LoadFactOnStopgap
<1> QED BY <1>7, <1>8, <1>9 DEF WorkingInv, TempOf

\* The placeholder is deleted from the old end of the history.
LEMMA FinishInv ==
    ASSUME WorkingOK, WorkingInv, client \in Clients, temp \in Nat \cup {NoTemp},
           FinishClient
    PROVE  WorkingInv'
<1> DEFINE H == snap[client]
           gone == {temp} \ {NoTemp}
           G == Delete(H, gone)
<1>1. IsHistory(H) /\ HistoryInv(H, wm[client], client, temp)
  BY DEF WorkingOK, TablesOK, WorkingInv, TempOf
<1>2. \A l \in gone : \A m \in DOMAIN H : l <= m
  BY <1>1 DEF HistoryInv, PlaceholderIsOldest
<1>3. Tiled(G)
  BY <1>1, <1>2, DeleteOldestTiled DEF HistoryInv
<1>4. DOMAIN G = DOMAIN H \ gone /\ \A l \in DOMAIN G : G[l] = H[l]
  BY DEF Delete
<1>5. snap'[client] = G /\ \A d \in Clients : d # client => snap'[d] = snap[d]
  BY DEF FinishClient, WorkingOK, TablesOK
<1> HIDE DEF G
<1>6. RowsAreLogged(G, wm[client], client, NoTemp)
  <2> SUFFICES ASSUME NEW l \in DOMAIN G, l > 0
               PROVE  /\ l \in Lsns /\ Wal[l].client = client /\ l <= wm[client]
                      /\ G[l].valid_from = Wal[l].commit_ts
    BY DEF RowsAreLogged
  <2>1. l \in DOMAIN H /\ l # temp
    BY <1>4 DEF NoTemp
  <2> QED BY <1>1, <1>4, <2>1 DEF HistoryInv, RowsAreLogged
<1>7. HistoryInv(G, wm[client], client, NoTemp)
  BY <1>3, <1>6 DEF HistoryInv, PlaceholderIsOldest
<1>8. wm' = wm /\ client' = NoClient /\ temp' = NoTemp
  BY DEF FinishClient
<1>9. \A d \in Clients : TempOf(d)' = NoTemp
  BY <1>8 DEF TempOf
<1>10. \A d \in Clients : d # client => HistoryInv(snap[d], wm[d], d, NoTemp)
  BY DEF WorkingInv, TempOf
<1> QED BY <1>5, <1>7, <1>8, <1>9, <1>10 DEF WorkingInv

\* IInv in the parts the lemmas above speak of.
LEMMA IInvParts ==
    IInv <=> /\ WorkingInv /\ CommittedInv
             /\ client = NoClient => temp = NoTemp
             /\ job # "reload" => client = NoClient
BY DEF IInv, WorkingInv, CommittedInv

\* The empty warehouse is in shape.
LEMMA InitIInv == Init => IInv
<1> SUFFICES ASSUME Init PROVE IInv
  OBVIOUS
<1>1. DOMAIN NoHistory = {}
  BY DEF NoHistory
<1>2. \A c \in Clients : HistoryInv(NoHistory, NoWatermark, c, NoTemp)
  BY <1>1 DEF HistoryInv, Tiled, RowsAreLogged, PlaceholderIsOldest
<1>3. \A c \in Clients : snap[c] = NoHistory /\ wm[c] = NoWatermark
  BY DEF Init
<1>4. db.snap = snap /\ db.wm = wm /\ client = NoClient /\ temp = NoTemp
  BY DEF Init, Tables
<1>5. WorkingInv /\ CommittedInv
  BY <1>2, <1>3, <1>4 DEF WorkingInv, CommittedInv, TempOf
<1> QED BY <1>4, <1>5, IInvParts

\* A rollback returns to the committed tables, which are in shape.
LEMMA UndoIInv ==
    ASSUME IInv, Undo
    PROVE  IInv'
<1>1. CommittedInv'
  BY IInvParts DEF Undo, CommittedInv
<1>2. WorkingInv'
  BY IInvParts DEF Undo, WorkingInv, CommittedInv, TempOf
<1>3. client' = NoClient /\ temp' = NoTemp
  BY DEF Undo
<1> QED BY <1>1, <1>2, <1>3 DEF IInv, WorkingInv, CommittedInv

\* Every step keeps every history, working and committed, in shape.
LEMMA NextIInv == TypeOK /\ IInv /\ [Next]_vars => IInv'
<1> SUFFICES ASSUME TypeOK, IInv, [Next]_vars PROVE IInv'
  OBVIOUS
<1>1. WorkingOK /\ client \in Clients \cup {NoClient} /\ temp \in Nat \cup {NoTemp}
  BY DEF TypeOK, WorkingOK, ProgressOK
<1>2. /\ WorkingInv /\ CommittedInv
      /\ client = NoClient => temp = NoTemp
      /\ job # "reload" => client = NoClient
  BY IInvParts
<1>3. ASSUME WorkingInv', db' = db, client' = NoClient => temp' = NoTemp,
             job' # "reload" => client' = NoClient
      PROVE  IInv'
  <2>1. CommittedInv'
    BY <1>2, <1>3 DEF CommittedInv
  <2> QED BY <1>3, <2>1 DEF IInv, WorkingInv, CommittedInv
<1>4. ASSUME UNCHANGED <<snap, wm, client, temp>> PROVE WorkingInv'
  BY <1>2, <1>4 DEF WorkingInv, TempOf
<1>5. ASSUME NEW l \in Lsns, Deliver(l) \/ Redeliver(l) PROVE IInv'
  BY <1>2, <1>3, <1>4, <1>5 DEF Deliver, Redeliver, tables, progress
<1>6. CASE LandLayer1 \/ StageLayer2
  BY <1>2, <1>3, <1>4, <1>6 DEF LandLayer1, StageLayer2, tables, progress
<1>7. ASSUME NEW c \in ProfileClients, StageProfile(c) PROVE IInv'
  BY <1>2, <1>3, <1>4, <1>7 DEF StageProfile, tables, progress
<1>8. ASSUME NEW x \in Facts, StageFact(x) PROVE IInv'
  BY <1>2, <1>3, <1>4, <1>8 DEF StageFact, tables, progress
<1>9. CASE Commit
  <2>1. client = NoClient /\ UNCHANGED <<snap, wm, client, temp>>
    BY <1>2, <1>9 DEF Commit, Finished, tables
  <2>2. WorkingInv'
    BY <1>4, <2>1
  <2>3. db'.snap = snap /\ db'.wm = wm
    BY <1>9 DEF Commit, Tables
  <2>4. CommittedInv'
    BY <1>2, <2>1, <2>3 DEF CommittedInv, WorkingInv, TempOf
  <2> QED BY <1>2, <2>1, <2>2, <2>4 DEF IInv, WorkingInv, CommittedInv
<1>10. CASE Crash
  BY <1>10, UndoIInv DEF Crash
<1>11. CASE BeginApply \/ BeginSeed \/ BeginOrphans \/ BeginFacts
  BY <1>2, <1>3, <1>4, <1>11 DEF BeginApply, BeginSeed, BeginOrphans, BeginFacts, tables
<1>12. ASSUME NEW l \in Lsns, ApplyRow(l) \/ ReplayRow(l) PROVE IInv'
  <2>1. WorkingInv'
    BY <1>1, <1>2, <1>12, ApplyGuardedInv DEF ApplyRow, ReplayRow
  <2> QED BY <1>2, <1>3, <1>12, <2>1 DEF ApplyRow, ReplayRow
<1>13. ASSUME NEW c \in Clients, SeedClient(c) \/ SeedOrphan(c) PROVE IInv'
  <2>1. WorkingInv'
    BY <1>1, <1>2, <1>13, SeedBaselineInv DEF SeedClient, SeedOrphan
  <2> QED BY <1>2, <1>3, <1>13, <2>1 DEF SeedClient, SeedOrphan
<1>14. ASSUME NEW x \in Facts, LoadFact(x) \/ ReresolveFact(x) PROVE IInv'
  BY <1>2, <1>3, <1>4, <1>14 DEF LoadFact, ReresolveFact
<1>15. ASSUME NEW x \in Facts, LoadFactOnStopgap(x) PROVE IInv'
  <2>1. WorkingInv'
    BY <1>1, <1>2, <1>15, StopgapInv DEF LoadFactOnStopgap
  <2> QED BY <1>2, <1>3, <1>15, <2>1 DEF LoadFactOnStopgap
<1>16. ASSUME NEW x \in Facts, LoadFactRaises(x) PROVE IInv'
  BY <1>16, UndoIInv DEF LoadFactRaises
<1>17. ASSUME NEW w \in Windows, BeginReload(w) PROVE IInv'
  BY <1>2, <1>3, <1>4, <1>17 DEF BeginReload, tables
<1>18. ASSUME NEW c \in Clients, ResetClient(c) PROVE IInv'
  <2>1. PICK from \in ResetLsns(c, window) :
            /\ RepointForReset(c, from)
            /\ wm' = IF wm[c] = NoWatermark THEN wm ELSE [wm EXCEPT ![c] = from - 1]
    BY <1>18 DEF ResetClient
  <2>2. from \in Lsns
    BY DEF ResetLsns, InWindow
  <2>3. client = NoClient /\ client' = c /\ job' = "reload" /\ db' = db
    BY <1>18 DEF ResetClient
  <2>4. WorkingInv'
    BY <1>1, <1>2, <2>1, <2>2, <2>3, ResetInv
  <2>5. c # NoClient
    BY ClientsAssumption DEF NoClient
  <2> QED BY <1>3, <2>3, <2>4, <2>5
<1>19. CASE FinishClient
  <2>1. client \in Clients
    BY <1>1, <1>19 DEF FinishClient
  <2>2. WorkingInv'
    BY <1>1, <1>2, <1>19, <2>1, FinishInv
  <2> QED BY <1>3, <1>19, <2>2 DEF FinishClient
<1>20. CASE UNCHANGED vars
  BY <1>2, <1>3, <1>4, <1>20 DEF vars, tables, progress
<1> QED
  BY <1>5, <1>6, <1>7, <1>8, <1>9, <1>10, <1>11, <1>12, <1>13, <1>14,
     <1>15, <1>16, <1>17, <1>18, <1>19, <1>20 DEF Next

\* The histories always keep the shape the loads rely on.
THEOREM Invariant == Spec => [](TypeOK /\ IInv)
<1>1. Init => TypeOK /\ IInv
  BY InitTypeOK, InitIInv
<1>2. (TypeOK /\ IInv) /\ [Next]_vars => (TypeOK /\ IInv)'
  BY NextTypeOK, NextIInv
<1> QED BY <1>1, <1>2, PTL DEF Spec

----------------------------------------------------------------------------
(* What it implies.                                                        *)

\* In a tiled history the current row is the newest, and a newest real row
\* is current.
LEMMA TiledCurrent ==
    ASSUME NEW H, IsHistory(H), Tiled(H), NEW l \in DOMAIN H
    PROVE  /\ H[l].is_current => l \in Newest(H)
           /\ l \in Newest(H) /\ l >= 0 => H[l].is_current
<1>1. DOMAIN H \subseteq Int
  BY DEF IsHistory
<1>2. H[l].is_current => l \in Newest(H)
  BY DEF Tiled, Newest
<1>3. ASSUME l \in Newest(H), l >= 0, ~ H[l].is_current PROVE FALSE
  <2>1. PICK m \in DOMAIN H : l < m
    BY <1>3 DEF Tiled, Adjacent
  <2> QED BY <1>1, <1>3, <2>1 DEF Newest
<1> QED BY <1>2, <1>3

\* At every step a client's current row is its newest one, and a client with
\* real history has one.
THEOREM CurrentVersion == Spec => []CurrentIsNewest
<1>1. TypeOK /\ IInv => CurrentIsNewest
  <2> SUFFICES ASSUME TypeOK, IInv, NEW c \in Clients, NEW l \in DOMAIN snap[c]
               PROVE  /\ snap[c][l].is_current => l \in Newest(snap[c])
                      /\ l \in Newest(snap[c]) /\ l >= 0 => snap[c][l].is_current
    BY DEF CurrentIsNewest
  <2>1. IsHistory(snap[c]) /\ Tiled(snap[c])
    BY DEF TypeOK, TablesOK, IInv, HistoryInv
  <2> QED BY <2>1, TiledCurrent
<1> QED BY <1>1, Invariant, PTL

\* At every step the real versions of a client tile time from the first one
\* on, without a gap or an overlap.
THEOREM Tiling == Spec => []RealVersionsTile
<1>1. TypeOK /\ IInv => RealVersionsTile
  <2> SUFFICES ASSUME TypeOK, IInv, NEW c \in Clients, NEW l \in Real(snap[c])
               PROVE  IF l \in Newest(snap[c]) THEN snap[c][l].valid_to = Forever
                      ELSE \E m \in Real(snap[c]) :
                              /\ l < m /\ \A k \in DOMAIN snap[c] : k <= l \/ m <= k
                              /\ snap[c][l].valid_to = snap[c][m].valid_from
    BY DEF RealVersionsTile
  <2> DEFINE H == snap[c]
  <2>1. IsHistory(H) /\ Tiled(H)
    BY DEF TypeOK, TablesOK, IInv, HistoryInv
  <2>2. l \in DOMAIN H /\ l >= 0 /\ DOMAIN H \subseteq Int
    BY <2>1 DEF Real, IsHistory
  <2>3. CASE l \in Newest(H)
    BY <2>1, <2>2, <2>3, TiledCurrent DEF Tiled
  <2>4. CASE l \notin Newest(H)
    <3>1. ~ H[l].is_current
      BY <2>1, <2>2, <2>4, TiledCurrent
    <3>2. PICK m \in DOMAIN H : Adjacent(H, l, m) /\ H[l].valid_to = H[m].valid_from
      BY <2>1, <2>2, <3>1 DEF Tiled
    <3>3. m \in Real(H)
      BY <2>2, <3>2 DEF Adjacent, Real
    <3> QED BY <2>4, <3>2, <3>3 DEF Adjacent
  <2> QED BY <2>3, <2>4
<1> QED BY <1>1, Invariant, PTL
=============================================================================
