------------------------- MODULE WarehouseLogProofs -------------------------
(***************************************************************************)
(* Theorems about what the histories, the watermarks and the facts have to  *)
(* do with the change log: LogInv of WarehouseInvariants is inductive, and  *)
(* what it implies for every log, set of facts and reload window.           *)
(***************************************************************************)
EXTENDS WarehouseInvariants, WarehouseLoadsProofs

----------------------------------------------------------------------------
(* What apply_cdc_event behind its guard does with one change: it puts a    *)
(* delete without a row in the quarantine, or a stale change, or records it *)
(* above all rows of its client.                                           *)

Skips(l) ==
    /\ Wal[l].op = "delete" /\ DOMAIN snap[Wal[l].client] = {}
    /\ quar' = OneMore("delete_with_no_baseline", l)
    /\ UNCHANGED <<snap, wm>>

FindsStale(l) ==
    /\ l <= wm[Wal[l].client]
    /\ quar' = OneMore("stale_lsn", l)
    /\ UNCHANGED <<snap, wm>>

\* G is H with a version of l on top.
IsAppended(G, H, l, image) ==
    /\ \A m \in DOMAIN H : m < l
    /\ DOMAIN G = DOMAIN H \cup {l}
    /\ \A m \in DOMAIN H : /\ G[m].valid_from = H[m].valid_from
                           /\ G[m].attrs = H[m].attrs
                           /\ G[m].is_deleted = H[m].is_deleted
    /\ G[l].valid_from = Wal[l].commit_ts
    /\ G[l].is_deleted = (Wal[l].op = "delete")
    /\ IF Wal[l].op = "delete" THEN \A m \in Newest(H) : G[l].attrs = H[m].attrs
       ELSE G[l].attrs = <<l, image>>

Records(l, image) ==
    LET c == Wal[l].client IN
    /\ l > wm[c] /\ wm'[c] = l
    /\ Wal[l].op = "delete" => DOMAIN snap[c] # {}
    /\ IsAppended(snap'[c], snap[c], l, image)
    /\ \A d \in Clients : d # c => snap'[d] = snap[d] /\ wm'[d] = wm[d]
    /\ quar' = quar

\* End-dating changes no other column.
LEMMA EndDateKeeps ==
    ASSUME NEW H, IsHistory(H), NEW ts, NEW l \in DOMAIN H
    PROVE  /\ EndDateCurrent(H, ts)[l].valid_from = H[l].valid_from
           /\ EndDateCurrent(H, ts)[l].attrs = H[l].attrs
           /\ EndDateCurrent(H, ts)[l].is_deleted = H[l].is_deleted
BY DEF EndDateCurrent, IsHistory, Version

\* The version of a change that is above all rows is appended as its event
\* says, or as the newest row says when it is a tombstone.
LEMMA AppendedVersion ==
    ASSUME NEW H, IsHistory(H), NEW l \in Lsns, \A m \in DOMAIN H : m < l, NEW image,
           Wal[l].op = "delete" => DOMAIN H # {},
           NEW G, G = IF Wal[l].op = "delete" THEN ApplyDelete(H, l, Wal[l].commit_ts)
                      ELSE ApplyUpsert(H, l, Wal[l].commit_ts, <<l, image>>)
    PROVE  IsAppended(G, H, l, image)
<1> DEFINE ts == Wal[l].commit_ts
           E == EndDateCurrent(H, ts)
<1>1. l \in Int /\ DOMAIN H \subseteq Int /\ l \notin DOMAIN H
  BY WalType DEF IsHistory
<1>2. DOMAIN E = DOMAIN H
  BY DEF EndDateCurrent
<1>3. \A m \in DOMAIN H : /\ E[m].valid_from = H[m].valid_from
                          /\ E[m].attrs = H[m].attrs
                          /\ E[m].is_deleted = H[m].is_deleted
  BY EndDateKeeps
<1> HIDE DEF E
<1>4. ASSUME NEW deleted, NEW attrs, G = Insert(E, l, Row(ts, Forever, TRUE, deleted, attrs))
      PROVE  /\ DOMAIN G = DOMAIN H \cup {l}
             /\ \A m \in DOMAIN H : G[m] = E[m]
             /\ G[l].valid_from = ts /\ G[l].is_deleted = deleted /\ G[l].attrs = attrs
  BY <1>1, <1>2, <1>4, SMTT(40) DEF Insert, Row
<1>5. CASE Wal[l].op # "delete"
  <2>1. G = Insert(E, l, Row(ts, Forever, TRUE, FALSE, <<l, image>>))
    BY <1>5 DEF ApplyUpsert, E
  <2>2. /\ DOMAIN G = DOMAIN H \cup {l} /\ \A m \in DOMAIN H : G[m] = E[m]
        /\ G[l].valid_from = ts /\ G[l].is_deleted = FALSE /\ G[l].attrs = <<l, image>>
    BY <1>4, <2>1
  <2>3. (Wal[l].op = "delete") = FALSE
    BY <1>5
  <2>4. \A m \in DOMAIN H : /\ G[m].valid_from = H[m].valid_from
                            /\ G[m].attrs = H[m].attrs
                            /\ G[m].is_deleted = H[m].is_deleted
    BY <1>3, <2>2
  <2> QED BY <1>5, <2>2, <2>3, <2>4 DEF IsAppended
<1>6. CASE Wal[l].op = "delete"
  <2> DEFINE copied == {H[m].attrs : m \in Newest(H)}
             a == CHOOSE x \in copied : TRUE
  <2>1. PICK n \in DOMAIN H : Newest(H) = {n}
    <3>1. \A m \in DOMAIN H : m <= l
      BY <1>1
    <3> QED BY <1>1, <1>6, <3>1, NewestExists
  <2>2. copied = {H[n].attrs}
    BY <2>1
  <2>3. a = H[n].attrs
    BY <2>2
  <2>4. G = Insert(E, l, Row(ts, Forever, TRUE, TRUE, a))
    BY <1>6, <2>2 DEF ApplyDelete, E
  <2> HIDE DEF a
  <2>5. /\ DOMAIN G = DOMAIN H \cup {l} /\ \A m \in DOMAIN H : G[m] = E[m]
        /\ G[l].valid_from = ts /\ G[l].is_deleted = TRUE /\ G[l].attrs = a
    BY <1>4, <2>4
  <2>6. (Wal[l].op = "delete") = TRUE
    BY <1>6
  <2>7. \A m \in DOMAIN H : /\ G[m].valid_from = H[m].valid_from
                            /\ G[m].attrs = H[m].attrs
                            /\ G[m].is_deleted = H[m].is_deleted
    BY <1>3, <2>5
  <2> QED BY <1>6, <2>1, <2>3, <2>5, <2>6, <2>7 DEF IsAppended
<1> QED BY <1>5, <1>6
\* No row of a client is above both its watermark and zero.
LEMMA RowsBelow ==
    ASSUME NEW H, IsHistory(H), NEW w \in Int, NEW c, NEW t \in Nat \cup {NoTemp},
           HistoryInv(H, w, c, t), NEW m \in DOMAIN H
    PROVE  m \in Int /\ (m <= 0 \/ m <= w)
<1>1. DOMAIN H \subseteq Int /\ t \in Int
  BY DEF IsHistory, NoTemp
<1>2. CASE m > 0 /\ m = t
  BY <1>1, <1>2 DEF HistoryInv, PlaceholderIsOldest, NoTemp
<1>3. CASE m > 0 /\ m # t
  BY <1>1, <1>3 DEF HistoryInv, RowsAreLogged
<1> QED BY <1>1, <1>2, <1>3

\* What the lemmas below need of the types and of IInv.
LEMMA ClientType ==
    ASSUME TypeOK, IInv, NEW c \in Clients
    PROVE  /\ IsHistory(snap[c]) /\ wm[c] \in Int /\ DOMAIN snap[c] \subseteq Int
           /\ TempOf(c) \in Nat \cup {NoTemp} /\ TempOf(c) \in Int
           /\ HistoryInv(snap[c], wm[c], c, TempOf(c))
           /\ IsHistory(db.snap[c]) /\ db.wm[c] \in Int /\ DOMAIN db.snap[c] \subseteq Int
           /\ HistoryInv(db.snap[c], db.wm[c], c, NoTemp)
           /\ c \in Nat /\ c # NoClient
<1>1. IsHistory(snap[c]) /\ wm[c] \in Int /\ IsHistory(db.snap[c]) /\ db.wm[c] \in Int
  BY DEF TypeOK, TablesOK
<1>2. TempOf(c) \in Nat \cup {NoTemp} /\ NoTemp \in Int
  BY DEF TypeOK, ProgressOK, TempOf, NoTemp
<1>3. c \in Nat /\ c # NoClient
  BY ClientsAssumption DEF NoClient
<1>4. /\ HistoryInv(snap[c], wm[c], c, TempOf(c))
      /\ HistoryInv(db.snap[c], db.wm[c], c, NoTemp)
  BY DEF IInv
<1> QED BY <1>1, <1>2, <1>3, <1>4 DEF IsHistory

\* There is no fourth case.
LEMMA ApplyCases ==
    ASSUME TypeOK, IInv, NEW l \in Lsns, NEW images, ApplyGuarded(l, images)
    PROVE  Skips(l) \/ FindsStale(l) \/ Records(l, images[l])
<1> DEFINE c == Wal[l].client
           H == snap[c]
           G == IF Wal[l].op = "delete" THEN ApplyDelete(H, l, Wal[l].commit_ts)
                ELSE ApplyUpsert(H, l, Wal[l].commit_ts, <<l, images[l]>>)
<1>1. c \in Clients /\ l \in Int /\ l > 0
  BY WalType
<1>2. IsHistory(H) /\ wm[c] \in Int /\ \A m \in DOMAIN H : m \in Int /\ (m <= 0 \/ m <= wm[c])
  BY <1>1, ClientType, RowsBelow
<1>3. wm \in [Clients -> Int] /\ snap = [d \in Clients |-> snap[d]]
  BY DEF TypeOK, TablesOK
<1>4. CASE l > wm[c] /\ snap' = [snap EXCEPT ![c] = G] /\ wm' = [wm EXCEPT ![c] = l]
           /\ quar' = quar /\ (Wal[l].op = "delete" => DOMAIN H # {})
  <2>1. \A m \in DOMAIN H : m < l
    BY <1>1, <1>2, <1>4
  <2>2. IsAppended(G, H, l, images[l])
    BY <1>2, <1>4, <2>1, AppendedVersion
  <2> HIDE DEF G
  <2>3. snap'[c] = G /\ wm'[c] = l
    BY <1>1, <1>3, <1>4
  <2>4. \A d \in Clients : d # c => snap'[d] = snap[d] /\ wm'[d] = wm[d]
    BY <1>3, <1>4
  <2> QED BY <1>4, <2>2, <2>3, <2>4 DEF Records
<1>5. CASE Wal[l].op = "delete" /\ DOMAIN H = {}
  BY <1>5 DEF ApplyGuarded, HasNoRow, Skips
<1>6. CASE ~ (Wal[l].op = "delete" /\ DOMAIN H = {})
  <2>1. ApplyCdcEvent(l, images)
    BY <1>6 DEF ApplyGuarded, HasNoRow
  <2>2. CASE l <= wm[c] /\ quar' = OneMore("stale_lsn", l) /\ UNCHANGED <<snap, wm>>
    BY <2>2 DEF FindsStale
  <2>3. CASE l > wm[c] /\ ~ UNCHANGED <<snap, wm>>
    <3>1. snap' = [snap EXCEPT ![c] = G] /\ wm' = [wm EXCEPT ![c] = l] /\ quar' = quar
      BY <1>1, <1>2, <2>1, <2>3 DEF ApplyCdcEvent
    <3> QED BY <1>4, <1>6, <2>3, <3>1
  <2> QED BY <1>4, <1>6, <2>1, <2>2 DEF ApplyCdcEvent
<1> QED BY <1>5, <1>6
----------------------------------------------------------------------------
(* The parts of LogInv about one history, as the statements change it.      *)

\* An appended version is its event's, has landed, has an anchor and is the
\* one the watermark names.
LEMMA AppendLogged ==
    ASSUME NEW H, IsHistory(H), NEW l \in Lsns, NEW image, NEW G, IsAppended(G, H, l, image),
           Wal[l].op = "delete" => DOMAIN H # {},
           NEW t, NEW f, NEW c, NEW layer,
           VersionsAreEvents(H, t), VersionsHaveLanded(H, t, layer), layer[l] # 0,
           Anchored(H, f, c)
    PROVE  /\ VersionsAreEvents(G, t) /\ VersionsHaveLanded(G, t, layer)
           /\ Anchored(G, f, c) /\ MarkIsNewest(G, l)
<1>1. /\ l \in Int /\ l > 0 /\ DOMAIN H \subseteq Int
      /\ \A m \in DOMAIN H : m < l
      /\ DOMAIN G = DOMAIN H \cup {l}
  BY WalType DEF IsHistory, IsAppended
<1>2. ASSUME NEW m \in DOMAIN G, m > 0, m # t
      PROVE  /\ G[m].is_deleted = (Wal[m].op = "delete")
             /\ IF Wal[m].op = "delete"
                THEN \A k \in Predecessor(G, m) : G[m].attrs = G[k].attrs
                ELSE G[m].attrs[1] = m
  <2>1. CASE m = l
    <3>1. Below(G, l) = DOMAIN H
      BY <1>1 DEF Below
    <3>2. Predecessor(G, l) = Newest(H)
      BY <3>1 DEF Predecessor, Newest
    <3>3. \A k \in Newest(H) : k \in DOMAIN H /\ G[k].attrs = H[k].attrs
      BY DEF Newest, IsAppended
    <3> QED BY <2>1, <3>2, <3>3 DEF IsAppended
  <2>2. CASE m \in DOMAIN H
    <3>1. Below(G, m) = Below(H, m)
      BY <1>1, <2>2 DEF Below
    <3>2. Predecessor(G, m) = Predecessor(H, m) /\ Predecessor(H, m) \subseteq DOMAIN H
      BY <3>1 DEF Predecessor, Below
    <3> QED BY <1>2, <2>2, <3>2 DEF VersionsAreEvents, IsAppended
  <2> QED BY <1>1, <2>1, <2>2
<1>3. VersionsHaveLanded(G, t, layer)
  BY <1>1 DEF VersionsHaveLanded
<1>4. ASSUME FactsOf(f, c) = {}, NEW m \in DOMAIN G
      PROVE  \E o \in DOMAIN G : o <= m /\ (o <= 0 \/ Wal[o].op # "delete")
  <2>1. ASSUME NEW n \in DOMAIN H, n <= m
        PROVE  \E o \in DOMAIN G : o <= m /\ (o <= 0 \/ Wal[o].op # "delete")
    <3>1. PICK o \in DOMAIN H : o <= n /\ (o <= 0 \/ Wal[o].op # "delete")
      BY <1>4 DEF Anchored
    <3>2. o \in DOMAIN G /\ o <= m
      BY <1>1, <2>1, <3>1
    <3> QED BY <3>1, <3>2
  <2>2. CASE m \in DOMAIN H
    BY <1>1, <2>1, <2>2
  <2>3. CASE m = l /\ Wal[l].op # "delete"
    BY <1>1, <2>3
  <2>4. CASE m = l /\ Wal[l].op = "delete"
    <3>1. PICK n \in DOMAIN H : n <= m
      BY <1>1, <2>4
    <3> QED BY <2>1, <3>1
  <2> QED BY <1>1, <2>2, <2>3, <2>4
<1>5. MarkIsNewest(G, l)
  BY <1>1 DEF MarkIsNewest, Newest
<1> QED BY <1>2, <1>3, <1>4, <1>5 DEF VersionsAreEvents, Anchored

\* A history without changes is in order whatever its rows are.
LEMMA NoChangesLogged ==
    ASSUME NEW H, \A l \in DOMAIN H : l \in Int /\ l <= 0
    PROVE  \A t, f, c, layer : /\ VersionsAreEvents(H, t) /\ VersionsHaveLanded(H, t, layer)
                               /\ Anchored(H, f, c)
BY DEF VersionsAreEvents, VersionsHaveLanded, Anchored

\* The rows a reset keeps keep their columns, their predecessors and their
\* anchors.
LEMMA ResetLogged ==
    ASSUME NEW H, IsHistory(H), NEW from \in Int, NEW t, NEW f, NEW c, NEW layer,
           VersionsAreEvents(H, t), VersionsHaveLanded(H, t, layer), Anchored(H, f, c)
    PROVE  /\ VersionsAreEvents(ResetFrom(H, from), t)
           /\ VersionsHaveLanded(ResetFrom(H, from), t, layer)
           /\ Anchored(ResetFrom(H, from), f, c)
<1> DEFINE G == ResetFrom(H, from)
<1>1. DOMAIN H \subseteq Int /\ DOMAIN G = Below(H, from)
  BY DEF IsHistory, ResetFrom
<1>2. \A m \in DOMAIN G : /\ m \in DOMAIN H /\ m < from
                          /\ G[m].attrs = H[m].attrs /\ G[m].is_deleted = H[m].is_deleted
  BY <1>1 DEF ResetFrom, Below, IsHistory, Version
<1>3. \A m \in DOMAIN H : m < from => m \in DOMAIN G
  BY <1>1 DEF Below
<1> HIDE DEF G
<1>4. ASSUME NEW m \in DOMAIN G, m > 0, m # t
      PROVE  /\ G[m].is_deleted = (Wal[m].op = "delete")
             /\ IF Wal[m].op = "delete"
                THEN \A k \in Predecessor(G, m) : G[m].attrs = G[k].attrs
                ELSE G[m].attrs[1] = m
  <2>1. Below(G, m) = Below(H, m)
    BY <1>1, <1>2, <1>3 DEF Below
  <2>2. Predecessor(G, m) = Predecessor(H, m) /\ Predecessor(G, m) \subseteq DOMAIN G
    BY <2>1 DEF Predecessor, Below
  <2> QED BY <1>2, <1>4, <2>2 DEF VersionsAreEvents
<1>5. VersionsHaveLanded(G, t, layer)
  BY <1>2 DEF VersionsHaveLanded
<1>6. ASSUME FactsOf(f, c) = {}, NEW m \in DOMAIN G
      PROVE  \E o \in DOMAIN G : o <= m /\ (o <= 0 \/ Wal[o].op # "delete")
  <2>1. PICK o \in DOMAIN H : o <= m /\ (o <= 0 \/ Wal[o].op # "delete")
    BY <1>2, <1>6 DEF Anchored
  <2>2. o < from
    BY <1>1, <1>2, <2>1
  <2> QED BY <1>3, <2>1, <2>2
<1> QED BY <1>4, <1>5, <1>6 DEF VersionsAreEvents, Anchored, G
\* The placeholder is deleted from the old end: no version has another
\* predecessor than before, and the newest row is no other.
LEMMA FinishLogged ==
    ASSUME NEW H, IsHistory(H), NEW t \in Nat \cup {NoTemp}, \A m \in DOMAIN H : t # NoTemp => t <= m,
           NEW f, NEW c, NEW w, NEW layer,
           VersionsAreEvents(H, t), VersionsHaveLanded(H, t, layer),
           t # NoTemp => FactsOf(f, c) # {}, Anchored(H, f, c),
           MarkIsNewest(H, w), w # t
    PROVE  /\ VersionsAreEvents(Delete(H, {t} \ {NoTemp}), NoTemp)
           /\ VersionsHaveLanded(Delete(H, {t} \ {NoTemp}), NoTemp, layer)
           /\ Anchored(Delete(H, {t} \ {NoTemp}), f, c)
           /\ MarkIsNewest(Delete(H, {t} \ {NoTemp}), w)
<1> DEFINE G == Delete(H, {t} \ {NoTemp})
<1>1. DOMAIN H \subseteq Int /\ t \in Int /\ ~ (NoTemp > 0)
  BY DEF IsHistory, NoTemp
<1>2. DOMAIN G = DOMAIN H \ ({t} \ {NoTemp}) /\ \A m \in DOMAIN G : G[m] = H[m]
  BY DEF Delete
<1> HIDE DEF G
<1>3. \A m \in DOMAIN G : m > 0 => m # t
  BY <1>1, <1>2
<1>4. ASSUME NEW m \in DOMAIN G, NEW k \in Predecessor(G, m)
      PROVE  k \in Predecessor(H, m)
  <2>1. k \in Below(H, m) /\ \A n \in Below(H, m) : n \in DOMAIN G => n <= k
    BY <1>2 DEF Predecessor, Below
  <2>2. \A n \in DOMAIN H : n \notin DOMAIN G => n <= k
    BY <1>2, <2>1 DEF Below
  <2> QED BY <2>1, <2>2 DEF Predecessor, Below
<1>5. VersionsAreEvents(G, NoTemp) /\ VersionsHaveLanded(G, NoTemp, layer)
  <2> SUFFICES ASSUME NEW m \in DOMAIN G, m > 0
               PROVE  /\ G[m].is_deleted = (Wal[m].op = "delete")
                      /\ IF Wal[m].op = "delete"
                         THEN \A k \in Predecessor(G, m) : G[m].attrs = G[k].attrs
                         ELSE G[m].attrs[1] = m
                      /\ layer[m] # 0
    BY DEF VersionsAreEvents, VersionsHaveLanded
  <2>1. m \in DOMAIN H /\ m # t
    BY <1>2, <1>3
  <2>2. \A k \in Predecessor(G, m) : k \in DOMAIN G /\ k \in Predecessor(H, m)
    BY <1>4 DEF Predecessor, Below
  <2> QED BY <1>2, <2>1, <2>2 DEF VersionsAreEvents, VersionsHaveLanded
<1>6. Anchored(G, f, c)
  BY <1>2 DEF Anchored
<1>7. MarkIsNewest(G, w)
  BY <1>2 DEF MarkIsNewest, Newest
<1> QED BY <1>5, <1>6, <1>7 DEF G

----------------------------------------------------------------------------
(* Outside a client's reload LogInv says that the tables the transaction    *)
(* works on are in step with the log, like the committed ones, and hold all *)
(* that is committed.                                                      *)

\* Between two clients of a reload, and in every other load.
LEMMA LoggedOutsideReload ==
    ASSUME LogInv, client = NoClient
    PROVE  /\ TablesLogged(snap, wm, fact, raw)
           /\ \A c \in Clients : Real(db.snap[c]) \subseteq DOMAIN snap[c]
<1>1. \A c \in Clients : c # NoClient
  BY ClientsAssumption DEF NoClient
<1>2. \A c \in Clients : TempOf(c) = NoTemp
  BY <1>1 DEF TempOf
<1>3. ASSUME NEW c \in Clients PROVE MarkIsNewest(snap[c], wm[c])
  <2>1. MarkSoFar(c)
    BY DEF LogInv, HistoriesLogged
  <2> QED BY <1>1, <2>1 DEF MarkSoFar, MarkIsNewest
<1>4. \A c \in Clients : Real(db.snap[c]) \subseteq DOMAIN snap[c]
  BY <1>1 DEF LogInv, NoneForgotten, RecordedSoFar
<1> QED
  BY <1>2, <1>3, <1>4 DEF LogInv, HistoriesLogged, PinsLogged, Reloading, TablesLogged

\* The other way around, for the state a step leads to.
LEMMA LogInvOutsideReload ==
    ASSUME client' = NoClient, LayersInOrder', ListsInOrder', CommittedLogged',
           TablesLogged(snap', wm', fact', raw'),
           \A c \in Clients : Real(db'.snap[c]) \subseteq DOMAIN snap'[c]
    PROVE  LogInv'
<1>1. \A c \in Clients : c # NoClient
  BY ClientsAssumption DEF NoClient
<1>2. \A c \in Clients : TempOf(c)' = NoTemp
  BY <1>1 DEF TempOf
<1>3. ASSUME NEW c \in Clients PROVE MarkSoFar(c)'
  <2>1. MarkIsNewest(snap'[c], wm'[c])
    BY DEF TablesLogged
  <2> QED BY <1>2, <2>1 DEF MarkSoFar, MarkIsNewest, NoTemp
<1>4. HistoriesLogged'
  BY <1>2, <1>3 DEF HistoriesLogged, TablesLogged
<1>5. NoneForgotten'
  <2> SUFFICES ASSUME NEW c \in Clients, NEW l \in Real(db'.snap[c])
               PROVE  RecordedSoFar(c, l)'
    BY DEF NoneForgotten
  <2>1. l # NoTemp
    BY DEF Real, NoTemp
  <2> QED BY <1>2, <2>1 DEF RecordedSoFar
<1>6. PinsLogged' /\ WaitingFacts'
  BY DEF PinsLogged, WaitingFacts, Reloading, TablesLogged
<1> QED BY <1>4, <1>5, <1>6 DEF LogInv
\* A layer that keeps its rows leaves tables in step with the log.
LEMMA LaterLayer ==
    ASSUME NEW S, NEW w, NEW f, NEW layer, NEW later, TablesLogged(S, w, f, layer),
           \A c \in Clients : \A l \in DOMAIN S[c] : l > 0 => l \in Lsns,
           \A l \in Lsns : layer[l] # 0 => later[l] # 0
    PROVE  TablesLogged(S, w, f, later)
BY DEF TablesLogged, VersionsHaveLanded

\* So what is committed stays in step until the next commit.
LEMMA CommittedKept ==
    ASSUME TypeOK, IInv, CommittedLogged, db' = db,
           \A l \in Lsns : raw[l] # 0 => raw'[l] # 0
    PROVE  CommittedLogged'
<1>1. ASSUME NEW c \in Clients, NEW l \in DOMAIN db.snap[c], l > 0 PROVE l \in Lsns
  <2>1. HistoryInv(db.snap[c], db.wm[c], c, NoTemp)
    BY ClientType
  <2> QED BY <1>1, <2>1 DEF HistoryInv, RowsAreLogged, NoTemp
<1> QED BY <1>1, LaterLayer DEF CommittedLogged

\* The source system and the first two layers lose nothing they held.
LEMMA SourceStepLogInv ==
    ASSUME TypeOK, IInv, LogInv, job = "idle", UNCHANGED <<tables, db, job, progress>>,
           LayersInOrder', \A l \in Lsns : raw[l] # 0 => raw'[l] # 0
    PROVE  LogInv'
<1>1. client = NoClient /\ client' = NoClient
  BY DEF IInv, progress
<1>2. ListsInOrder'
  BY <1>1 DEF LogInv, ListsInOrder, Reloading, progress
<1>3. CommittedLogged'
  BY CommittedKept DEF LogInv
<1>4. ASSUME NEW c \in Clients, NEW l \in DOMAIN snap[c], l > 0 PROVE l \in Lsns
  <2>1. HistoryInv(snap[c], wm[c], c, NoTemp)
    BY <1>1 DEF IInv, TempOf
  <2> QED BY <1>4, <2>1 DEF HistoryInv, RowsAreLogged, NoTemp
<1>5. TablesLogged(snap, wm, fact, raw')
  BY <1>1, <1>4, LoggedOutsideReload, LaterLayer
<1> QED BY <1>1, <1>2, <1>3, <1>5, LoggedOutsideReload, LogInvOutsideReload DEF tables

\* A step of a load that is no reload of a client, with the tables it leaves.
LEMMA LoadStepLogInv ==
    ASSUME TypeOK, IInv, LogInv, UNCHANGED <<sources, db>>, client' = NoClient, ListsInOrder',
           TablesLogged(snap', wm', fact', raw),
           \A c \in Clients : Real(db.snap[c]) \subseteq DOMAIN snap'[c]
    PROVE  LogInv'
<1>1. LayersInOrder' /\ CommittedLogged' /\ raw' = raw
  BY CommittedKept DEF LogInv, LayersInOrder, sources
<1> QED BY <1>1, LogInvOutsideReload

\* A rollback returns to the committed tables.
LEMMA UndoLogInv ==
    ASSUME TypeOK, IInv, LogInv, Undo
    PROVE  LogInv'
<1>1. ListsInOrder'
  BY DEF Undo, ListsInOrder, Reloading
<1> QED BY <1>1, LoadStepLogInv DEF Undo, LogInv, CommittedLogged, Real

\* A commit leaves the tables the transaction worked on.
LEMMA CommitLogInv ==
    ASSUME TypeOK, IInv, LogInv, Commit
    PROVE  LogInv'
<1>1. client = NoClient /\ client' = NoClient
  BY DEF IInv, Commit, Finished
<1>2. /\ db'.snap = snap /\ db'.wm = wm /\ db'.fact = fact
      /\ UNCHANGED <<snap, wm, fact, raw>>
  BY DEF Commit, Tables, tables, sources
<1>3. LayersInOrder'
  BY DEF LogInv, LayersInOrder, Commit, sources
<1>4. ListsInOrder'
  BY <1>1 DEF LogInv, ListsInOrder, Reloading, Commit, Finished
<1> QED
  BY <1>1, <1>2, <1>3, <1>4, LoggedOutsideReload, LogInvOutsideReload
     DEF CommittedLogged, Real

\* A streaming apply, row by row.
LEMMA ApplyRowLogInv ==
    ASSUME TypeOK, IInv, LogInv, NEW l \in Lsns, ApplyRow(l)
    PROVE  LogInv'
<1> DEFINE c == Wal[l].client
<1>1. client = NoClient /\ client' = NoClient /\ fact' = fact
  BY DEF IInv, ApplyRow
<1>2. /\ TablesLogged(snap, wm, fact, raw)
      /\ \A d \in Clients : Real(db.snap[d]) \subseteq DOMAIN snap[d]
  BY <1>1, LoggedOutsideReload
<1>3. ListsInOrder'
  BY <1>1 DEF LogInv, ListsInOrder, Reloading, ApplyRow, sources
<1>4. raw[l] # 0
  BY DEF LogInv, LayersInOrder, ListsInOrder, ApplyRow
<1>5. CASE UNCHANGED <<snap, wm>>
  BY <1>1, <1>2, <1>3, <1>5, LoadStepLogInv DEF ApplyRow
<1>6. CASE Records(l, staged[l])
  <2> DEFINE H == snap[c]
             G == snap'[c]
  <2>1. c \in Clients /\ IsHistory(H)
    BY WalType, ClientType
  <2>2. IsAppended(G, H, l, staged[l]) /\ (Wal[l].op = "delete" => DOMAIN H # {})
    BY <1>6 DEF Records
  <2>3. /\ VersionsAreEvents(G, NoTemp) /\ VersionsHaveLanded(G, NoTemp, raw)
        /\ Anchored(G, fact, c) /\ MarkIsNewest(G, l)
    BY <1>2, <1>4, <2>1, <2>2, AppendLogged DEF TablesLogged
  <2>4. wm'[c] = l /\ \A d \in Clients : d # c => snap'[d] = snap[d] /\ wm'[d] = wm[d]
    BY <1>6 DEF Records
  <2>5. \A d \in Clients : DOMAIN snap[d] \subseteq DOMAIN snap'[d]
    BY <2>2, <2>4 DEF IsAppended
  <2>6. \A x \in DOMAIN fact : FactRow[x].client \in Clients
    BY OtherInputsAssumption DEF TypeOK, TablesOK
  <2>7. PinsHaveRows(snap', fact')
    BY <1>1, <1>2, <2>5, <2>6 DEF PinsHaveRows, TablesLogged
  <2>8. TablesLogged(snap', wm', fact', raw)
    <3>1. ASSUME NEW d \in Clients
          PROVE  /\ VersionsAreEvents(snap'[d], NoTemp)
                 /\ VersionsHaveLanded(snap'[d], NoTemp, raw)
                 /\ Anchored(snap'[d], fact, d) /\ MarkIsNewest(snap'[d], wm'[d])
      BY <1>2, <2>3, <2>4 DEF TablesLogged
    <3> QED BY <1>1, <1>2, <2>7, <3>1 DEF TablesLogged
  <2> QED BY <1>1, <1>2, <1>3, <2>5, <2>8, LoadStepLogInv DEF ApplyRow
<1> QED BY <1>5, <1>6, ApplyCases DEF ApplyRow, Skips, FindsStale
\* A loaded fact's client is a client, and the fact's date a natural.
LEMMA FactRowType ==
    ASSUME TypeOK
    PROVE  /\ \A x \in Facts : FactRow[x].client \in Clients /\ FactRow[x].event_ts \in Int
           /\ DOMAIN fact \subseteq Facts /\ DOMAIN db.fact \subseteq Facts
BY OtherInputsAssumption DEF TypeOK, TablesOK

\* A seed touches only clients without changes, which have no watermark, and
\* takes the facts of the rows it deletes to the baseline.
LEMMA SeedLogInv ==
    ASSUME TypeOK, IInv, LogInv, NEW c \in Clients, NEW attrs, SeedBaseline(c, attrs),
           job \in {"seed", "orphans"}, UNCHANGED <<sources, wm, db, client>>, ListsInOrder'
    PROVE  LogInv'
<1> DEFINE H == snap[c]
<1>1. client = NoClient /\ client' = NoClient
  BY DEF IInv
<1>2. /\ TablesLogged(snap, wm, fact, raw)
      /\ \A d \in Clients : Real(db.snap[d]) \subseteq DOMAIN snap[d]
  BY <1>1, LoggedOutsideReload
<1>3. CASE UNCHANGED <<snap, fact>>
  BY <1>1, <1>2, <1>3, LoadStepLogInv
<1>4. CASE /\ \A l \in DOMAIN H : l <= 0
           /\ snap' = [snap EXCEPT ![c] = Delete(Insert(@, 0, BaselineRow(attrs)), Stopgaps(c))]
           /\ fact' = Repointed(FactsOn(c, Stopgaps(c)), 0)
  <2> DEFINE G == Delete(Insert(H, 0, BaselineRow(attrs)), Stopgaps(c))
  <2>1. DOMAIN H \subseteq Int
    BY ClientType
  <2>2. DOMAIN G = {0}
    BY <1>4, <2>1 DEF Delete, Insert, Stopgaps
  <2> HIDE DEF G
  <2>3. snap'[c] = G /\ \A d \in Clients : d # c => snap'[d] = snap[d]
    BY <1>4 DEF TypeOK, TablesOK, G
  <2>4. MarkIsNewest(G, wm[c])
    <3>1. MarkIsNewest(H, wm[c])
      BY <1>2 DEF TablesLogged
    <3>2. wm[c] \notin Newest(H) \/ ~ (wm[c] > 0)
      BY <1>4, <2>1 DEF Newest
    <3> QED BY <3>1, <3>2 DEF MarkIsNewest
  <2>5. /\ DOMAIN fact' = DOMAIN fact
        /\ \A x \in DOMAIN fact :
              fact'[x] = IF FactRow[x].client = c /\ fact[x] \in Stopgaps(c) THEN 0 ELSE fact[x]
    BY <1>4 DEF Repointed, FactsOn
  <2>6. PinsHaveRows(snap', fact')
    <3> SUFFICES ASSUME NEW x \in DOMAIN fact
                 PROVE  fact'[x] \in DOMAIN snap'[FactRow[x].client]
      BY <2>5 DEF PinsHaveRows
    <3>1. fact[x] \in DOMAIN snap[FactRow[x].client] /\ FactRow[x].client \in Clients
      BY <1>2, FactRowType DEF TablesLogged, PinsHaveRows
    <3>2. CASE FactRow[x].client # c
      BY <2>3, <2>5, <3>1, <3>2
    <3>3. CASE FactRow[x].client = c
      <4>1. fact[x] < 0 \/ fact[x] = 0
        BY <1>4, <2>1, <3>1, <3>3
      <4>2. fact[x] < 0 => fact[x] \in Stopgaps(c)
        BY <3>1, <3>3 DEF Stopgaps
      <4> QED BY <2>2, <2>3, <2>5, <3>3, <4>1, <4>2
    <3> QED BY <3>2, <3>3
  <2>7. \A x \in DOMAIN fact' : DatedPin(x, fact'[x])
    BY <1>2, <2>5 DEF TablesLogged, DatedPin
  <2>8. ASSUME NEW d \in Clients
        PROVE  /\ VersionsAreEvents(snap'[d], NoTemp) /\ VersionsHaveLanded(snap'[d], NoTemp, raw)
               /\ Anchored(snap'[d], fact', d) /\ MarkIsNewest(snap'[d], wm'[d])
    <3>1. CASE d = c
      BY <2>2, <2>3, <2>4, <3>1, NoChangesLogged
    <3>2. CASE d # c
      <4>1. FactsOf(fact', d) = FactsOf(fact, d)
        BY <2>5 DEF FactsOf
      <4> QED BY <1>2, <2>3, <3>2, <4>1 DEF TablesLogged, Anchored
    <3> QED BY <3>1, <3>2
  <2>9. TablesLogged(snap', wm', fact', raw)
    BY <2>6, <2>7, <2>8 DEF TablesLogged
  <2>10. \A d \in Clients : Real(db.snap[d]) \subseteq DOMAIN snap'[d]
    <3>1. ASSUME NEW l \in Real(db.snap[c]) PROVE l \in DOMAIN snap'[c]
      <4>1. l \in DOMAIN H /\ l >= 0
        BY <1>2 DEF Real
      <4> QED BY <1>4, <2>1, <2>2, <2>3, <4>1
    <3> QED BY <1>2, <2>3, <3>1
  <2> QED BY <1>1, <2>9, <2>10, LoadStepLogInv
<1> QED BY <1>3, <1>4 DEF SeedBaseline

\* A version covers no date before its event or from '9999-12-31' on.
LEMMA CoveringDated ==
    ASSUME NEW H, NEW w, NEW c, NEW t \in Nat \cup {NoTemp}, IsHistory(H), HistoryInv(H, w, c, t),
           NEW ts \in Int, NEW l \in Covering(H, ts), l > 0, l # t
    PROVE  Wal[l].commit_ts <= ts /\ ts < Forever
<1>1. /\ l \in DOMAIN H /\ l \in Int /\ DOMAIN H \subseteq Int /\ t \in Int
      /\ H[l].valid_from <= ts /\ ts < H[l].valid_to
  BY DEF IsHistory, Covering, NoTemp
<1>2. l \in Lsns /\ Wal[l].commit_ts <= ts
  BY <1>1 DEF HistoryInv, RowsAreLogged
<1>3. CASE H[l].is_current
  BY <1>1, <1>2, <1>3 DEF HistoryInv, Tiled
<1>4. CASE ~ H[l].is_current
  <2>1. PICK m \in DOMAIN H : Adjacent(H, l, m) /\ H[l].valid_to = H[m].valid_from
    BY <1>1, <1>4 DEF HistoryInv, Tiled
  <2>2. m > 0 /\ m \in Int
    BY <1>1, <2>1 DEF Adjacent
  <2>3. m # t
    BY <1>1, <2>1, <2>2 DEF Adjacent, HistoryInv, PlaceholderIsOldest, NoTemp
  <2>4. m \in Lsns /\ H[m].valid_from = Wal[m].commit_ts
    BY <2>2, <2>3 DEF HistoryInv, RowsAreLogged
  <2>5. Wal[m].commit_ts < Forever /\ Wal[m].commit_ts \in Int
    BY <2>4, WalType, WalAssumption
  <2>6. Forever \in Int
    BY ForeverAssumption
  <2> QED BY <1>1, <1>2, <2>1, <2>4, <2>5, <2>6
<1> QED BY <1>3, <1>4

\* A fact pinned to a version that covers its date is not older than it.
LEMMA CoveringPin ==
    ASSUME TypeOK, IInv, NEW x \in Facts, NEW l \in CoveringFact(x), l # TempOf(FactRow[x].client)
    PROVE  DatedPin(x, l)
<1> DEFINE c == FactRow[x].client
           ts == FactRow[x].event_ts
           H == snap[c]
           w == wm[c]
           t == TempOf(c)
<1>1. c \in Clients /\ ts \in Int
  BY FactRowType
<1>2. IsHistory(H) /\ HistoryInv(H, w, c, t) /\ t \in Nat \cup {NoTemp} /\ l \in Covering(H, ts)
  BY <1>1, ClientType DEF CoveringFact
<1> HIDE DEF H, w, t, ts
<1>3. l > 0 => Wal[l].commit_ts <= ts /\ ts < Forever
  BY <1>1, <1>2, CoveringDated DEF t
<1> QED BY <1>3 DEF DatedPin, ts

\* Loading a fact on a version moves no other.
LEMMA LoadFactLogInv ==
    ASSUME TypeOK, IInv, LogInv, NEW x \in Facts, LoadFact(x)
    PROVE  LogInv'
<1> DEFINE c == FactRow[x].client
<1>1. client = NoClient /\ client' = NoClient /\ UNCHANGED <<snap, wm>>
  BY DEF IInv, LoadFact
<1>2. /\ TablesLogged(snap, wm, fact, raw)
      /\ \A d \in Clients : Real(db.snap[d]) \subseteq DOMAIN snap[d]
  BY <1>1, LoggedOutsideReload
<1>3. PICK l \in CoveringFact(x) : fact' = Upserted(x, l)
  BY DEF LoadFact
<1>4. /\ DOMAIN fact' = DOMAIN fact \cup {x}
      /\ \A y \in DOMAIN fact' : fact'[y] = IF y = x THEN l ELSE fact[y]
  BY <1>3 DEF Upserted
<1>5. l \in DOMAIN snap[c]
  BY <1>3 DEF CoveringFact, Covering
<1>6. DatedPin(x, l)
  <2>1. l > 0 => l # TempOf(c)
    BY <1>1, FactRowType, ClientType DEF TempOf, NoTemp
  <2> QED BY <1>3, <2>1, CoveringPin DEF DatedPin
<1>7. \A d \in Clients : Anchored(snap[d], fact', d)
  BY <1>2, <1>4 DEF TablesLogged, Anchored, FactsOf
<1>8. TablesLogged(snap', wm', fact', raw)
  BY <1>1, <1>2, <1>4, <1>5, <1>6, <1>7 DEF TablesLogged, PinsHaveRows
<1>9. ListsInOrder'
  BY <1>1 DEF LogInv, ListsInOrder, Reloading, LoadFact, sources
<1> QED BY <1>1, <1>2, <1>8, <1>9, LoadStepLogInv DEF LoadFact

\* A stopgap goes below all rows of a client without real ones.
LEMMA StopgapLogInv ==
    ASSUME TypeOK, IInv, LogInv, NEW x \in Facts, LoadFactOnStopgap(x)
    PROVE  LogInv'
<1> DEFINE c == FactRow[x].client
           H == snap[c]
<1>1. client = NoClient /\ client' = NoClient /\ wm' = wm
  BY DEF IInv, LoadFactOnStopgap
<1>2. /\ TablesLogged(snap, wm, fact, raw)
      /\ \A d \in Clients : Real(db.snap[d]) \subseteq DOMAIN snap[d]
  BY <1>1, LoggedOutsideReload
<1>3. c \in Clients /\ IsHistory(H) /\ DOMAIN H \subseteq Int /\ Tiled(H)
  BY FactRowType, ClientType DEF HistoryInv
<1>4. \A l \in DOMAIN H : l < 0
  BY <1>3 DEF LoadFactOnStopgap, HasReal
<1>5. PICK lsn \in StopgapLsns(H) :
          /\ snap' = [snap EXCEPT ![c] = Insert(@, lsn, StopgapRow(FactRow[x].event_ts))]
          /\ fact' = Upserted(x, lsn)
  BY DEF LoadFactOnStopgap
<1> DEFINE G == Insert(H, lsn, StopgapRow(FactRow[x].event_ts))
<1>6. lsn \in Int /\ lsn < 0 /\ DOMAIN G = DOMAIN H \cup {lsn}
  BY <1>3, <1>4, StopgapTiled DEF Insert
<1> HIDE DEF G
<1>7. snap'[c] = G /\ \A d \in Clients : d # c => snap'[d] = snap[d]
  BY <1>3, <1>5 DEF TypeOK, TablesOK, G
<1>8. /\ DOMAIN fact' = DOMAIN fact \cup {x}
      /\ \A y \in DOMAIN fact' : fact'[y] = IF y = x THEN lsn ELSE fact[y]
  BY <1>5 DEF Upserted
<1>9. MarkIsNewest(G, wm[c])
  <2>1. MarkIsNewest(H, wm[c])
    BY <1>2, <1>3 DEF TablesLogged
  <2>2. ~ (wm[c] \in Newest(H) /\ wm[c] > 0)
    BY <1>3, <1>4 DEF Newest
  <2> QED BY <2>1, <2>2 DEF MarkIsNewest
<1>10. ASSUME NEW d \in Clients
       PROVE  /\ VersionsAreEvents(snap'[d], NoTemp) /\ VersionsHaveLanded(snap'[d], NoTemp, raw)
              /\ Anchored(snap'[d], fact', d) /\ MarkIsNewest(snap'[d], wm'[d])
  <2>1. CASE d = c
    <3>1. \A l \in DOMAIN G : l \in Int /\ l <= 0
      BY <1>3, <1>4, <1>6
    <3> QED BY <1>1, <1>7, <1>9, <2>1, <3>1, NoChangesLogged
  <2>2. CASE d # c
    <3>1. FactsOf(fact', d) = FactsOf(fact, d)
      BY <1>8, <2>2 DEF FactsOf
    <3> QED BY <1>1, <1>2, <1>7, <2>2, <3>1 DEF TablesLogged, Anchored
  <2> QED BY <2>1, <2>2
<1>11. \A d \in Clients : DOMAIN snap[d] \subseteq DOMAIN snap'[d]
  BY <1>6, <1>7
<1>12. PinsHaveRows(snap', fact')
  <2>1. \A y \in DOMAIN fact : FactRow[y].client \in Clients
    BY FactRowType
  <2> QED BY <1>2, <1>6, <1>7, <1>8, <1>11, <2>1 DEF TablesLogged, PinsHaveRows
<1>13. \A y \in DOMAIN fact' : DatedPin(y, fact'[y])
  BY <1>2, <1>6, <1>8 DEF TablesLogged, DatedPin
<1>14. TablesLogged(snap', wm', fact', raw)
  BY <1>10, <1>12, <1>13 DEF TablesLogged
<1>15. ListsInOrder'
  BY <1>1 DEF LogInv, ListsInOrder, Reloading, LoadFactOnStopgap, sources
<1>16. \A d \in Clients : Real(db.snap[d]) \subseteq DOMAIN snap'[d]
  BY <1>2, <1>11
<1> QED BY <1>1, <1>14, <1>15, <1>16, LoadStepLogInv DEF LoadFactOnStopgap
----------------------------------------------------------------------------
(* The reload of a client.                                                 *)

\* The rows and the facts of a client after its reset.
ResetTo(G, H, f, c, from) ==
    LET moved == FactsOn(c, Doomed(c, from)) IN
    /\ VersionsAreEvents(G, temp') /\ VersionsHaveLanded(G, temp', raw) /\ Anchored(G, f, c)
    /\ \A l \in Below(H, from) : /\ l \in DOMAIN G /\ (l >= 0 => l # temp')
                                 /\ SameVersion(G[l], H[l])
    /\ \A l \in DOMAIN G : l < from /\ (l \in DOMAIN H \/ (l = temp' /\ temp' # NoTemp))
    /\ temp' < from
    /\ DOMAIN G = {} => moved = {}
    /\ temp' # NoTemp => temp' \in DOMAIN G /\ moved # {} /\ Below(H, from) = {}
    /\ left' = moved
    /\ DOMAIN f = DOMAIN fact
    /\ \A x \in DOMAIN fact : IF x \in moved THEN f[x] \in DOMAIN G ELSE f[x] = fact[x]

\* Whether or not facts have to be moved, and whether or not a row is left
\* to move them to.
LEMMA ResetEffect ==
    ASSUME TypeOK, IInv, LogInv, client = NoClient, NEW c \in Clients, NEW from \in Lsns,
           RepointForReset(c, from)
    PROVE  /\ ResetTo(snap'[c], snap[c], fact', c, from)
           /\ \A d \in Clients : d # c => snap'[d] = snap[d]
<1> DEFINE H == snap[c]
           moved == FactsOn(c, Doomed(c, from))
           kept == Below(H, from)
           G == ResetFrom(H, from)
<1>1. /\ IsHistory(H) /\ DOMAIN H \subseteq Int /\ from \in Int /\ from > 0 /\ from - 1 \in Int
      /\ temp = NoTemp /\ ~ (NoTemp \in Nat)
  BY ClientType, WalType DEF IInv, NoTemp
<1>2. VersionsAreEvents(H, NoTemp) /\ VersionsHaveLanded(H, NoTemp, raw) /\ Anchored(H, fact, c)
  BY LoggedOutsideReload DEF TablesLogged
<1>3. /\ VersionsAreEvents(G, NoTemp) /\ VersionsHaveLanded(G, NoTemp, raw)
      /\ Anchored(G, fact, c)
  BY <1>1, <1>2, ResetLogged
<1>4. DOMAIN G = kept /\ kept = {l \in DOMAIN H : l < from}
  BY DEF ResetFrom, Below
<1> HIDE DEF G
<1>5. ASSUME moved \subseteq DOMAIN fact, NEW to, NEW f, f = Repointed(moved, to)
      PROVE  /\ DOMAIN f = DOMAIN fact
             /\ \A x \in DOMAIN fact : f[x] = IF x \in moved THEN to ELSE fact[x]
             /\ \A S : Anchored(S, fact, c) => Anchored(S, f, c)
  BY <1>5 DEF Repointed, Anchored, FactsOf
<1>6. moved \subseteq DOMAIN fact
  BY DEF FactsOn
<1>7. ASSUME temp' = NoTemp, snap' = [snap EXCEPT ![c] = ResetFrom(@, from)],
             NEW f, f = fact', left' = moved, DOMAIN f = DOMAIN fact, Anchored(G, f, c),
             kept = {} => moved = {},
             \A x \in DOMAIN fact : IF x \in moved THEN f[x] \in kept ELSE f[x] = fact[x]
      PROVE  /\ ResetTo(snap'[c], snap[c], fact', c, from)
             /\ \A d \in Clients : d # c => snap'[d] = snap[d]
  <2>1. snap'[c] = G /\ \A d \in Clients : d # c => snap'[d] = snap[d]
    BY <1>7 DEF TypeOK, TablesOK, G
  <2>2. NoTemp < from /\ \A l \in kept : l < from /\ (l >= 0 => l # NoTemp)
    BY <1>1, <1>4 DEF NoTemp
  <2>3. ASSUME NEW l \in kept PROVE SameVersion(G[l], H[l])
    <3>1. G[l] = H[l] \/ G[l] = [H[l] EXCEPT !.is_current = TRUE, !.valid_to = Forever]
      BY DEF G, ResetFrom
    <3>2. H[l] \in Version
      BY <1>1, <1>4 DEF IsHistory
    <3> QED BY <3>1, <3>2 DEF Version, SameVersion
  <2> QED BY <1>3, <1>4, <1>7, <2>1, <2>2, <2>3 DEF ResetTo
<1>8. CASE moved = {} /\ snap' = [snap EXCEPT ![c] = ResetFrom(@, from)]
           /\ left' = {} /\ UNCHANGED <<fact, temp>>
  BY <1>1, <1>3, <1>7, <1>8
<1>9. CASE /\ moved # {}
           /\ \E safe \in kept : /\ \A other \in kept : other <= safe
                                 /\ fact' = Repointed(moved, safe)
           /\ snap' = [snap EXCEPT ![c] = ResetFrom(@, from)]
           /\ left' = moved /\ UNCHANGED temp
  <2>1. PICK safe \in kept : fact' = Repointed(moved, safe)
    BY <1>9
  <2> DEFINE f == fact'
  <2>2. /\ DOMAIN f = DOMAIN fact /\ Anchored(G, f, c)
        /\ \A x \in DOMAIN fact : IF x \in moved THEN f[x] \in kept ELSE f[x] = fact[x]
    BY <1>3, <1>5, <1>6, <2>1
  <2> HIDE DEF f
  <2>3. f = fact' /\ temp' = NoTemp /\ kept # {}
    BY <1>1, <1>9, <2>1 DEF f
  <2> QED BY <1>7, <1>9, <2>2, <2>3
<1>10. CASE /\ moved # {} /\ kept = {}
            /\ temp' = from - 1
            /\ \E doomed \in Doomed(c, from) :
                  snap' = [snap EXCEPT ![c] =
                              ResetFrom(Insert(@, from - 1,
                                  Row(Epoch, Forever, FALSE, FALSE, snap[c][doomed].attrs)), from)]
            /\ fact' = Repointed(moved, from - 1)
            /\ left' = moved
  <2>1. PICK doomed \in Doomed(c, from) :
                  snap' = [snap EXCEPT ![c] =
                              ResetFrom(Insert(@, from - 1,
                                  Row(Epoch, Forever, FALSE, FALSE, snap[c][doomed].attrs)), from)]
    BY <1>10
  <2> DEFINE row == Row(Epoch, Forever, FALSE, FALSE, snap[c][doomed].attrs)
             P == ResetFrom(Insert(H, from - 1, row), from)
             f == fact'
  <2>2. snap'[c] = P /\ \A d \in Clients : d # c => snap'[d] = snap[d]
    BY <2>1 DEF TypeOK, TablesOK
  <2> HIDE DEF row
  <2>3. DOMAIN P = {from - 1}
    <3>1. DOMAIN P = Below(Insert(H, from - 1, row), from)
      BY DEF ResetFrom
    <3>2. DOMAIN Insert(H, from - 1, row) = DOMAIN H \cup {from - 1}
      BY DEF Insert
    <3>3. \A l \in DOMAIN H : ~ (l < from)
      BY <1>4, <1>10
    <3>4. from - 1 < from
      BY <1>1
    <3> HIDE DEF P
    <3> QED BY <3>1, <3>2, <3>3, <3>4 DEF Below
  <2> HIDE DEF P
  <2>4. /\ DOMAIN f = DOMAIN fact
        /\ \A x \in DOMAIN fact : f[x] = IF x \in moved THEN from - 1 ELSE fact[x]
    BY <1>5, <1>6, <1>10
  <2>5. FactsOf(f, c) # {}
    BY <1>6, <1>10, <2>4 DEF FactsOf, FactsOn
  <2> HIDE DEF f
  <2>6. VersionsAreEvents(P, from - 1) /\ VersionsHaveLanded(P, from - 1, raw) /\ Anchored(P, f, c)
    BY <2>3, <2>5 DEF VersionsAreEvents, VersionsHaveLanded, Anchored
  <2>7. f = fact' /\ temp' < from /\ \A l \in DOMAIN P : l < from /\ l = temp' /\ temp' # NoTemp
    BY <1>1, <1>10, <2>3 DEF f, NoTemp
  <2> QED BY <1>10, <2>2, <2>3, <2>4, <2>6, <2>7 DEF ResetTo
<1> QED BY <1>8, <1>9, <1>10 DEF RepointForReset
\* After a reset all that was recorded is still recorded or on the list of
\* what the replay is going to record.
LEMMA ResetLogInv ==
    ASSUME TypeOK, IInv, LogInv, NEW c \in Clients, ResetClient(c)
    PROVE  LogInv'
<1>1. PICK from \in ResetLsns(c, window) :
         /\ RepointForReset(c, from)
         /\ wm' = IF wm[c] = NoWatermark THEN wm ELSE [wm EXCEPT ![c] = from - 1]
         /\ todo' = ToReplay(c, from)
  BY DEF ResetClient
<1> DEFINE H == snap[c]
           G == snap'[c]
           f == fact'
           moved == FactsOn(c, Doomed(c, from))
<1>2. from \in Lsns /\ raw[from] # 0 /\ Wal[from].client = c
  BY DEF ResetLsns, InWindow
<1>3. /\ client = NoClient /\ client' = c /\ job' = "reload" /\ c # NoClient
      /\ UNCHANGED <<sources, db, raw>>
  BY ClientType DEF ResetClient, sources
<1>4. /\ IsHistory(H) /\ DOMAIN H \subseteq Int /\ wm \in [Clients -> Int]
      /\ HistoryInv(H, wm[c], c, NoTemp) /\ from \in Int /\ from > 0
  BY <1>2, <1>3, ClientType, WalType DEF TempOf, TypeOK, TablesOK
<1>5. /\ TablesLogged(snap, wm, fact, raw)
      /\ \A d \in Clients : Real(db.snap[d]) \subseteq DOMAIN snap[d]
  BY <1>3, LoggedOutsideReload
<1>6. ResetTo(G, H, f, c, from) /\ \A d \in Clients : d # c => snap'[d] = snap[d]
  BY <1>1, <1>2, <1>3, ResetEffect
<1>7. /\ wm'[c] = IF wm[c] = NoWatermark THEN NoWatermark ELSE from - 1
      /\ \A d \in Clients : d # c => wm'[d] = wm[d]
  BY <1>1, <1>4
<1>8. \A d \in Clients : TempOf(d)' = IF d = c THEN temp' ELSE NoTemp
  BY <1>3 DEF TempOf
<1>9. \A x \in DOMAIN fact : x \in Facts /\ FactRow[x].client \in Clients
  BY FactRowType
<1>10. Reloading'
  BY <1>3 DEF Reloading
<1>11. ASSUME NEW l \in DOMAIN H, l >= from PROVE WillRecord(l)'
  <2>1. l \in Int /\ l > 0 /\ l # NoTemp
    BY <1>4, <1>11 DEF NoTemp
  <2>2. l \in Lsns /\ Wal[l].client = c /\ raw[l] # 0
    BY <1>4, <1>5, <2>1 DEF HistoryInv, RowsAreLogged, TablesLogged, VersionsHaveLanded
  <2>3. l \in todo'
    BY <1>1, <1>11, <2>2 DEF ToReplay
  <2>4. ASSUME DOMAIN G = {} PROVE \E o \in todo' : o <= l /\ Wal[o].op # "delete"
    <3>1. moved = {} /\ \A m \in DOMAIN H : ~ (m < from)
      BY <1>6, <2>4 DEF ResetTo, Below
    <3>2. FactsOf(fact, c) = {}
      <4> SUFFICES ASSUME NEW x \in DOMAIN fact, FactRow[x].client = c PROVE FALSE
        BY DEF FactsOf
      <4>1. fact[x] \in DOMAIN H
        BY <1>5 DEF TablesLogged, PinsHaveRows
      <4>2. fact[x] >= from
        BY <1>4, <3>1, <4>1
      <4> QED BY <3>1, <4>1, <4>2 DEF FactsOn, Doomed
    <3>3. PICK o \in DOMAIN H : o <= l /\ (o <= 0 \/ Wal[o].op # "delete")
      BY <1>5, <3>2 DEF TablesLogged, Anchored
    <3>4. o >= from /\ o > 0 /\ ~ (o <= 0) /\ o # NoTemp
      BY <1>4, <3>1, <3>3 DEF NoTemp
    <3>5. o \in Lsns /\ Wal[o].client = c /\ raw[o] # 0
      BY <1>4, <1>5, <3>4 DEF HistoryInv, RowsAreLogged, TablesLogged, VersionsHaveLanded
    <3>6. o \in todo'
      BY <1>1, <3>4, <3>5 DEF ToReplay
    <3> QED BY <3>3, <3>4, <3>6
  <2> QED BY <1>3, <2>3, <2>4 DEF WillRecord
<1>12. ASSUME NEW l \in Real(H) PROVE RecordedSoFar(c, l)'
  <2>1. l \in DOMAIN H /\ l >= 0 /\ l \in Int
    BY <1>4 DEF Real
  <2>2. CASE l < from
    <3>1. l \in DOMAIN G /\ l # temp'
      BY <1>6, <2>1, <2>2 DEF ResetTo, Below
    <3> QED BY <1>8, <3>1 DEF RecordedSoFar
  <2>3. CASE l >= from
    BY <1>3, <1>11, <2>1, <2>3 DEF RecordedSoFar
  <2> QED BY <1>4, <2>1, <2>2, <2>3
<1>13. MarkSoFar(c)'
  <2>1. CASE wm[c] = NoWatermark
    BY <1>7, <2>1 DEF MarkSoFar
  <2>2. CASE wm[c] # NoWatermark
    <3>1. wm[c] \in DOMAIN H /\ wm'[c] >= 0
      BY <1>4, <1>5, <1>7, <2>2 DEF TablesLogged, MarkIsNewest, Newest
    <3> PICK m \in DOMAIN H : m = wm[c]
      BY <3>1
    <3>2. CASE m >= from
      <4>1. WillRecord(m)'
        BY <1>11, <3>2
      <4>2. m \in todo'
        BY <4>1 DEF WillRecord
      <4> QED BY <1>3, <3>1, <4>1, <4>2 DEF MarkSoFar
    <3>3. CASE m < from
      <4>1. DOMAIN G # {}
        BY <1>6, <3>3 DEF ResetTo, Below
      <4>2. from \in todo'
        BY <1>1, <1>2, <1>4 DEF ToReplay
      <4>3. WillRecord(from)'
        BY <1>3, <4>1, <4>2 DEF WillRecord
      <4> QED BY <1>3, <3>1, <4>2, <4>3 DEF MarkSoFar
    <3> QED BY <1>4, <3>2, <3>3
  <2> QED BY <2>1, <2>2
<1>14. HistoriesLogged'
  <2> SUFFICES ASSUME NEW d \in Clients
               PROVE  /\ VersionsAreEvents(snap'[d], TempOf(d)')
                      /\ VersionsHaveLanded(snap'[d], TempOf(d)', raw')
                      /\ Anchored(snap'[d], fact', d) /\ MarkSoFar(d)'
    BY DEF HistoriesLogged
  <2>1. CASE d = c
    BY <1>3, <1>6, <1>8, <1>13, <2>1 DEF ResetTo
  <2>2. CASE d # c
    <3>1. snap'[d] = snap[d] /\ wm'[d] = wm[d] /\ TempOf(d)' = NoTemp
      BY <1>6, <1>7, <1>8, <2>2
    <3>2. DOMAIN fact' = DOMAIN fact
      BY <1>6 DEF ResetTo
    <3>3. FactsOf(fact', d) = FactsOf(fact, d)
      BY <3>2 DEF FactsOf
    <3>4. MarkIsNewest(snap[d], wm[d])
      BY <1>5 DEF TablesLogged
    <3>5. MarkSoFar(d)'
      BY <3>1, <3>4 DEF MarkSoFar, MarkIsNewest, NoTemp
    <3> QED BY <1>3, <1>5, <3>1, <3>3, <3>5 DEF TablesLogged, Anchored
  <2> QED BY <2>1, <2>2
<1>15. \A x \in DOMAIN fact : IF x \in moved THEN f[x] \in DOMAIN G ELSE f[x] = fact[x]
  BY <1>6 DEF ResetTo
<1>16. DOMAIN f = DOMAIN fact /\ left' = moved /\ moved \subseteq DOMAIN fact
  BY <1>6 DEF ResetTo, FactsOn
<1>17. ASSUME NEW x \in DOMAIN fact, FactRow[x].client = c, x \notin moved
       PROVE  fact[x] \in DOMAIN G /\ fact[x] < from /\ fact[x] \in Below(H, from)
  <2>1. fact[x] \in DOMAIN H /\ ~ (fact[x] >= from)
    BY <1>5, <1>17 DEF TablesLogged, PinsHaveRows, FactsOn, Doomed
  <2>2. fact[x] \in Below(H, from)
    BY <1>4, <2>1 DEF Below
  <2> QED BY <1>6, <2>2 DEF ResetTo, Below
<1>18. PinsLogged'
  <2>1. ASSUME NEW x \in DOMAIN fact PROVE f[x] \in DOMAIN snap'[FactRow[x].client]
    <3>1. CASE x \in moved
      BY <1>15, <2>1, <3>1 DEF FactsOn
    <3>2. CASE x \notin moved /\ FactRow[x].client = c
      BY <1>15, <1>17, <3>2
    <3>3. CASE x \notin moved /\ FactRow[x].client # c
      BY <1>5, <1>6, <1>9, <1>15, <3>3 DEF TablesLogged, PinsHaveRows
    <3> QED BY <3>1, <3>2, <3>3
  <2>2. \A x \in DOMAIN fact : x \in left' \/ DatedPin(x, f[x])
    BY <1>5, <1>15, <1>16 DEF TablesLogged
  <2> QED BY <1>10, <1>16, <2>1, <2>2 DEF PinsLogged, PinsHaveRows
<1>19. WaitingFacts'
  <2>1. ASSUME NEW x \in moved
        PROVE  /\ x \in DOMAIN fact' /\ FactRow[x].client = c
               /\ \E l \in Lsns : /\ Wal[l].client = c /\ RecordedSoFar(c, l)'
                                  /\ DatedPin(x, l)
    <3> PICK m \in DOMAIN H : m = fact[x]
      BY DEF FactsOn, Doomed
    <3>1. x \in DOMAIN fact /\ FactRow[x].client = c /\ m >= from /\ m > 0
      BY <1>4 DEF FactsOn, Doomed
    <3>2. m \in Lsns /\ Wal[m].client = c
      BY <1>4, <3>1 DEF HistoryInv, RowsAreLogged, NoTemp
    <3>3. RecordedSoFar(c, m)'
      BY <1>4, <1>12, <3>1 DEF Real
    <3>4. DatedPin(x, m)
      BY <1>5, <3>1 DEF TablesLogged
    <3> QED BY <1>16, <3>1, <3>2, <3>3, <3>4
  <2>2. ASSUME temp' # NoTemp
        PROVE  /\ temp' \in DOMAIN G /\ FactsOf(f, c) # {}
               /\ FactsOn(c, {temp})' \subseteq moved
    <3>1. temp' \in DOMAIN G /\ moved # {} /\ Below(H, from) = {}
      BY <1>6, <2>2 DEF ResetTo
    <3>2. FactsOf(f, c) # {}
      BY <1>16, <3>1 DEF FactsOf, FactsOn
    <3>3. FactsOn(c, {temp})' \subseteq moved
      BY <1>16, <1>17, <3>1 DEF FactsOn
    <3> QED BY <3>1, <3>2, <3>3
  <2>3. client' = c /\ left' = moved
    BY <1>3, <1>16
  <2> HIDE DEF moved
  <2> QED BY <1>10, <2>1, <2>2, <2>3 DEF WaitingFacts
<1>20. NoneForgotten'
  <2> SUFFICES ASSUME NEW d \in Clients, NEW l \in Real(db.snap[d])
               PROVE  RecordedSoFar(d, l)'
    BY <1>3 DEF NoneForgotten
  <2>1. l \in Real(snap[d])
    BY <1>5 DEF Real
  <2>2. CASE d = c
    BY <1>12, <2>1, <2>2
  <2>3. CASE d # c
    <3>1. l \in DOMAIN snap'[d] /\ l # NoTemp
      BY <1>6, <2>1, <2>3 DEF Real, NoTemp
    <3> QED BY <1>8, <2>3, <3>1 DEF RecordedSoFar
  <2> QED BY <2>2, <2>3
<1>21. LayersInOrder' /\ CommittedLogged'
  BY <1>3, CommittedKept DEF LogInv, LayersInOrder, sources
<1>22. ListsInOrder'
  <2>1. ASSUME NEW l \in todo' PROVE raw'[l] # 0 /\ Wal[l].client = c /\ wm'[c] < l
    <3>1. l \in Lsns /\ raw[l] # 0 /\ Wal[l].client = c /\ l >= from
      BY <1>1 DEF ToReplay
    <3> QED BY <1>3, <1>4, <1>7, <3>1, WalType DEF NoWatermark
  <2> QED BY <1>3, <1>10, <2>1 DEF ListsInOrder
<1> QED BY <1>14, <1>18, <1>19, <1>20, <1>21, <1>22 DEF LogInv
\* What a client's reload can rely on.
LEMMA ReloadingFacts ==
    ASSUME TypeOK, IInv, LogInv, Reloading
    PROVE  /\ client \in Clients /\ TempOf(client) = temp
           /\ temp \in Int /\ ~ (NoTemp >= 0)
           /\ \A d \in Clients : d # client => TempOf(d) = NoTemp
           /\ \A m \in DOMAIN snap[client] : temp # NoTemp => temp <= m
           /\ temp # NoTemp => temp <= wm[client]
           /\ temp # NoTemp => temp >= 0
<1>1. client \in Clients /\ temp \in Nat \cup {NoTemp}
  BY DEF TypeOK, ProgressOK, Reloading
<1>2. TempOf(client) = temp /\ \A d \in Clients : d # client => TempOf(d) = NoTemp
  BY <1>1 DEF TempOf
<1>3. HistoryInv(snap[client], wm[client], client, temp)
  BY <1>1, <1>2, ClientType
<1> QED BY <1>1, <1>2, <1>3 DEF HistoryInv, PlaceholderIsOldest, NoTemp

\* A replay step forgets nothing: the event is recorded, or it is a delete
\* before any row that nothing counted on.
LEMMA ReplayRemembers ==
    ASSUME TypeOK, IInv, LogInv, Reloading, NEW l \in Lsns, ReplayRow(l),
           NEW image, Records(l, image) \/ Skips(l)
    PROVE  /\ Wal[l].client = client
           /\ \A k : RecordedSoFar(client, k) => RecordedSoFar(client, k)'
           /\ \A k \in todo : WillRecord(k) /\ k # l => WillRecord(k)'
           /\ WillRecord(l) => Records(l, image)
<1>1. /\ Wal[l].client = client /\ wm[client] < l
      /\ l \in todo /\ \A m \in todo : l <= m
      /\ todo' = todo \ {l} /\ client' = client /\ temp' = temp
  BY DEF LogInv, ListsInOrder, ReplayRow
<1>2. /\ client \in Clients /\ TempOf(client) = temp /\ TempOf(client)' = temp
      /\ todo \subseteq Lsns /\ Lsns \subseteq Int /\ l \in Int /\ wm[client] \in Int
      /\ temp \in Int
  BY <1>1, ReloadingFacts, ClientType, WalType DEF TypeOK, ProgressOK, TempOf
<1>3. ASSUME NEW k \in todo, WillRecord(k), k # l
      PROVE  WillRecord(k)'
  <2>1. k \in todo'
    BY <1>1, <1>3
  <2>2. CASE Records(l, image)
    <3>1. DOMAIN snap'[client] # {}
      BY <1>1, <2>2 DEF Records, IsAppended
    <3> QED BY <1>1, <2>1, <3>1 DEF WillRecord
  <2>3. CASE Skips(l)
    <3>1. DOMAIN snap[client] = {} /\ Wal[l].op = "delete"
      BY <1>1, <2>3 DEF Skips
    <3>2. PICK o \in todo : o <= k /\ Wal[o].op # "delete"
      BY <1>3, <3>1 DEF WillRecord
    <3>3. o \in todo'
      BY <1>1, <3>1, <3>2
    <3> QED BY <1>1, <2>1, <3>2, <3>3 DEF WillRecord
  <2> QED BY <2>2, <2>3
<1>4. ASSUME WillRecord(l) PROVE Records(l, image)
  <2>1. ASSUME Skips(l) PROVE FALSE
    <3>1. DOMAIN snap[client] = {} /\ Wal[l].op = "delete"
      BY <1>1, <2>1 DEF Skips
    <3>2. PICK o \in todo : o <= l /\ Wal[o].op # "delete"
      BY <1>4, <3>1 DEF WillRecord
    <3>3. o = l
      BY <1>1, <1>2, <3>2
    <3> QED BY <3>1, <3>2, <3>3
  <2> QED BY <2>1
<1>5. ASSUME NEW k, RecordedSoFar(client, k) PROVE RecordedSoFar(client, k)'
  <2>1. CASE k \in DOMAIN snap[client] \ {temp}
    <3>1. DOMAIN snap[client] \subseteq DOMAIN snap'[client]
      BY <1>1 DEF Records, IsAppended, Skips
    <3> QED BY <1>1, <1>2, <2>1, <3>1 DEF RecordedSoFar
  <2>2. CASE WillRecord(k) /\ k # l
    BY <1>1, <1>3, <2>2 DEF RecordedSoFar, WillRecord
  <2>3. CASE WillRecord(k) /\ k = l
    <3>1. l \in DOMAIN snap'[client]
      BY <1>1, <1>4, <2>3 DEF Records, IsAppended
    <3>2. l # temp
      BY <1>1, <1>2, ReloadingFacts, WalType DEF NoTemp
    <3> QED BY <1>1, <1>2, <2>3, <3>1, <3>2 DEF RecordedSoFar
  <2> QED BY <1>2, <1>5, <2>1, <2>2, <2>3 DEF RecordedSoFar
<1> QED BY <1>1, <1>3, <1>4, <1>5
\* A replay, row by row.
LEMMA ReplayRowLogInv ==
    ASSUME TypeOK, IInv, LogInv, NEW l \in Lsns, ReplayRow(l)
    PROVE  LogInv'
<1> DEFINE H == snap[client]
           G == snap'[client]
           image == raw[l]
<1>1. Reloading /\ Reloading'
  BY DEF LogInv, ListsInOrder, ReplayRow, Reloading
<1>2. /\ client \in Clients /\ TempOf(client) = temp
      /\ \A d \in Clients : d # client => TempOf(d) = NoTemp
  BY <1>1, ReloadingFacts
<1>3. /\ client' = client /\ temp' = temp /\ left' = left /\ fact' = fact /\ db' = db
      /\ UNCHANGED sources /\ raw' = raw /\ todo' = todo \ {l} /\ job' = job
      /\ pending' = pending
  BY DEF ReplayRow, sources
<1>4. /\ Wal[l].client = client /\ wm[client] < l /\ raw[l] # 0
      /\ l \in todo /\ \A m \in todo : l <= m
      /\ todo \subseteq Lsns /\ Lsns \subseteq Int /\ wm[client] \in Int /\ l \in Int
  BY <1>1, <1>2, ClientType, WalType
     DEF LogInv, ListsInOrder, ReplayRow, TypeOK, ProgressOK
<1>5. Skips(l) \/ Records(l, image)
  BY <1>4, ApplyCases DEF ReplayRow, FindsStale
<1>6. /\ \A k : RecordedSoFar(client, k) => RecordedSoFar(client, k)'
      /\ \A k \in todo : WillRecord(k) /\ k # l => WillRecord(k)'
      /\ WillRecord(l) => Records(l, image)
  BY <1>1, <1>5, ReplayRemembers
<1>7. \A d \in Clients : TempOf(d)' = TempOf(d)
  BY <1>3 DEF TempOf
<1>8. \A d \in Clients : d # client => snap'[d] = snap[d] /\ wm'[d] = wm[d]
  BY <1>4, <1>5 DEF Skips, Records
<1>9. \A d \in Clients : DOMAIN snap[d] \subseteq DOMAIN snap'[d]
  BY <1>4, <1>5, <1>8 DEF Skips, Records, IsAppended
<1>10. /\ VersionsAreEvents(H, temp) /\ VersionsHaveLanded(H, temp, raw) /\ Anchored(H, fact, client)
       /\ MarkSoFar(client)
  BY <1>2 DEF LogInv, HistoriesLogged
<1>11. /\ VersionsAreEvents(G, temp) /\ VersionsHaveLanded(G, temp, raw)
       /\ Anchored(G, fact, client) /\ MarkSoFar(client)'
  <2>1. CASE Skips(l)
    <3>1. G = H /\ wm' = wm /\ DOMAIN H = {}
      BY <1>4, <2>1 DEF Skips
    <3>2. ~ WillRecord(l)
      BY <1>6, <2>1, <3>1 DEF Records, Skips
    <3>3. MarkSoFar(client)'
      <4>1. CASE wm[client] = NoWatermark
        BY <1>3, <3>1, <4>1 DEF MarkSoFar
      <4>2. CASE wm[client] >= 0 /\ \E k \in todo : WillRecord(k)
        <5>1. PICK k \in todo : WillRecord(k)
          BY <4>2
        <5>2. WillRecord(k)' /\ k \in todo'
          BY <1>3, <1>6, <3>2, <5>1
        <5> QED BY <1>3, <3>1, <4>2, <5>2 DEF MarkSoFar
      <4>3. ~ MarkIsNewest(H, wm[client]) \/ wm[client] = NoWatermark
        BY <3>1 DEF MarkIsNewest, Newest
      <4> QED BY <1>10, <4>1, <4>2, <4>3 DEF MarkSoFar
    <3> QED BY <1>10, <3>1, <3>3
  <2>2. CASE Records(l, image)
    <3>1. /\ IsAppended(G, H, l, image) /\ wm'[client] = l
          /\ Wal[l].op = "delete" => DOMAIN H # {}
      BY <1>4, <2>2 DEF Records
    <3>2. IsHistory(H)
      BY <1>2, ClientType
    <3>3. /\ VersionsAreEvents(G, temp) /\ VersionsHaveLanded(G, temp, raw)
          /\ Anchored(G, fact, client) /\ MarkIsNewest(G, l)
      BY <1>4, <1>10, <3>1, <3>2, AppendLogged
    <3>3a. l # temp
      BY <1>1, <1>4, ReloadingFacts, WalType DEF NoTemp
    <3>4. MarkSoFar(client)'
      BY <1>2, <1>3, <1>7, <3>1, <3>3, <3>3a DEF MarkSoFar
    <3> QED BY <3>3, <3>4
  <2> QED BY <1>5, <2>1, <2>2
<1>12. HistoriesLogged'
  <2> SUFFICES ASSUME NEW d \in Clients
               PROVE  /\ VersionsAreEvents(snap'[d], TempOf(d)')
                      /\ VersionsHaveLanded(snap'[d], TempOf(d)', raw')
                      /\ Anchored(snap'[d], fact', d) /\ MarkSoFar(d)'
    BY DEF HistoriesLogged
  <2>1. CASE d = client
    BY <1>2, <1>3, <1>7, <1>11, <2>1
  <2>2. CASE d # client
    <3>1. /\ VersionsAreEvents(snap[d], TempOf(d)) /\ VersionsHaveLanded(snap[d], TempOf(d), raw)
          /\ Anchored(snap[d], fact, d) /\ MarkSoFar(d)
      BY DEF LogInv, HistoriesLogged
    <3>2. MarkSoFar(d)'
      BY <1>3, <1>7, <1>8, <2>2, <3>1 DEF MarkSoFar
    <3> QED BY <1>3, <1>7, <1>8, <2>2, <3>1, <3>2
  <2> QED BY <2>1, <2>2
<1>13. PinsLogged'
  <2>1. \A x \in DOMAIN fact : FactRow[x].client \in Clients
    BY FactRowType
  <2> QED BY <1>1, <1>3, <1>9, <2>1 DEF LogInv, PinsLogged, PinsHaveRows
<1>14. WaitingFacts'
  <2>1. ASSUME NEW x \in left
        PROVE  /\ x \in DOMAIN fact /\ FactRow[x].client = client
               /\ \E k \in Lsns : /\ Wal[k].client = client /\ RecordedSoFar(client, k)'
                                  /\ DatedPin(x, k)
    BY <1>1, <1>6 DEF LogInv, WaitingFacts
  <2>2. ASSUME temp # NoTemp
        PROVE  /\ temp \in DOMAIN G /\ FactsOf(fact, client) # {}
               /\ FactsOn(client, {temp})' \subseteq left
    BY <1>1, <1>2, <1>3, <1>9, <2>2 DEF LogInv, WaitingFacts, FactsOn
  <2> QED BY <1>1, <1>3, <2>1, <2>2 DEF WaitingFacts
<1>15. NoneForgotten'
  <2> SUFFICES ASSUME NEW d \in Clients, NEW k \in Real(db.snap[d])
               PROVE  RecordedSoFar(d, k)'
    BY <1>3 DEF NoneForgotten
  <2>1. RecordedSoFar(d, k)
    BY DEF LogInv, NoneForgotten
  <2>2. CASE d # client
    BY <1>3, <1>7, <1>9, <2>1, <2>2 DEF RecordedSoFar
  <2>3. CASE d = client
    <3>1. RecordedSoFar(client, k)'
      BY <1>6, <2>1, <2>3
    <3> QED BY <1>3, <2>3, <3>1
  <2> QED BY <2>2, <2>3
<1>16. LayersInOrder' /\ CommittedLogged'
  BY <1>3, CommittedKept DEF LogInv, LayersInOrder, sources
<1>17. ListsInOrder'
  <2>1. ASSUME NEW m \in todo' PROVE raw'[m] # 0 /\ Wal[m].client = client /\ wm'[client] < m
    <3>1. m \in todo /\ m # l /\ l < m
      BY <1>3, <1>4
    <3>2. raw[m] # 0 /\ Wal[m].client = client /\ wm[client] < m
      BY <1>1, <3>1 DEF LogInv, ListsInOrder
    <3>3. wm'[client] = wm[client] \/ wm'[client] = l
      BY <1>4, <1>5 DEF Skips, Records
    <3> QED BY <1>3, <3>1, <3>2, <3>3
  <2> QED BY <1>1, <1>3, <2>1 DEF LogInv, ListsInOrder, Reloading, ReplayRow
<1> QED BY <1>12, <1>13, <1>14, <1>15, <1>16, <1>17 DEF LogInv
\* When the replay is done the history covers the date of every waiting fact
\* with a version: the version it had, or one before it, is back, and from
\* there on the versions tile time.  The placeholder covers none of them.
LEMMA WaitingCovered ==
    ASSUME TypeOK, IInv, LogInv, Reloading, todo = {}, NEW x \in left
    PROVE  CoveringFact(x) # {} /\ (temp # NoTemp => temp \notin CoveringFact(x))
<1> DEFINE H == snap[client]
           w == wm[client]
           ts == FactRow[x].event_ts
<1>1. /\ client \in Clients /\ temp \in Int /\ FactRow[x].client = client
      /\ IsHistory(H) /\ DOMAIN H \subseteq Int /\ w \in Int /\ temp \in Nat \cup {NoTemp}
      /\ HistoryInv(H, w, client, temp)
  BY ReloadingFacts, ClientType DEF LogInv, WaitingFacts, TempOf, NoTemp
<1>2. x \in Facts /\ ts \in Int /\ CoveringFact(x) = Covering(H, ts) /\ Forever \in Int
  BY <1>1, FactRowType, ForeverAssumption DEF TypeOK, ProgressOK, CoveringFact
<1>3. PICK L \in Lsns : RecordedSoFar(client, L) /\ DatedPin(x, L)
  BY DEF LogInv, WaitingFacts
<1>4. /\ L \in DOMAIN H /\ L # temp /\ L > 0 /\ L \in Int /\ Wal[L].commit_ts \in Int
      /\ Wal[L].commit_ts <= ts /\ ts < Forever
  BY <1>3, ReloadingFacts, WalType DEF RecordedSoFar, WillRecord, DatedPin
<1> HIDE DEF H, w, ts
<1>5. \A m \in DOMAIN H : H[m].valid_from \in Int /\ H[m].valid_to \in Int
  BY <1>1 DEF IsHistory, Version
<1>6. \A m \in DOMAIN H : m > 0 /\ m # temp =>
          /\ m \in Lsns /\ Wal[m].client = client /\ H[m].valid_from = Wal[m].commit_ts
  BY <1>1 DEF HistoryInv, RowsAreLogged
<1>7. CoveringFact(x) # {}
  <2> DEFINE S == {m \in DOMAIN H : L <= m /\ H[m].valid_from <= ts}
  <2>1. S \in SUBSET Int /\ L \in S
    BY <1>1, <1>4, <1>6
  <2>2. \A m \in S : m <= w
    <3>1. \A m \in DOMAIN H : m \in Int /\ (m <= 0 \/ m <= w)
      BY <1>1, RowsBelow
    <3> QED BY <1>1, <1>4, <3>1
  <2>3. PICK m \in S : \A k \in S : k <= m
    <3> HIDE DEF S
    <3> QED BY <1>1, <2>1, <2>2, GreatestInteger
  <2>4. m \in DOMAIN H /\ m \in Int /\ L <= m /\ H[m].valid_from <= ts /\ m >= 0
    BY <1>1, <1>4, <2>3
  <2>5. CASE H[m].is_current
    <3>1. H[m].valid_to = Forever
      BY <1>1, <2>4, <2>5 DEF HistoryInv, Tiled
    <3> QED BY <1>2, <1>4, <2>4, <3>1 DEF Covering
  <2>6. CASE ~ H[m].is_current
    <3>1. PICK n \in DOMAIN H : Adjacent(H, m, n) /\ H[m].valid_to = H[n].valid_from
      BY <1>1, <2>4, <2>6 DEF HistoryInv, Tiled
    <3>2. n \in Int /\ m < n
      BY <1>1, <3>1 DEF Adjacent
    <3>3. n \notin S
      BY <2>3, <2>4, <3>2
    <3>4. ts < H[n].valid_from
      BY <1>2, <1>4, <1>5, <2>4, <3>2, <3>3
    <3> QED BY <1>2, <2>4, <3>1, <3>4 DEF Covering
  <2> QED BY <2>5, <2>6
<1>8. ASSUME temp # NoTemp, temp \in Covering(H, ts) PROVE FALSE
  <2>1. temp \in DOMAIN H /\ temp >= 0 /\ ts < H[temp].valid_to /\ temp < L
    BY <1>1, <1>4, <1>8 DEF Covering, HistoryInv, PlaceholderIsOldest
  <2>2. ~ H[temp].is_current
    BY <1>1, <1>4, <2>1 DEF HistoryInv, Tiled
  <2>3. PICK n \in DOMAIN H : Adjacent(H, temp, n) /\ H[temp].valid_to = H[n].valid_from
    BY <1>1, <2>1, <2>2 DEF HistoryInv, Tiled
  <2>4. n \in Int /\ temp < n /\ n <= L
    BY <1>1, <1>4, <2>1, <2>3 DEF Adjacent
  <2>5. /\ n \in Lsns /\ Wal[n].client = client /\ H[n].valid_from = Wal[n].commit_ts
        /\ L \in Lsns /\ Wal[L].client = client
    BY <1>1, <1>4, <1>6, <2>1, <2>4
  <2>6. Wal[n].commit_ts <= Wal[L].commit_ts
    BY <1>4, <2>4, <2>5, CommitOrderAssumption
  <2>7. Wal[n].commit_ts \in Int
    BY <2>5, WalType
  <2> QED BY <1>2, <1>4, <2>1, <2>3, <2>5, <2>6, <2>7
<1> QED BY <1>2, <1>7, <1>8

\* A waiting fact goes back to a version that covers its date, and never to
\* the placeholder.
LEMMA ReresolveLogInv ==
    ASSUME TypeOK, IInv, LogInv, NEW x \in Facts, ReresolveFact(x)
    PROVE  LogInv'
<1>1. /\ Reloading /\ Reloading' /\ todo = {} /\ x \in left /\ left' = left \ {x}
      /\ UNCHANGED <<sources, snap, wm, db, todo, pending, client, temp, job, raw>>
  BY DEF ReresolveFact, Reloading, sources
<1>2. PICK l \in CoveringFact(x) : fact' = Upserted(x, l)
  BY DEF ReresolveFact
<1>3. /\ client \in Clients /\ FactRow[x].client = client /\ x \in DOMAIN fact
      /\ TempOf(client) = temp
  BY <1>1, ReloadingFacts DEF LogInv, WaitingFacts
<1>4. l \in DOMAIN snap[client] /\ (temp # NoTemp => l # temp)
  BY <1>1, <1>2, <1>3, WaitingCovered DEF CoveringFact, Covering
<1>5. DatedPin(x, l)
  <2>1. l > 0 => l # TempOf(client)
    BY <1>3, <1>4 DEF NoTemp
  <2> QED BY <1>2, <1>3, <2>1, CoveringPin DEF DatedPin
<1>6. /\ DOMAIN fact' = DOMAIN fact
      /\ \A y \in DOMAIN fact : fact'[y] = IF y = x THEN l ELSE fact[y]
  BY <1>2, <1>3 DEF Upserted
<1>7. \A d : FactsOf(fact', d) = FactsOf(fact, d)
  BY <1>6 DEF FactsOf
<1>8. \A d \in Clients : TempOf(d)' = TempOf(d)
  BY <1>1 DEF TempOf
<1>9. HistoriesLogged'
  <2> SUFFICES ASSUME NEW d \in Clients
               PROVE  /\ VersionsAreEvents(snap[d], TempOf(d))
                      /\ VersionsHaveLanded(snap[d], TempOf(d), raw)
                      /\ Anchored(snap[d], fact', d) /\ MarkSoFar(d)'
    BY <1>1, <1>8 DEF HistoriesLogged
  <2>1. MarkSoFar(d)'
    BY <1>1, <1>8 DEF LogInv, HistoriesLogged, MarkSoFar
  <2> QED BY <1>7, <2>1 DEF LogInv, HistoriesLogged, Anchored
<1>10. PinsLogged'
  BY <1>1, <1>3, <1>4, <1>5, <1>6 DEF LogInv, PinsLogged, PinsHaveRows
<1>11. WaitingFacts'
  <2>1. ASSUME temp # NoTemp
        PROVE  /\ temp \in DOMAIN snap[client] /\ FactsOf(fact', client) # {}
               /\ FactsOn(client, {temp})' \subseteq left'
    BY <1>1, <1>3, <1>4, <1>6, <1>7, <2>1 DEF LogInv, WaitingFacts, FactsOn
  <2>2. ASSUME NEW y \in left'
        PROVE  /\ y \in DOMAIN fact' /\ FactRow[y].client = client
               /\ \E k \in Lsns : /\ Wal[k].client = client /\ RecordedSoFar(client, k)'
                                  /\ DatedPin(y, k)
    <3>1. y \in left
      BY <1>1
    <3>2. PICK k \in Lsns : /\ Wal[k].client = client /\ RecordedSoFar(client, k)
                            /\ DatedPin(y, k)
      BY <1>1, <3>1 DEF LogInv, WaitingFacts
    <3>3. RecordedSoFar(client, k)'
      BY <1>1, <1>3, <1>8, <3>2 DEF RecordedSoFar, WillRecord
    <3> QED BY <1>1, <1>6, <3>1, <3>2, <3>3 DEF LogInv, WaitingFacts
  <2> QED BY <1>1, <2>1, <2>2 DEF WaitingFacts
<1>12. NoneForgotten'
  BY <1>1, <1>8 DEF LogInv, NoneForgotten, RecordedSoFar, WillRecord
<1>13. LayersInOrder' /\ CommittedLogged'
  BY <1>1, CommittedKept DEF LogInv, LayersInOrder, sources
<1>14. ListsInOrder'
  BY <1>1 DEF LogInv, ListsInOrder, Reloading, ReresolveFact
<1> QED BY <1>9, <1>10, <1>11, <1>12, <1>13, <1>14 DEF LogInv
\* With all facts resolved the placeholder goes and the client is in step
\* with the log again.
LEMMA FinishLogInv ==
    ASSUME TypeOK, IInv, LogInv, FinishClient
    PROVE  LogInv'
<1> DEFINE H == snap[client]
           G == Delete(H, {temp} \ {NoTemp})
<1>1. /\ Reloading /\ todo = {} /\ left = {} /\ client' = NoClient /\ job' = job
      /\ UNCHANGED <<sources, wm, fact, db, todo, left, pending>>
  BY DEF FinishClient, Reloading
<1>2. /\ client \in Clients /\ TempOf(client) = temp /\ temp \in Nat \cup {NoTemp}
      /\ \A d \in Clients : d # client => TempOf(d) = NoTemp
      /\ \A m \in DOMAIN H : temp # NoTemp => temp <= m
      /\ IsHistory(H)
  BY <1>1, ReloadingFacts, ClientType DEF TypeOK, ProgressOK
<1>3. DOMAIN G = DOMAIN H \ ({temp} \ {NoTemp})
  BY DEF Delete
<1>4. snap'[client] = G /\ \A d \in Clients : d # client => snap'[d] = snap[d]
  BY <1>2 DEF FinishClient, TypeOK, TablesOK
<1>5. /\ VersionsAreEvents(H, temp) /\ VersionsHaveLanded(H, temp, raw)
      /\ Anchored(H, fact, client) /\ MarkSoFar(client)
  BY <1>2 DEF LogInv, HistoriesLogged
<1>6. temp # NoTemp => FactsOf(fact, client) # {}
  BY <1>1 DEF LogInv, WaitingFacts
<1>7. /\ VersionsAreEvents(G, NoTemp) /\ VersionsHaveLanded(G, NoTemp, raw)
      /\ Anchored(G, fact, client) /\ MarkIsNewest(G, wm[client])
  <2>1. CASE MarkIsNewest(H, wm[client]) /\ wm[client] # temp
    BY <1>2, <1>5, <1>6, <2>1, FinishLogged
  <2>2. CASE wm[client] = NoWatermark
    <3>1. MarkIsNewest(H, NoWatermark)
      BY DEF MarkIsNewest
    <3>2. CASE temp # NoWatermark
      BY <1>2, <1>5, <1>6, <2>2, <3>1, <3>2, FinishLogged
    <3>3. CASE temp = NoWatermark
      <4>1. G = H
        BY <1>2, <3>3 DEF Delete, IsHistory, NoTemp, NoWatermark
      <4> QED BY <1>5, <2>2, <3>1, <3>3, <4>1 DEF NoTemp, NoWatermark
    <3> QED BY <3>2, <3>3
  <2> QED BY <1>1, <1>2, <1>5, <2>1, <2>2 DEF MarkSoFar
<1> HIDE DEF G
<1>8. PinsHaveRows(snap', fact')
  <2> SUFFICES ASSUME NEW x \in DOMAIN fact PROVE fact[x] \in DOMAIN snap'[FactRow[x].client]
    BY <1>1 DEF PinsHaveRows
  <2>1. fact[x] \in DOMAIN snap[FactRow[x].client] /\ FactRow[x].client \in Clients
    BY FactRowType DEF LogInv, PinsLogged, PinsHaveRows
  <2>2. FactRow[x].client = client => fact[x] \notin {temp} \ {NoTemp}
    BY DEF FinishClient, FactsOn
  <2> QED BY <1>3, <1>4, <2>1, <2>2
<1>9. TablesLogged(snap', wm', fact', raw)
  <2>1. ASSUME NEW d \in Clients, d # client
        PROVE  /\ VersionsAreEvents(snap[d], NoTemp) /\ VersionsHaveLanded(snap[d], NoTemp, raw)
               /\ Anchored(snap[d], fact, d) /\ MarkIsNewest(snap[d], wm[d])
    BY <1>2, <2>1 DEF LogInv, HistoriesLogged, MarkSoFar, MarkIsNewest
  <2>2. \A x \in DOMAIN fact : DatedPin(x, fact[x])
    BY <1>1 DEF LogInv, PinsLogged
  <2> QED BY <1>1, <1>4, <1>7, <1>8, <2>1, <2>2 DEF TablesLogged
<1>10. \A d \in Clients : Real(db.snap[d]) \subseteq DOMAIN snap'[d]
  <2> SUFFICES ASSUME NEW d \in Clients, NEW l \in Real(db.snap[d]) PROVE l \in DOMAIN snap'[d]
    OBVIOUS
  <2>1. RecordedSoFar(d, l)
    BY DEF LogInv, NoneForgotten
  <2>2. l \in DOMAIN snap[d] \ {TempOf(d)}
    BY <1>1, <2>1 DEF RecordedSoFar, WillRecord
  <2> QED BY <1>2, <1>3, <1>4, <2>2
<1>11. ListsInOrder'
  BY <1>1 DEF LogInv, ListsInOrder, Reloading, FinishClient
<1> QED BY <1>1, <1>9, <1>10, <1>11, LoadStepLogInv

----------------------------------------------------------------------------
(* LogInv is inductive.                                                    *)

\* The empty warehouse is in step with an empty log.
LEMMA InitLogInv == Init => LogInv
<1> SUFFICES ASSUME Init PROVE LogInv
  OBVIOUS
<1>1. client = NoClient /\ todo = {} /\ left = {} /\ pending = {} /\ job = "idle"
  BY DEF Init
<1>2. \A c \in Clients : snap[c] = NoHistory /\ wm[c] = NoWatermark
  BY DEF Init
<1>3. DOMAIN NoHistory = {} /\ DOMAIN fact = {} /\ Real(NoHistory) = {}
  BY DEF NoHistory, Init, Real
<1>4. db.snap = snap /\ db.wm = wm /\ db.fact = fact
  BY DEF Init, Tables
<1>5. TablesLogged(snap, wm, fact, raw)
  BY <1>2, <1>3 DEF TablesLogged, VersionsAreEvents, VersionsHaveLanded, Anchored,
                    MarkIsNewest, PinsHaveRows
<1>6. \A c \in Clients : c # NoClient /\ TempOf(c) = NoTemp
  BY <1>1, ClientsAssumption DEF TempOf, NoClient
<1>7. HistoriesLogged
  BY <1>2, <1>5, <1>6 DEF HistoriesLogged, TablesLogged, MarkSoFar
<1>8. PinsLogged /\ WaitingFacts
  BY <1>1, <1>5 DEF PinsLogged, WaitingFacts, Reloading, TablesLogged
<1>9. CommittedLogged /\ NoneForgotten
  BY <1>2, <1>3, <1>4, <1>5 DEF CommittedLogged, NoneForgotten
<1>10. LayersInOrder /\ ListsInOrder
  BY <1>1 DEF LayersInOrder, ListsInOrder, Reloading, Init
<1> QED BY <1>7, <1>8, <1>9, <1>10 DEF LogInv

\* Every step keeps the histories, the watermarks and the facts in step with
\* the log.
LEMMA NextLogInv == TypeOK /\ IInv /\ LogInv /\ [Next]_vars => LogInv'
<1> SUFFICES ASSUME TypeOK, IInv, LogInv, [Next]_vars PROVE LogInv'
  OBVIOUS
<1>1. job # "reload" => client = NoClient
  BY DEF IInv
<1>2. ASSUME UNCHANGED <<sources, tables, db>>, client = NoClient, client' = NoClient,
             ListsInOrder'
      PROVE  LogInv'
  BY <1>2, LoggedOutsideReload, LoadStepLogInv DEF tables
<1>3. ASSUME NEW l \in Lsns, Deliver(l) \/ Redeliver(l) PROVE LogInv'
  <2>1. LayersInOrder'
    BY <1>3 DEF LogInv, LayersInOrder, Deliver, Redeliver, TypeOK, SourcesOK
  <2> QED BY <1>3, <2>1, SourceStepLogInv DEF Deliver, Redeliver
<1>4. CASE LandLayer1 \/ StageLayer2
  <2>1. LayersInOrder' /\ \A l \in Lsns : raw[l] # 0 => raw'[l] # 0
    BY <1>4 DEF LogInv, LayersInOrder, LandLayer1, StageLayer2
  <2> QED BY <1>4, <2>1, SourceStepLogInv DEF LandLayer1, StageLayer2
<1>5. ASSUME NEW c \in ProfileClients, StageProfile(c) PROVE LogInv'
  <2>1. LayersInOrder'
    BY <1>5 DEF LogInv, LayersInOrder, StageProfile
  <2> QED BY <1>5, <2>1, SourceStepLogInv DEF StageProfile
<1>6. ASSUME NEW x \in Facts, StageFact(x) PROVE LogInv'
  <2>1. LayersInOrder'
    BY <1>6 DEF LogInv, LayersInOrder, StageFact
  <2> QED BY <1>6, <2>1, SourceStepLogInv DEF StageFact
<1>7. CASE Commit
  BY <1>7, CommitLogInv
<1>8. CASE Crash
  BY <1>8, UndoLogInv DEF Crash
<1>9. CASE BeginApply
  <2>1. ListsInOrder'
    BY <1>1, <1>9 DEF LogInv, ListsInOrder, Reloading, BeginApply, Unapplied, sources
  <2> QED BY <1>1, <1>2, <1>9, <2>1 DEF BeginApply
<1>10. CASE BeginSeed \/ BeginOrphans
  <2>1. ListsInOrder'
    BY <1>1, <1>10 DEF LogInv, ListsInOrder, Reloading, BeginSeed, BeginOrphans
  <2> QED BY <1>1, <1>2, <1>10, <2>1 DEF BeginSeed, BeginOrphans
<1>11. CASE BeginFacts
  <2>1. ListsInOrder'
    BY <1>1, <1>11 DEF LogInv, ListsInOrder, Reloading, BeginFacts
  <2> QED BY <1>1, <1>2, <1>11, <2>1 DEF BeginFacts
<1>12. ASSUME NEW w \in Windows, BeginReload(w) PROVE LogInv'
  <2>1. ListsInOrder'
    BY <1>1, <1>12 DEF LogInv, ListsInOrder, Reloading, BeginReload
  <2> QED BY <1>1, <1>2, <1>12, <2>1 DEF BeginReload
<1>13. ASSUME NEW l \in Lsns, ApplyRow(l) \/ ReplayRow(l) PROVE LogInv'
  BY <1>13, ApplyRowLogInv, ReplayRowLogInv
<1>14. ASSUME NEW c \in Clients, SeedClient(c) \/ SeedOrphan(c) PROVE LogInv'
  <2>1. ListsInOrder'
    BY <1>1, <1>14 DEF LogInv, ListsInOrder, Reloading, SeedClient, SeedOrphan
  <2> QED BY <1>14, <2>1, SeedLogInv DEF SeedClient, SeedOrphan
<1>15. ASSUME NEW x \in Facts, LoadFact(x) \/ ReresolveFact(x) PROVE LogInv'
  BY <1>15, LoadFactLogInv, ReresolveLogInv
<1>16. ASSUME NEW x \in Facts, LoadFactOnStopgap(x) \/ LoadFactRaises(x) PROVE LogInv'
  BY <1>16, StopgapLogInv, UndoLogInv DEF LoadFactRaises
<1>17. ASSUME NEW c \in Clients, ResetClient(c) PROVE LogInv'
  BY <1>17, ResetLogInv
<1>18. CASE FinishClient
  BY <1>18, FinishLogInv
<1>19. CASE UNCHANGED vars
  BY <1>19 DEF vars, sources, tables, progress, LogInv, LayersInOrder, ListsInOrder, Reloading,
       HistoriesLogged, PinsLogged, WaitingFacts, CommittedLogged, NoneForgotten, TempOf,
       MarkSoFar, RecordedSoFar, WillRecord, FactsOn
<1> QED
  BY <1>3, <1>4, <1>5, <1>6, <1>7, <1>8, <1>9, <1>10, <1>11, <1>12, <1>13, <1>14,
     <1>15, <1>16, <1>17, <1>18, <1>19 DEF Next

\* At every step of every load the histories, the watermarks and the facts,
\* as the transaction sees them and as committed, are in step with the log.
THEOREM LogInvariant == Spec => [](TypeOK /\ IInv /\ LogInv)
<1>1. Init => TypeOK /\ IInv /\ LogInv
  BY InitTypeOK, InitIInv, InitLogInv
<1>2. (TypeOK /\ IInv /\ LogInv) /\ [Next]_vars => (TypeOK /\ IInv /\ LogInv)'
  BY NextTypeOK, NextIInv, NextLogInv
<1> QED BY <1>1, <1>2, PTL DEF Spec

----------------------------------------------------------------------------
(* What it implies.                                                        *)

\* A fact's risk_snapshot_key always refers to a row that exists.
THEOREM ForeignKeys == Spec => []FactsHaveRows
<1>1. LogInv => FactsHaveRows
  BY DEF LogInv, PinsLogged, PinsHaveRows, FactsHaveRows
<1> QED BY <1>1, LogInvariant, PTL

\* The committed watermark names the newest recorded event.
THEOREM WatermarkTheorem == Spec => []WatermarkIsNewestVersion
<1>1. LogInv => WatermarkIsNewestVersion
  BY DEF LogInv, CommittedLogged, TablesLogged, MarkIsNewest, WatermarkIsNewestVersion, NoWatermark
<1> QED BY <1>1, LogInvariant, PTL

\* A committed version says what its event said, also after any number of
\* reloads.
THEOREM VersionsTheorem == Spec => []VersionsMatchTheLog
<1>1. TypeOK /\ IInv /\ LogInv => VersionsMatchTheLog
  <2> SUFFICES ASSUME TypeOK, IInv, LogInv, NEW c \in Clients, NEW l \in DOMAIN db.snap[c], l > 0
               PROVE  LET row == db.snap[c][l] IN
                      /\ l \in Lsns /\ Wal[l].client = c
                      /\ row.valid_from = Wal[l].commit_ts
                      /\ row.is_deleted = (Wal[l].op = "delete")
                      /\ IF row.is_deleted
                         THEN \A m \in Predecessor(db.snap[c], l) : row.attrs = db.snap[c][m].attrs
                         ELSE row.attrs[1] = l
    BY DEF VersionsMatchTheLog
  <2>1. l # NoTemp /\ HistoryInv(db.snap[c], db.wm[c], c, NoTemp)
    BY ClientType DEF NoTemp
  <2>2. l \in Lsns /\ Wal[l].client = c /\ db.snap[c][l].valid_from = Wal[l].commit_ts
    BY <2>1 DEF HistoryInv, RowsAreLogged
  <2>3. VersionsAreEvents(db.snap[c], NoTemp)
    BY DEF LogInv, CommittedLogged, TablesLogged
  <2>4. /\ db.snap[c][l].is_deleted = (Wal[l].op = "delete")
        /\ IF Wal[l].op = "delete"
           THEN \A m \in Predecessor(db.snap[c], l) : db.snap[c][l].attrs = db.snap[c][m].attrs
           ELSE db.snap[c][l].attrs[1] = l
    BY <2>1, <2>3 DEF VersionsAreEvents
  <2> QED BY <2>2, <2>4
<1> QED BY <1>1, LogInvariant, PTL

\* After its replay a reload finds a version for every fact that lost its
\* own, and no fact on the placeholder it deletes: neither of its two errors
\* can be raised.
THEOREM ReloadTheorem == Spec => []ReloadNeverRaises
<1>1. TypeOK /\ IInv /\ LogInv => ReloadNeverRaises
  <2> SUFFICES ASSUME TypeOK, IInv, LogInv, Reloading, todo = {}
               PROVE  /\ \A x \in left : CoveringFact(x) # {}
                      /\ left = {} => FactsOn(client, {temp} \ {NoTemp}) = {}
    BY DEF ReloadNeverRaises, Reloading
  <2>1. \A x \in left : CoveringFact(x) # {}
    BY WaitingCovered
  <2>2. temp # NoTemp => FactsOn(client, {temp}) \subseteq left
    BY DEF LogInv, WaitingFacts
  <2>3. CASE temp = NoTemp
    BY <2>1, <2>3 DEF FactsOn
  <2>4. CASE temp # NoTemp
    <3>1. {temp} \ {NoTemp} = {temp}
      BY <2>4
    <3> QED BY <2>1, <2>2, <2>4, <3>1
  <2> QED BY <2>3, <2>4
<1> QED BY <1>1, LogInvariant, PTL

\* Nothing but a commit changes the committed tables.
LEMMA OnlyCommits ==
    ASSUME [Next]_vars
    PROVE  Commit \/ db' = db
BY DEF Next, vars, Deliver, Redeliver, LandLayer1, StageLayer2, StageProfile, StageFact,
   Crash, Undo, BeginApply, ApplyRow, BeginSeed, BeginOrphans, SeedClient, SeedOrphan,
   BeginFacts, LoadFact, LoadFactOnStopgap, LoadFactRaises, BeginReload, ResetClient,
   ReplayRow, ReresolveFact, FinishClient

\* What a commit makes of the committed tables.
LEMMA CommitEffect ==
    ASSUME IInv, LogInv, Commit
    PROVE  /\ client = NoClient
           /\ db'.snap = snap /\ db'.wm = wm /\ db'.quar = quar /\ db'.fact = fact
           /\ TablesLogged(snap, wm, fact, raw)
           /\ \A c \in Clients : Real(db.snap[c]) \subseteq DOMAIN snap[c]
<1>1. client = NoClient
  BY DEF IInv, Commit, Finished
<1>2. db' = Tables
  BY DEF Commit
<1> QED BY <1>1, <1>2, LoggedOutsideReload DEF Tables

\* No commit loses a real version that an earlier one recorded.
THEOREM VersionsKept == Spec => NoVersionLost
<1> DEFINE Kept == \A c \in Clients : Real(db.snap[c]) \subseteq DOMAIN db'.snap[c]
<1>1. TypeOK /\ IInv /\ LogInv /\ [Next]_vars => [Kept]_vars
  <2> SUFFICES ASSUME TypeOK, IInv, LogInv, [Next]_vars PROVE Kept
    OBVIOUS
  <2>1. CASE Commit
    BY <2>1, CommitEffect
  <2>2. CASE db' = db
    BY <2>2 DEF Real
  <2>3. Commit \/ db' = db
    BY OnlyCommits
  <2> QED BY <2>1, <2>2, <2>3
<1>2. Spec => [][Kept]_vars
  BY <1>1, LogInvariant, PTL DEF Spec
<1> QED BY <1>2 DEF NoVersionLost
\* A commit that holds all that was committed before has no older watermark.
LEMMA MarkNotBack ==
    ASSUME TypeOK, IInv, LogInv, client = NoClient, NEW c \in Clients
    PROVE  db.wm[c] <= wm[c]
<1> DEFINE H == snap[c]
           D == db.snap[c]
           w == wm[c]
           v == db.wm[c]
<1> SUFFICES v <= w
  OBVIOUS
<1>1. /\ w \in Int /\ v \in Int /\ DOMAIN H \subseteq Int
      /\ IsHistory(H) /\ HistoryInv(H, w, c, NoTemp)
  BY ClientType DEF TempOf
<1>2. MarkIsNewest(H, w) /\ MarkIsNewest(D, v) /\ Real(D) \subseteq DOMAIN H
  <2>1. TablesLogged(snap, wm, fact, raw) /\ Real(D) \subseteq DOMAIN H
    BY LoggedOutsideReload
  <2>2. TablesLogged(db.snap, db.wm, db.fact, raw)
    BY DEF LogInv, CommittedLogged
  <2> QED BY <2>1, <2>2 DEF TablesLogged
<1> HIDE DEF H, D, w, v
<1>3. CASE v = NoWatermark
  BY <1>1, <1>2, <1>3 DEF MarkIsNewest, NoWatermark
<1>4. CASE v > 0 /\ v \in Newest(D)
  <2>1. v \in DOMAIN H
    BY <1>1, <1>2, <1>4 DEF Newest, Real
  <2>2. v <= w
    BY <1>1, <1>4, <2>1 DEF HistoryInv, RowsAreLogged, NoTemp
  <2> QED BY <2>2
<1> QED BY <1>2, <1>3, <1>4 DEF MarkIsNewest

\* No commit moves a watermark back, though a reload rolls it back inside its
\* transaction.
THEOREM WatermarkForward == Spec => WatermarkNeverBack
<1> DEFINE Forward == \A c \in Clients : db.wm[c] <= db'.wm[c]
<1>1. TypeOK /\ IInv /\ LogInv /\ [Next]_vars => [Forward]_vars
  <2> SUFFICES ASSUME TypeOK, IInv, LogInv, [Next]_vars PROVE Forward
    OBVIOUS
  <2>1. CASE Commit
    <3>1. client = NoClient /\ db'.wm = wm
      BY <2>1, CommitEffect
    <3> QED BY <3>1, MarkNotBack
  <2>2. CASE db' = db
    BY <2>2, ClientType
  <2> QED BY <2>1, <2>2, OnlyCommits
<1>2. Spec => [][Forward]_vars
  BY <1>1, LogInvariant, PTL DEF Spec
<1> QED BY <1>2 DEF WatermarkNeverBack
=============================================================================
