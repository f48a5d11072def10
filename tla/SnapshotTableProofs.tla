------------------------ MODULE SnapshotTableProofs ------------------------
(***************************************************************************)
(* What the statements on one client's history keep: its type, and the      *)
(* shape that makes its versions tile time.                                *)
(***************************************************************************)
EXTENDS SnapshotTable, WellFoundedInduction, TLAPS

\* The rows that SQL statements build are versions.
LEMMA OpenRowType ==
    ASSUME NEW ts \in Int, NEW attrs \in Attrs
    PROVE  /\ Row(ts, Forever, TRUE, FALSE, attrs) \in Version
           /\ Row(ts, Forever, TRUE, TRUE, attrs) \in Version
           /\ Row(ts, Forever, FALSE, FALSE, attrs) \in Version
BY ForeverAssumption DEF Row, Version

\* INSERT of a version keeps a history a history.
LEMMA InsertType ==
    ASSUME NEW H, IsHistory(H), NEW lsn \in Int, NEW row \in Version
    PROVE  IsHistory(Insert(H, lsn, row))
BY DEF IsHistory, Insert

\* So does DELETE.
LEMMA DeleteType ==
    ASSUME NEW H, IsHistory(H), NEW lsns
    PROVE  IsHistory(Delete(H, lsns))
BY DEF IsHistory, Delete

\* So does end-dating the current version.
LEMMA EndDateType ==
    ASSUME NEW H, IsHistory(H), NEW ts \in Int
    PROVE  IsHistory(EndDateCurrent(H, ts))
<1> DEFINE E == EndDateCurrent(H, ts)
<1>1. DOMAIN E = DOMAIN H /\ E = [l \in DOMAIN E |-> E[l]]
  BY DEF EndDateCurrent
<1>2. ASSUME NEW l \in DOMAIN H PROVE E[l] \in Version
  BY DEF EndDateCurrent, IsHistory, Version
<1> QED BY <1>1, <1>2 DEF IsHistory

\* So does appending the version of an insert or an update.
LEMMA ApplyUpsertType ==
    ASSUME NEW H, IsHistory(H), NEW lsn \in Int, NEW ts \in Int, NEW attrs \in Attrs
    PROVE  IsHistory(ApplyUpsert(H, lsn, ts, attrs))
<1>1. IsHistory(EndDateCurrent(H, ts))
  BY EndDateType
<1>2. Row(ts, Forever, TRUE, FALSE, attrs) \in Version
  BY OpenRowType
<1> QED BY <1>1, <1>2, InsertType DEF ApplyUpsert

\* So does appending a tombstone, which copies the columns of some row.
LEMMA ApplyDeleteType ==
    ASSUME NEW H, IsHistory(H), NEW lsn \in Int, NEW ts \in Int
    PROVE  IsHistory(ApplyDelete(H, lsn, ts))
<1> DEFINE copied == {H[l].attrs : l \in Newest(H)}
<1>1. IsHistory(EndDateCurrent(H, ts))
  BY EndDateType
<1>2. ASSUME NEW l \in Newest(H) PROVE H[l].attrs \in Attrs
  BY DEF Newest, IsHistory, Version
<1>3. copied # {} => (CHOOSE a \in copied : TRUE) \in Attrs
  BY <1>2
<1>4. CASE copied = {}
  BY <1>1, <1>4 DEF ApplyDelete
<1>5. CASE copied # {}
  <2>1. Row(ts, Forever, TRUE, TRUE, CHOOSE a \in copied : TRUE) \in Version
    BY <1>3, <1>5, OpenRowType
  <2> QED BY <1>1, <1>5, <2>1, InsertType DEF ApplyDelete
<1> QED BY <1>4, <1>5

\* So does the reset of a reload.
LEMMA ResetFromType ==
    ASSUME NEW H, IsHistory(H), NEW from \in Int
    PROVE  IsHistory(ResetFrom(H, from))
<1> DEFINE R == ResetFrom(H, from)
<1>1. DOMAIN R = Below(H, from) /\ R = [l \in DOMAIN R |-> R[l]]
  BY DEF ResetFrom
<1>2. Below(H, from) \subseteq DOMAIN H
  BY DEF Below
<1>3. ASSUME NEW l \in Below(H, from) PROVE R[l] \in Version
  <2>1. H[l] \in Version
    BY <1>2 DEF IsHistory
  <2>2. [H[l] EXCEPT !.is_current = TRUE, !.valid_to = Forever] \in Version
    <3>1. Forever \in Int
      BY ForeverAssumption
    <3>2. ASSUME NEW v \in Version
          PROVE  [v EXCEPT !.is_current = TRUE, !.valid_to = Forever] \in Version
      BY <3>1 DEF Version
    <3> QED BY <2>1, <3>2
  <2>3. R[l] = H[l] \/ R[l] = [H[l] EXCEPT !.is_current = TRUE, !.valid_to = Forever]
    BY DEF ResetFrom
  <2> QED BY <2>1, <2>2, <2>3
<1> QED BY <1>1, <1>2, <1>3 DEF IsHistory

\* The constant rows and the empty history are well typed.
LEMMA ConstantRowsType ==
    /\ IsHistory(NoHistory)
    /\ UnknownAttrs \in Attrs /\ ProfileAttrs \in Attrs
    /\ \A ts \in Int : StopgapRow(ts) \in Version
    /\ \A attrs \in Attrs : BaselineRow(attrs) \in Version
<1>1. UnknownAttrs \in Attrs /\ ProfileAttrs \in Attrs
  BY DEF UnknownAttrs, ProfileAttrs, Attrs
<1>2. IsHistory(NoHistory)
  BY DEF IsHistory, NoHistory
<1>3. ASSUME NEW ts \in Int PROVE StopgapRow(ts) \in Version
  <2>1. ts + 1 \in Int
    OBVIOUS
  <2> QED BY <1>1, <2>1 DEF StopgapRow, Row, Version
<1>4. ASSUME NEW attrs \in Attrs PROVE BaselineRow(attrs) \in Version
  <2>1. Epoch \in Int
    BY DEF Epoch
  <2> QED BY <2>1, OpenRowType DEF BaselineRow
<1> QED BY <1>1, <1>2, <1>3, <1>4

----------------------------------------------------------------------------

\* Closing the open version at ts and appending one that starts at ts, above
\* all others, keeps a history tiled.
LEMMA AppendTiled ==
    ASSUME NEW H, IsHistory(H), Tiled(H), NEW lsn \in Int, NEW ts \in Int,
           \A l \in DOMAIN H : l < lsn,
           NEW deleted \in BOOLEAN, NEW attrs
    PROVE  Tiled(Insert(EndDateCurrent(H, ts), lsn, Row(ts, Forever, TRUE, deleted, attrs)))
<1> DEFINE G == Insert(EndDateCurrent(H, ts), lsn, Row(ts, Forever, TRUE, deleted, attrs))
<1>1. DOMAIN G = DOMAIN H \cup {lsn} /\ lsn \notin DOMAIN H /\ DOMAIN H \subseteq Int
  BY DEF Insert, EndDateCurrent, IsHistory
<1>2. /\ G[lsn].is_current = TRUE /\ G[lsn].valid_to = Forever /\ G[lsn].valid_from = ts
  BY <1>1 DEF Insert, EndDateCurrent, Row
<1>3. ASSUME NEW l \in DOMAIN H
      PROVE  /\ G[l].is_current = FALSE
             /\ G[l].valid_from = H[l].valid_from
             /\ G[l].valid_to = IF H[l].is_current THEN ts ELSE H[l].valid_to
  <2>1. H[l] \in Version
    BY DEF IsHistory
  <2>2. G[l] = IF H[l].is_current
               THEN [H[l] EXCEPT !.valid_to = ts, !.is_current = FALSE] ELSE H[l]
    BY <1>1 DEF Insert, EndDateCurrent
  <2> QED BY <2>1, <2>2 DEF Version
<1> HIDE DEF G
<1>4. ASSUME NEW l \in DOMAIN G, G[l].is_current
      PROVE  G[l].valid_to = Forever /\ \A m \in DOMAIN G : m <= l
  <2>1. l = lsn
    BY <1>1, <1>3, <1>4
  <2> QED BY <1>1, <1>2, <2>1
<1>5. ASSUME NEW l \in DOMAIN G, l >= 0, ~ G[l].is_current
      PROVE  \E m \in DOMAIN G : Adjacent(G, l, m) /\ G[l].valid_to = G[m].valid_from
  <2>1. l \in DOMAIN H
    BY <1>1, <1>2, <1>5
  <2>2. CASE H[l].is_current
    <3>1. Adjacent(G, l, lsn)
      BY <1>1, <2>1, <2>2 DEF Adjacent, Tiled
    <3> QED BY <1>1, <1>2, <1>3, <2>1, <2>2, <3>1
  <2>3. CASE ~ H[l].is_current
    <3>1. PICK m \in DOMAIN H : Adjacent(H, l, m) /\ H[l].valid_to = H[m].valid_from
      BY <1>5, <2>1, <2>3 DEF Tiled
    <3>2. Adjacent(G, l, m)
      BY <1>1, <3>1 DEF Adjacent
    <3> QED BY <1>1, <1>3, <2>1, <2>3, <3>1, <3>2
  <2> QED BY <2>2, <2>3
<1>6. Tiled(G)
  BY <1>4, <1>5 DEF Tiled
<1> QED BY <1>6 DEF G

\* G is H with at most the row lsn added, which starts at ts; the other rows
\* start when they did.
AtMostAppends(G, H, lsn, ts) ==
    /\ DOMAIN H \subseteq DOMAIN G /\ DOMAIN G \subseteq DOMAIN H \cup {lsn}
    /\ \A l \in DOMAIN H : G[l].valid_from = H[l].valid_from
    /\ lsn \in DOMAIN G => G[lsn].valid_from = ts

\* Closing and appending adds one row.
LEMMA AppendAppends ==
    ASSUME NEW H, IsHistory(H), NEW lsn \in Int, NEW ts \in Int, lsn \notin DOMAIN H,
           NEW deleted, NEW attrs
    PROVE  AtMostAppends(Insert(EndDateCurrent(H, ts), lsn,
                                Row(ts, Forever, TRUE, deleted, attrs)), H, lsn, ts)
<1> DEFINE G == Insert(EndDateCurrent(H, ts), lsn, Row(ts, Forever, TRUE, deleted, attrs))
<1>1. DOMAIN G = DOMAIN H \cup {lsn}
  BY DEF Insert, EndDateCurrent
<1>2. G[lsn].valid_from = ts
  BY DEF Insert, EndDateCurrent, Row
<1>3. ASSUME NEW l \in DOMAIN H PROVE G[l].valid_from = H[l].valid_from
  <2>1. H[l] \in Version
    BY DEF IsHistory
  <2> QED BY <2>1 DEF Insert, EndDateCurrent, Version
<1> QED BY <1>1, <1>2, <1>3 DEF AtMostAppends

\* The version an insert or an update appends.
LEMMA ApplyUpsertTiled ==
    ASSUME NEW H, IsHistory(H), Tiled(H), NEW lsn \in Int, NEW ts \in Int, NEW attrs,
           \A l \in DOMAIN H : l < lsn
    PROVE  /\ Tiled(ApplyUpsert(H, lsn, ts, attrs))
           /\ AtMostAppends(ApplyUpsert(H, lsn, ts, attrs), H, lsn, ts)
<1>1. lsn \notin DOMAIN H
  BY DEF IsHistory
<1> QED BY <1>1, AppendTiled, AppendAppends DEF ApplyUpsert

\* The tombstone a delete appends; with no newest row there is no open version
\* to close either.
LEMMA ApplyDeleteTiled ==
    ASSUME NEW H, IsHistory(H), Tiled(H), NEW lsn \in Int, NEW ts \in Int,
           \A l \in DOMAIN H : l < lsn
    PROVE  /\ Tiled(ApplyDelete(H, lsn, ts))
           /\ AtMostAppends(ApplyDelete(H, lsn, ts), H, lsn, ts)
<1> DEFINE copied == {H[l].attrs : l \in Newest(H)}
<1>1. lsn \notin DOMAIN H
  BY DEF IsHistory
<1>2. CASE copied = {}
  <2>1. \A l \in DOMAIN H : ~ H[l].is_current
    BY <1>2 DEF Tiled, Newest
  <2>2. EndDateCurrent(H, ts) = H
    BY <2>1 DEF EndDateCurrent, IsHistory
  <2>3. ApplyDelete(H, lsn, ts) = H
    BY <1>2, <2>2 DEF ApplyDelete
  <2> QED BY <1>1, <2>3 DEF AtMostAppends
<1>3. CASE copied # {}
  <2> DEFINE a == CHOOSE a \in copied : TRUE
  <2>1. ApplyDelete(H, lsn, ts)
          = Insert(EndDateCurrent(H, ts), lsn, Row(ts, Forever, TRUE, TRUE, a))
    BY <1>3 DEF ApplyDelete
  <2> HIDE DEF a, copied
  <2> QED BY <1>1, <2>1, AppendTiled, AppendAppends
<1> QED BY <1>2, <1>3

\* A reset keeps the rows below its point, reopens the newest of them, and
\* moves no start.
LEMMA ResetFromTiled ==
    ASSUME NEW H, IsHistory(H), Tiled(H), NEW from \in Int
    PROVE  /\ Tiled(ResetFrom(H, from))
           /\ DOMAIN ResetFrom(H, from) = Below(H, from)
           /\ \A l \in Below(H, from) : ResetFrom(H, from)[l].valid_from = H[l].valid_from
<1> DEFINE R == ResetFrom(H, from)
           K == Below(H, from)
           Reopened(l) == \A other \in K : other <= l
<1>1. DOMAIN R = K /\ K \subseteq DOMAIN H /\ DOMAIN H \subseteq Int
  BY DEF ResetFrom, Below, IsHistory
<1>2. \A l \in DOMAIN H : l \in K <=> l < from
  BY DEF Below
<1>3. ASSUME NEW l \in K
      PROVE  /\ R[l].valid_from = H[l].valid_from
             /\ Reopened(l) => R[l].is_current = TRUE /\ R[l].valid_to = Forever
             /\ ~ Reopened(l) => R[l] = H[l]
  <2>1. H[l] \in Version
    BY <1>1 DEF IsHistory
  <2> QED BY <2>1 DEF ResetFrom, Version
<1> HIDE DEF R, K
<1>4. ASSUME NEW l \in DOMAIN R, R[l].is_current
      PROVE  R[l].valid_to = Forever /\ \A m \in DOMAIN R : m <= l
  BY <1>1, <1>3, <1>4 DEF Tiled
<1>5. ASSUME NEW l \in DOMAIN R, l >= 0, ~ R[l].is_current
      PROVE  \E m \in DOMAIN R : Adjacent(R, l, m) /\ R[l].valid_to = R[m].valid_from
  <2>1. l \in K /\ ~ Reopened(l) /\ R[l] = H[l]
    BY <1>1, <1>3, <1>5
  <2>2. PICK other \in K : l < other
    BY <1>1, <2>1
  <2>3. PICK m \in DOMAIN H : Adjacent(H, l, m) /\ H[l].valid_to = H[m].valid_from
    BY <1>1, <1>5, <2>1 DEF Tiled
  <2>4. m <= other
    BY <1>1, <2>2, <2>3 DEF Adjacent
  <2>5. m \in K
    BY <1>1, <1>2, <2>2, <2>4
  <2>6. Adjacent(R, l, m)
    BY <1>1, <2>3 DEF Adjacent
  <2> QED BY <1>1, <1>3, <2>1, <2>3, <2>5, <2>6
<1>6. Tiled(R)
  BY <1>4, <1>5 DEF Tiled
<1> QED BY <1>1, <1>3, <1>6 DEF R, K

\* With no row below the reset point, the placeholder is all a reset leaves.
LEMMA ResetToPlaceholderTiled ==
    ASSUME NEW H, IsHistory(H), NEW from \in Int, Below(H, from) = {}, NEW row \in Version
    PROVE  /\ Tiled(ResetFrom(Insert(H, from - 1, row), from))
           /\ DOMAIN ResetFrom(Insert(H, from - 1, row), from) = {from - 1}
<1> DEFINE G == Insert(H, from - 1, row)
           R == ResetFrom(G, from)
<1>1. IsHistory(G) /\ DOMAIN G = DOMAIN H \cup {from - 1} /\ DOMAIN H \subseteq Int
  BY InsertType DEF Insert, IsHistory
<1>2. Below(G, from) = {from - 1}
  BY <1>1 DEF Below
<1> HIDE DEF G
<1>3. DOMAIN R = {from - 1}
  BY <1>2 DEF ResetFrom
<1>4. G[from - 1] \in Version
  BY <1>1 DEF IsHistory
<1>5. R[from - 1].is_current = TRUE /\ R[from - 1].valid_to = Forever
  BY <1>2, <1>4 DEF ResetFrom, Version
<1>6. Tiled(R)
  <2> HIDE DEF R
  <2> QED BY <1>3, <1>5 DEF Tiled
<1> QED BY <1>3, <1>6 DEF G

\* The oldest row can go.
LEMMA DeleteOldestTiled ==
    ASSUME NEW H, IsHistory(H), Tiled(H), NEW lsns,
           \A l \in lsns : \A m \in DOMAIN H : l <= m
    PROVE  Tiled(Delete(H, lsns))
<1> DEFINE D == Delete(H, lsns)
<1>1. /\ DOMAIN D = DOMAIN H \ lsns /\ DOMAIN H \subseteq Int
      /\ \A l \in DOMAIN D : D[l] = H[l]
  BY DEF Delete, IsHistory
<1> HIDE DEF D
<1>2. ASSUME NEW l \in DOMAIN D, D[l].is_current
      PROVE  D[l].valid_to = Forever /\ \A m \in DOMAIN D : m <= l
  BY <1>1, <1>2 DEF Tiled
<1>3. ASSUME NEW l \in DOMAIN D, l >= 0, ~ D[l].is_current
      PROVE  \E m \in DOMAIN D : Adjacent(D, l, m) /\ D[l].valid_to = D[m].valid_from
  <2>1. PICK m \in DOMAIN H : Adjacent(H, l, m) /\ H[l].valid_to = H[m].valid_from
    BY <1>1, <1>3 DEF Tiled
  <2>2. m \in DOMAIN D
    BY <1>1, <2>1 DEF Adjacent
  <2>3. Adjacent(D, l, m)
    BY <1>1, <2>1 DEF Adjacent
  <2> QED BY <1>1, <2>1, <2>2, <2>3
<1>4. Tiled(D)
  BY <1>2, <1>3 DEF Tiled
<1> QED BY <1>4 DEF D

\* A baseline over a history of stopgaps and at most an older baseline, the
\* stopgaps deleted, is a history of the one row 0.
LEMMA SeedTiled ==
    ASSUME NEW H, IsHistory(H), Tiled(H), \A l \in DOMAIN H : l <= 0, NEW attrs
    PROVE  /\ Tiled(Delete(Insert(H, 0, BaselineRow(attrs)), {l \in DOMAIN H : l < 0}))
           /\ DOMAIN Delete(Insert(H, 0, BaselineRow(attrs)), {l \in DOMAIN H : l < 0}) = {0}
<1> DEFINE D == Delete(Insert(H, 0, BaselineRow(attrs)), {l \in DOMAIN H : l < 0})
<1>1. DOMAIN D = {0}
  BY DEF Delete, Insert, IsHistory
<1>2. D[0] = IF 0 \in DOMAIN H THEN H[0] ELSE BaselineRow(attrs)
  BY <1>1 DEF Delete, Insert
<1>3. D[0].is_current /\ D[0].valid_to = Forever
  <2>1. CASE 0 \in DOMAIN H
    <3>1. ~ \E m \in DOMAIN H : Adjacent(H, 0, m)
      BY DEF Adjacent, IsHistory
    <3> QED BY <1>2, <2>1, <3>1 DEF Tiled
  <2>2. CASE 0 \notin DOMAIN H
    BY <1>2, <2>2 DEF BaselineRow, Row
  <2> QED BY <2>1, <2>2
<1> HIDE DEF D
<1>4. Tiled(D)
  BY <1>1, <1>3 DEF Tiled
<1> QED BY <1>1, <1>4 DEF D

\* A stopgap goes below everything, is closed, and is no real row.
LEMMA StopgapTiled ==
    ASSUME NEW H, IsHistory(H), Tiled(H), \A l \in DOMAIN H : l < 0,
           NEW lsn \in StopgapLsns(H), NEW ts
    PROVE  /\ lsn \in Int /\ lsn < 0 /\ lsn \notin DOMAIN H
           /\ Tiled(Insert(H, lsn, StopgapRow(ts)))
<1> DEFINE G == Insert(H, lsn, StopgapRow(ts))
<1>1. lsn \in Int /\ lsn < 0 /\ \A m \in DOMAIN H : lsn < m
  BY DEF StopgapLsns, IsHistory
<1>2. lsn \notin DOMAIN H /\ DOMAIN H \subseteq Int
  BY <1>1 DEF IsHistory
<1>3. DOMAIN G = DOMAIN H \cup {lsn} /\ \A l \in DOMAIN H : G[l] = H[l]
  BY DEF Insert
<1>4. G[lsn].is_current = FALSE
  BY <1>2 DEF Insert, StopgapRow, Row
<1> HIDE DEF G
<1>5. Tiled(G)
  BY <1>1, <1>2, <1>3, <1>4 DEF Tiled
<1> QED BY <1>1, <1>2, <1>5 DEF G
----------------------------------------------------------------------------
(* Least and greatest elements.  Histories are not finite sets here, but    *)
(* their lsns are bounded from above by the watermark.                      *)

\* A set of naturals that is not empty has a least element.
LEMMA LeastNatural ==
    ASSUME NEW S \in SUBSET Nat, S # {}
    PROVE  \E x \in S : \A y \in S : x <= y
<1> DEFINE R == OpToRel(<, Nat)
<1>1. IsWellFoundedOn(R, Nat)
  BY NatLessThanWellFounded
<1>2. \A x, y \in Nat : x < y => <<x, y>> \in R
  BY DEF OpToRel
<1> HIDE DEF R
<1>3. PICK x \in S : \A y \in S : ~ (<<y, x>> \in R)
  BY <1>1, WFMin
<1>4. ASSUME NEW y \in S PROVE x <= y
  <2>1. ~ (y < x)
    <3>1. x \in Nat /\ y \in Nat
      OBVIOUS
    <3>2. ~ (<<y, x>> \in R)
      BY <1>3
    <3> QED BY <1>2, <3>1, <3>2, Zenon
  <2> QED BY <2>1
<1> QED BY <1>4

\* A set of integers with an upper bound has a greatest element.
LEMMA GreatestInteger ==
    ASSUME NEW S \in SUBSET Int, S # {}, NEW b \in Int, \A x \in S : x <= b
    PROVE  \E x \in S : \A y \in S : y <= x
<1> DEFINE T == {n \in Nat : b - n \in S}
<1>1. T # {}
  <2>1. PICK x \in S : TRUE
    OBVIOUS
  <2>2. b - x \in Nat /\ b - (b - x) = x
    OBVIOUS
  <2> QED BY <2>1, <2>2
<1>2. PICK t \in T : \A u \in T : t <= u
  BY <1>1, LeastNatural
<1>3. ASSUME NEW y \in S PROVE y <= b - t
  <2>1. b - y \in Nat /\ b - (b - y) = y
    OBVIOUS
  <2> QED BY <1>2, <2>1
<1> QED BY <1>2, <1>3

\* A history below a bound that is not empty has a newest row, and only one.
LEMMA NewestExists ==
    ASSUME NEW H, IsHistory(H), DOMAIN H # {}, NEW b \in Int, \A l \in DOMAIN H : l <= b
    PROVE  \E l \in DOMAIN H : Newest(H) = {l}
<1>1. DOMAIN H \in SUBSET Int
  BY DEF IsHistory
<1>2. PICK l \in DOMAIN H : \A m \in DOMAIN H : m <= l
  BY <1>1, GreatestInteger
<1> QED BY <1>1, <1>2 DEF Newest
=============================================================================
