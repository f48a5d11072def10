----------------------- MODULE WarehouseTimelineProofs -----------------------
(***************************************************************************)
(* WarehouseLoads implements ClientTimeline, for every log, set of facts    *)
(* and reload window: each commit is one step of the timeline, the one its  *)
(* kind of load is allowed, and every other step stutters.                  *)
(***************************************************************************)
EXTENDS WarehouseStepProofs

\* The timeline's recorded versions, before and after a commit.
Recorded == [c \in Clients |-> Real(db.snap[c])]
Committed == [c \in Clients |-> Real(snap[c])]

\* A load's commit hands its tables to the timeline.
LEMMA CommitMaps ==
    ASSUME IInv, LogInv, Commit
    PROVE  /\ Recorded' = Committed /\ db'.wm = wm /\ db'.fact = fact
           /\ \A c \in Clients : Recorded[c] \subseteq Committed[c]
<1>1. db'.snap = snap /\ db'.wm = wm /\ db'.fact = fact
  BY CommitEffect
<1>2. \A c \in Clients : Real(db.snap[c]) \subseteq Real(snap[c])
  BY CommitEffect DEF Real
<1> QED BY <1>1, <1>2 DEF Recorded, Committed

\* A streaming apply adds changes above the mark.
LEMMA ApplyAppends ==
    ASSUME TypeOK, IInv, LogInv, LoadsInv, Commit, job = "apply"
    PROVE  Timeline!Append
<1> SUFFICES ASSUME NEW c \in Clients PROVE Timeline!AppendTo(c)
  BY CommitMaps DEF LoadsInv, ApplySoFar, Timeline!Append
<1> DEFINE new == DOMAIN snap[c] \ DOMAIN db.snap[c]
<1>1. /\ DOMAIN db.snap[c] \subseteq DOMAIN snap[c]
      /\ \A l \in new : l > 0 /\ l > db.wm[c]
      /\ IF new = {} THEN wm[c] = db.wm[c] ELSE wm[c] \in new
  BY DEF LoadsInv, ApplySoFar
<1>2. \A l \in DOMAIN snap[c] : l \in Int
  BY ClientType
<1>3. Committed[c] \ Recorded[c] = new
  BY <1>1, <1>2 DEF Committed, Recorded, Real
<1>4. \A l \in new : l <= wm[c]
  <2>1. client = NoClient /\ HistoryInv(snap[c], wm[c], c, TempOf(c))
    BY CommitEffect, ClientType
  <2>2. TempOf(c) = NoTemp
    BY <2>1, ClientType DEF TempOf
  <2> QED BY <1>1, <2>1, <2>2 DEF HistoryInv, RowsAreLogged, NoTemp
<1> HIDE DEF new
<1>5. /\ Recorded[c] \subseteq Committed[c]
      /\ Recorded' = Committed /\ db'.wm = wm
  BY CommitMaps
<1> QED BY <1>1, <1>3, <1>4, <1>5 DEF Timeline!AppendTo, Timeline!Highest, Recorded

\* A seed puts baselines under clients without changes.
LEMMA SeedSeeds ==
    ASSUME TypeOK, IInv, LogInv, LoadsInv, Commit, job = "orphans"
    PROVE  Timeline!SeedBaselines
<1>1. /\ wm = db.wm /\ DOMAIN fact = DOMAIN db.fact
      /\ \A c \in Clients :
            \/ Real(snap[c]) = Real(db.snap[c])
            \/ NoChanges(db.snap[c]) /\ Real(snap[c]) = Real(db.snap[c]) \cup {0}
      /\ \A x \in DOMAIN fact :
            \/ fact[x] = db.fact[x]
            \/ /\ db.fact[x] < 0 /\ fact[x] = 0
               /\ NoChanges(db.snap[FactRow[x].client]) /\ 0 \in Real(snap[FactRow[x].client])
  BY DEF LoadsInv, SeedSoFar
<1>2. Recorded' = Committed /\ db'.wm = wm /\ db'.fact = fact
  BY CommitMaps
<1>3. \A c \in Clients : NoChanges(db.snap[c]) => {l \in Recorded[c] : l > 0} = {}
  BY ClientType DEF NoChanges, Recorded, Real
<1>4. \A x \in DOMAIN fact : x \in Facts /\ FactRow[x].client \in Clients
  BY FactRowType
<1>5. ASSUME NEW c \in Clients
      PROVE  \/ Recorded'[c] = Recorded[c]
             \/ {l \in Recorded[c] : l > 0} = {} /\ Recorded'[c] = Recorded[c] \cup {0}
  BY <1>1, <1>2, <1>3 DEF Recorded, Committed
<1>6. ASSUME NEW x \in DOMAIN db.fact
      PROVE  \/ db'.fact[x] = db.fact[x]
             \/ /\ db.fact[x] < 0 /\ db'.fact[x] = 0
                /\ {l \in Recorded[FactRow[x].client] : l > 0} = {}
                /\ 0 \in Recorded'[FactRow[x].client]
  BY <1>1, <1>2, <1>3, <1>4 DEF Committed
<1> QED BY <1>1, <1>2, <1>4, <1>5, <1>6
           DEF Timeline!SeedBaselines, Timeline!Changes, Timeline!PinnedFacts, Recorded

\* A fact load pins facts and records nothing.
LEMMA FactsPin ==
    ASSUME TypeOK, IInv, LogInv, LoadsInv, Commit, job = "facts"
    PROVE  Timeline!PinFacts
<1>1. /\ wm = db.wm /\ DOMAIN db.fact \subseteq DOMAIN fact
      /\ \A c \in Clients : Real(snap[c]) = Real(db.snap[c])
  BY DEF LoadsInv, FactsSoFar
<1>2. Recorded' = Committed /\ db'.wm = wm /\ db'.fact = fact
  BY CommitMaps
<1>3. Committed = Recorded
  BY <1>1 DEF Committed, Recorded
<1>4. ASSUME NEW x \in DOMAIN fact
      PROVE  x \in Facts /\ (fact[x] \in Recorded[FactRow[x].client] \/ fact[x] < 0)
  <2>1. x \in Facts /\ FactRow[x].client \in Clients
    BY FactRowType
  <2>2. fact[x] \in DOMAIN snap[FactRow[x].client] /\ fact[x] \in Int
    BY <2>1, ClientType DEF LogInv, PinsLogged, PinsHaveRows
  <2>3. Recorded[FactRow[x].client] = Real(snap[FactRow[x].client])
    BY <1>1, <2>1 DEF Recorded
  <2> QED BY <2>1, <2>2, <2>3 DEF Real
<1> QED BY <1>1, <1>2, <1>3, <1>4 DEF Timeline!PinFacts, Timeline!PinnedFacts, Recorded
\* A reload of a client without a change in its window leaves it alone; of any
\* other it gains versions and moves facts from the first version on that is
\* recorded at or after the reset point, if one is.
LEMMA ReloadRebuildsClient ==
    ASSUME TypeOK, IInv, LogInv, LoadsInv, Commit, job = "reload", NEW c \in Clients
    PROVE  \/ /\ Real(snap[c]) = Real(db.snap[c]) /\ wm[c] = db.wm[c]
              /\ \A x \in FactsOf(fact, c) : fact[x] = db.fact[x]
           \/ \E from \in Real(snap[c]) :
                 /\ from > 0
                 /\ \A l \in Real(snap[c]) \ Real(db.snap[c]) : from <= l
                 /\ \A x \in FactsOf(fact, c) : fact[x] # db.fact[x] => from <= db.fact[x]
<1> DEFINE H == snap[c]
           D == db.snap[c]
           w == wm[c]
           v == db.wm[c]
<1>1. CASE c \notin Affected(window)
  BY <1>1, ReloadCommitted DEF AsCommitted, Real
<1>2. CASE c \in Affected(window)
  <2>1. InWindow(c, window) \subseteq Nat /\ InWindow(c, window) # {}
    BY <1>2, WalType DEF InWindow, Affected
  <2>2. PICK from \in InWindow(c, window) : \A m \in InWindow(c, window) : from <= m
    BY <2>1, LeastNatural
  <2>3. from \in ResetLsns(c, window)
    BY <2>2 DEF ResetLsns
  <2>4. from \in Int /\ from > 0
    BY <2>3, ResetLsnType
  <2>5. /\ RebuiltSoFar(c, from) /\ c # client /\ TempOf(c) = NoTemp
        /\ client = NoClient /\ DOMAIN fact = DOMAIN db.fact
    BY <1>2, <2>3, ReloadCommitted
  <2>6. /\ DOMAIN H \subseteq Int /\ DOMAIN D \subseteq Int /\ w \in Int /\ v \in Int
        /\ HistoryInv(H, w, c, NoTemp) /\ HistoryInv(D, v, c, NoTemp)
    BY <2>5, ClientType
  <2>7. \A l \in Real(H) \ Real(D) : from <= l
    BY <2>5 DEF RebuiltSoFar, Placeholder, Real
  <2>8. \A x \in FactsOf(fact, c) : fact[x] # db.fact[x] => db.fact[x] >= from
    BY <2>5 DEF RebuiltSoFar
  <2>9. \A x \in FactsOf(fact, c) : db.fact[x] \in DOMAIN D
    <3>1. PinsHaveRows(db.snap, db.fact)
      BY DEF LogInv, CommittedLogged, TablesLogged
    <3> QED BY <2>5, <3>1 DEF PinsHaveRows, FactsOf
  <2>10. Real(D) \subseteq Real(H)
    BY CommitEffect DEF Real
  <2> DEFINE S == {l \in Real(H) : from <= l}
  <2>11. \A x \in FactsOf(fact, c) : fact[x] # db.fact[x] => db.fact[x] \in S
    BY <2>4, <2>6, <2>8, <2>9, <2>10 DEF Real
  <2>12. CASE S = {}
    <3>1. Real(H) = Real(D)
      BY <2>7, <2>10, <2>12
    <3>2. \A x \in FactsOf(fact, c) : fact[x] = db.fact[x]
      BY <2>11, <2>12
    <3>3. MarkIsNewest(H, w) /\ MarkIsNewest(D, v)
      BY CommitEffect DEF TablesLogged, LogInv, CommittedLogged
    <3> HIDE DEF H, D, w, v
    <3>4. w = v
      <4>1. CASE w = NoWatermark \/ v = NoWatermark
        BY <2>6, <3>1, <3>3, <4>1
           DEF MarkIsNewest, Newest, Real, HistoryInv, RowsAreLogged, NoTemp, NoWatermark
      <4>2. CASE /\ w > 0 /\ w \in Newest(H)
                 /\ v > 0 /\ v \in Newest(D)
        BY <2>6, <3>1, <4>2 DEF Newest, Real
      <4> QED BY <3>3, <4>1, <4>2 DEF MarkIsNewest
    <3> QED BY <3>1, <3>2, <3>4 DEF H, D, w, v
  <2>13. CASE S # {}
    <3>1. S \subseteq Nat
      BY <2>6 DEF Real
    <3>2. PICK s \in S : \A m \in S : s <= m
      <4> HIDE DEF S
      <4> QED BY <2>13, <3>1, LeastNatural
    <3>3. s \in Real(H) /\ s > 0
      BY <2>4, <2>6, <3>2 DEF Real
    <3>4. \A l \in Real(H) \ Real(D) : s <= l
      BY <2>7, <3>2
    <3>5. \A x \in FactsOf(fact, c) : fact[x] # db.fact[x] => s <= db.fact[x]
      BY <2>11, <3>2
    <3> QED BY <3>3, <3>4, <3>5
  <2> QED BY <2>12, <2>13
<1> QED BY <1>1, <1>2

\* A reload rebuilds.
LEMMA ReloadRebuilds ==
    ASSUME TypeOK, IInv, LogInv, LoadsInv, Commit, job = "reload"
    PROVE  Timeline!Rebuild
<1>1. /\ Recorded' = Committed /\ db'.wm = wm /\ db'.fact = fact
      /\ \A c \in Clients : Recorded[c] \subseteq Committed[c]
  BY CommitMaps
<1>2. /\ DOMAIN fact = DOMAIN db.fact /\ client = NoClient
      /\ \A x \in DOMAIN fact : x \in Facts /\ FactRow[x].client \in Clients
  BY FactRowType DEF LoadsInv, ReloadSoFar, Commit, Finished
<1>3. ASSUME NEW c \in Clients, Real(snap[c]) = Real(db.snap[c]), wm[c] = db.wm[c],
             \A x \in FactsOf(fact, c) : fact[x] = db.fact[x]
      PROVE  Timeline!Untouched(c)
  <2>1. Recorded'[c] = Recorded[c]
    BY <1>1, <1>3 DEF Recorded, Committed
  <2>2. \A x \in DOMAIN db.fact : FactRow[x].client = c => fact[x] = db.fact[x]
    BY <1>2, <1>3 DEF FactsOf
  <2> QED BY <1>1, <1>2, <1>3, <2>1, <2>2
             DEF Timeline!Untouched, Timeline!PinnedFacts, Recorded
<1>4. ASSUME NEW c \in Clients, NEW from \in Real(snap[c]), from > 0,
             \A l \in Real(snap[c]) \ Real(db.snap[c]) : from <= l,
             \A x \in FactsOf(fact, c) : fact[x] # db.fact[x] => from <= db.fact[x]
      PROVE  /\ from \in Recorded'[c] /\ Timeline!RebuiltFrom(c, from)
  <2>1. Recorded'[c] = Real(snap[c]) /\ Recorded[c] = Real(db.snap[c])
    BY <1>1 DEF Recorded, Committed
  <2>2. Recorded[c] \subseteq Recorded'[c] /\ \A l \in Recorded'[c] \ Recorded[c] : from <= l
    BY <1>1, <1>4, <2>1
  <2>3. db.wm[c] <= wm[c] /\ wm[c] \in Int /\ db.wm[c] \in Int
    BY <1>2, MarkNotBack, ClientType
  <2>4. wm[c] # db.wm[c] => wm[c] \in Real(snap[c]) /\ \A m \in Real(snap[c]) : m <= wm[c]
    <3>1. MarkIsNewest(snap[c], wm[c]) /\ MarkIsNewest(db.snap[c], db.wm[c])
      BY CommitEffect DEF TablesLogged, LogInv, CommittedLogged
    <3>2. wm[c] # db.wm[c] => wm[c] # NoWatermark
      <4> PICK w \in Int : w = wm[c]
        BY <2>3
      <4> PICK v \in Int : v = db.wm[c]
        BY <2>3
      <4>1. v = NoWatermark \/ v > 0
        BY <3>1 DEF MarkIsNewest
      <4> QED BY <2>3, <4>1 DEF NoWatermark
    <3> QED BY <2>3, <3>1, <3>2 DEF MarkIsNewest, Newest, Real
  <2>5. ASSUME NEW x \in DOMAIN db.fact, FactRow[x].client = c, fact[x] # db.fact[x]
        PROVE  from <= db.fact[x] /\ (fact[x] \in Recorded'[c] \/ fact[x] < 0)
    <3>1. x \in FactsOf(fact, c)
      BY <1>2, <2>5 DEF FactsOf
    <3>2. fact[x] \in DOMAIN snap[c] /\ fact[x] \in Int
      BY <1>2, <2>5, ClientType DEF LogInv, PinsLogged, PinsHaveRows
    <3> QED BY <1>4, <2>1, <2>5, <3>1, <3>2 DEF Real
  <2>6. from \in Recorded'[c]
    BY <1>4, <2>1
  <2> QED BY <1>1, <1>2, <2>1, <2>2, <2>3, <2>4, <2>5, <2>6
             DEF Timeline!RebuiltFrom, Timeline!Highest, Timeline!PinnedFacts, Recorded
<1>5. \A c \in Clients : \/ Timeline!Untouched(c)
                         \/ \E from \in Recorded'[c] : from > 0 /\ Timeline!RebuiltFrom(c, from)
  BY <1>3, <1>4, ReloadRebuildsClient
<1> QED BY <1>1, <1>2, <1>5 DEF Timeline!Rebuild, Timeline!PinnedFacts, Recorded

\* Each committed load does what its kind may do to the timeline and nothing
\* else, and all that it does before it commits is stuttering.
THEOREM Refinement == Spec => ImplementsTimeline
<1>1. Init => Timeline!Init
  BY DEF Init, Tables, Timeline!Init, Timeline!NoMark, NoWatermark, NoHistory, Real
<1>2. TypeOK /\ IInv /\ LogInv /\ LoadsInv /\ [Next]_vars => [Timeline!Next]_Timeline!timeline
  <2> SUFFICES ASSUME TypeOK, IInv, LogInv, LoadsInv, [Next]_vars
               PROVE  [Timeline!Next]_Timeline!timeline
    OBVIOUS
  <2>1. CASE db' = db
    BY <2>1 DEF Timeline!timeline
  <2>2. CASE Commit
    <3>1. job \in {"apply", "orphans", "facts", "reload"}
      BY <2>2 DEF Commit, Finished
    <3> QED BY <2>2, <3>1, ApplyAppends, SeedSeeds, FactsPin, ReloadRebuilds DEF Timeline!Next
  <2> QED BY <2>1, <2>2, OnlyCommits
<1>3. Spec => Timeline!Init /\ [][Timeline!Next]_Timeline!timeline
  BY <1>1, <1>2, LoadsInvariant, PTL DEF Spec
<1> QED BY <1>3 DEF ImplementsTimeline, Timeline!Spec
=============================================================================
