------------------------- MODULE WarehouseInvariants -------------------------
(***************************************************************************)
(* The inductive invariants of WarehouseLoads beyond IInv: what holds       *)
(* between two rows of a load, so that its commit leaves what the           *)
(* properties of WarehouseLoads and WarehouseTimeline say.                  *)
(*                                                                          *)
(* LogInv relates the histories, the watermarks and the facts to the change *)
(* log, also in the middle of a reload, whose client has lost rows that its *)
(* todo still holds.  The *SoFar parts relate what a load has done to what  *)
(* was committed before it.                                                *)
(***************************************************************************)
EXTENDS WarehouseTimeline

FactsOf(f, c) == {x \in DOMAIN f : FactRow[x].client = c}

Reloading == job = "reload" /\ client # NoClient

\* Each layer holds what the one before it has held.
LayersInOrder ==
    \A l \in Lsns : (staged[l] # 0 => raw[l] # 0) /\ (raw[l] # 0 => file[l] # 0)

\* A load's lists are empty when they are not its own.
ListsInOrder ==
    /\ todo # {} => job = "apply" \/ Reloading
    /\ left # {} => job = "facts" \/ Reloading
    /\ pending # {} => job \in {"seed", "orphans", "reload"}
    /\ job = "apply" => \A l \in todo : staged[l] # 0
    /\ Reloading => \A l \in todo : /\ raw[l] # 0 /\ Wal[l].client = client
                                    /\ wm[client] < l

\* A version has its event's columns, a tombstone those of the row before it.
VersionsAreEvents(H, t) ==
    \A l \in DOMAIN H : l > 0 /\ l # t =>
        /\ H[l].is_deleted = (Wal[l].op = "delete")
        /\ IF Wal[l].op = "delete" THEN \A m \in Predecessor(H, l) : H[l].attrs = H[m].attrs
           ELSE H[l].attrs[1] = l

\* The event of a version is in the layer it was read from.
VersionsHaveLanded(H, t, layer) == \A l \in DOMAIN H : l > 0 /\ l # t => layer[l] # 0

PinsHaveRows(S, f) == \A x \in DOMAIN f : f[x] \in DOMAIN S[FactRow[x].client]

\* A fact pinned to a version is not older than it.
DatedPin(x, l) ==
    l > 0 => Wal[l].commit_ts <= FactRow[x].event_ts /\ FactRow[x].event_ts < Forever

\* A tombstone that is a client's oldest row has copied a reload's placeholder,
\* which is made only for a client with facts.
Anchored(H, f, c) ==
    FactsOf(f, c) = {} =>
        \A l \in DOMAIN H : \E o \in DOMAIN H : o <= l /\ (o <= 0 \/ Wal[o].op # "delete")

MarkIsNewest(H, w) == w = NoWatermark \/ (w > 0 /\ w \in Newest(H))

\* How the tables stand to the log between two loads.
TablesLogged(S, w, f, layer) ==
    /\ \A c \in Clients :
          /\ VersionsAreEvents(S[c], NoTemp) /\ VersionsHaveLanded(S[c], NoTemp, layer)
          /\ Anchored(S[c], f, c) /\ MarkIsNewest(S[c], w[c])
    /\ PinsHaveRows(S, f)
    /\ \A x \in DOMAIN f : DatedPin(x, f[x])

\* An event of the client under reload that the replay is going to record: it
\* is not one of the first deletes of a client without rows.
WillRecord(l) ==
    /\ l \in todo
    /\ DOMAIN snap[client] # {} \/ \E o \in todo : o <= l /\ Wal[o].op # "delete"

RecordedSoFar(c, l) ==
    \/ l \in DOMAIN snap[c] \ {TempOf(c)}
    \/ c = client /\ WillRecord(l)

MarkSoFar(c) ==
    \/ MarkIsNewest(snap[c], wm[c]) /\ wm[c] # TempOf(c)
    \/ wm[c] = NoWatermark
    \/ c = client /\ wm[c] >= 0 /\ \E l \in todo : WillRecord(l)

\* Facts wait on the row the reset has kept, or on the placeholder, for the
\* version they had or one before it.
WaitingFacts ==
    Reloading =>
        /\ \A x \in left :
              /\ x \in DOMAIN fact /\ FactRow[x].client = client
              /\ \E l \in Lsns : /\ Wal[l].client = client /\ RecordedSoFar(client, l)
                                 /\ DatedPin(x, l)
        /\ temp # NoTemp =>
              /\ temp \in DOMAIN snap[client]
              /\ FactsOf(fact, client) # {}
              /\ FactsOn(client, {temp}) \subseteq left

\* LogInv by what its parts are about: the running transaction, what is
\* committed, and the one against the other.
HistoriesLogged ==
    \A c \in Clients :
        /\ VersionsAreEvents(snap[c], TempOf(c)) /\ VersionsHaveLanded(snap[c], TempOf(c), raw)
        /\ Anchored(snap[c], fact, c) /\ MarkSoFar(c)

PinsLogged ==
    /\ PinsHaveRows(snap, fact)
    /\ \A x \in DOMAIN fact : (Reloading /\ x \in left) \/ DatedPin(x, fact[x])

CommittedLogged == TablesLogged(db.snap, db.wm, db.fact, raw)

NoneForgotten == \A c \in Clients : \A l \in Real(db.snap[c]) : RecordedSoFar(c, l)

LogInv ==
    /\ LayersInOrder /\ ListsInOrder
    /\ HistoriesLogged /\ PinsLogged /\ WaitingFacts
    /\ CommittedLogged /\ NoneForgotten

----------------------------------------------------------------------------
(* What a load has done so far.                                            *)

ApplySoFar ==
    job = "apply" =>
        /\ fact = db.fact
        /\ \A c \in Clients :
              LET new == DOMAIN snap[c] \ DOMAIN db.snap[c] IN
              /\ DOMAIN db.snap[c] \subseteq DOMAIN snap[c]
              /\ \A l \in new : l > 0 /\ l > db.wm[c]
              /\ IF new = {} THEN wm[c] = db.wm[c] ELSE wm[c] \in new
        /\ \A l \in Unapplied(db.wm) :
              l \in todo \/ l \in DOMAIN snap[Wal[l].client] \/ (\E r \in Reasons : quar[r][l] > 0)

NoChanges(H) == \A l \in DOMAIN H : l <= 0

SeedSoFar ==
    job \in {"seed", "orphans"} =>
        /\ wm = db.wm /\ quar = db.quar
        /\ DOMAIN fact = DOMAIN db.fact
        /\ \A c \in Clients :
              \/ Real(snap[c]) = Real(db.snap[c])
              \/ NoChanges(db.snap[c]) /\ Real(snap[c]) = Real(db.snap[c]) \cup {0}
        /\ \A x \in DOMAIN fact :
              \/ fact[x] = db.fact[x]
              \/ /\ db.fact[x] < 0 /\ fact[x] = 0
                 /\ NoChanges(db.snap[FactRow[x].client]) /\ 0 \in Real(snap[FactRow[x].client])
        /\ \A c \in Clients :
              c \in pending \/ c \in Excluded \/ Stopgaps(c) = {} \/ ~ NoChanges(snap[c])
                  \/ (job = "seed" /\ c \notin profile)

FactsSoFar ==
    job = "facts" =>
        /\ wm = db.wm /\ quar = db.quar
        /\ DOMAIN db.fact \subseteq DOMAIN fact
        /\ \A c \in Clients : Real(snap[c]) = Real(db.snap[c])
        /\ \A x \in stagedFacts : x \in left \/ (x \in DOMAIN fact /\ fact[x] \in CoveringFact(x))

IdleSoFar == job = "idle" => Tables = db

AsCommitted(c) ==
    /\ snap[c] = db.snap[c] /\ wm[c] = db.wm[c]
    /\ \A x \in FactsOf(fact, c) : fact[x] = db.fact[x]

\* The replay goes through the list in lsn order.
ReplayInOrder(from) ==
    /\ temp < from
    /\ todo \subseteq ToReplay(client, from)
    /\ \A l \in ToReplay(client, from) \ todo : \A m \in todo : l < m

Placeholder(c) == {TempOf(c)} \ {NoTemp}

\* Two rows that differ at most in when they were closed.
SameVersion(r, s) ==
    r.valid_from = s.valid_from /\ r.is_deleted = s.is_deleted /\ r.attrs = s.attrs

\* The client's rows below the reset point stay, those from there on come
\* back, and the facts that were on them go back to one.
RebuiltSoFar(c, from) ==
    /\ c = client => ReplayInOrder(from)
    /\ \A l \in DOMAIN db.snap[c] : l < from =>
          /\ l \in DOMAIN snap[c] \ Placeholder(c)
          /\ SameVersion(snap[c][l], db.snap[c][l])
    /\ \A l \in DOMAIN snap[c] : l \in DOMAIN db.snap[c] \/ from <= l \/ l \in Placeholder(c)
    /\ \A l \in ToReplay(c, from) :
          IF l \in DOMAIN snap[c] THEN Wal[l].op = "delete" \/ snap[c][l].attrs = <<l, raw[l]>>
          ELSE \/ c = client /\ l \in todo
               \/ Wal[l].op = "delete" /\ \A m \in DOMAIN snap[c] : l < m
    /\ \A x \in FactsOf(fact, c) :
          IF db.fact[x] >= from
          THEN \/ c = client /\ x \in left
               \/ (c = client => todo = {}) /\ fact[x] \in CoveringFact(x)
          ELSE fact[x] = db.fact[x] /\ x \notin left

ReloadSoFar ==
    job = "reload" =>
        /\ pending \subseteq Affected(window)
        /\ client # NoClient => client \in Affected(window) \ pending
        /\ DOMAIN fact = DOMAIN db.fact
        /\ quar["stale_lsn"] = db.quar["stale_lsn"]
        /\ \A c \in Clients :
              IF c \in Affected(window) \ pending
              THEN \A from \in ResetLsns(c, window) : RebuiltSoFar(c, from)
              ELSE AsCommitted(c)

\* A change quarantined as stale is not above the watermark, so that no later
\* run selects it, and is not on the list of the run that quarantined it.
StaleInv ==
    /\ StaleQuarantinedOnce
    /\ \A l \in Lsns : /\ db.quar["stale_lsn"][l] <= 1
                       /\ db.quar["stale_lsn"][l] # 0 => l <= db.wm[Wal[l].client]
    /\ job # "reload" =>
          \A l \in Lsns : quar["stale_lsn"][l] # 0 =>
              l <= wm[Wal[l].client] /\ ~ (job = "apply" /\ l \in todo)

LoadsInv == ApplySoFar /\ SeedSoFar /\ FactsSoFar /\ IdleSoFar /\ ReloadSoFar /\ StaleInv
=============================================================================
